# A verification project for poo-flow

poo-flow describes workflows declaratively (in Gerbil Scheme) and runs them
through a small C kernel, language bindings over it, and a Python runtime; a
second Python package turns Lean proofs into receipts and checks security cases.
This directory holds TLA+ modules of the parts that keep state at run time, or
whose algorithms are easy to get wrong, TLC models that check them on small
instances, and TLAPS proofs that most of what the models check holds for every
size of the system. Paths below are relative to the repository; `python-runtime` stands for
`packages/python-runtime/src/poo_flow_runtime` and `proofs` for
`packages/proofs/python/src/poo_flow_proof`.

To check a run: `tlc -config MCMediation.cfg MCMediation`. To check the proofs:
`tlapm EvidenceJournalProofs.tla`, and the same for the other seven modules whose
names end in `Proofs`.

## 1. The system

| component | state it keeps | operations | what makes it correct |
|---|---|---|---|
| evidence journal (`python-runtime/evidence.py`, `batched_evidence_store.py`) | SQL tables: reservations, evidence, staged leaves, batches, one head per session | `reserve`, `append`, `stage_batched`, `flush_batched`, `reconciliation` | no gap, no fork of the execution root, nothing rewritten; a receipt is bound to its reservation |
| effect mediation (`bindings/runtime-c/src/runtime_v0.c`, the native sink and session) | per session: nonce table, mediation sequence, execution root, staged leaves | `strict_mediate`, `batched_flush`, `session_reconcile_evidence`, cancel, close | an effect runs once per token; an unknown outcome stops everything; kernel and journal agree |
| hot batch lane (`runtime_v0.c`) | a window of pending events, a poll cursor, a watermark, leases, arenas | `publish_batch`, `poll_batch`, `submit_batch`, `batch_ack`, arena register/recycle/release | accepted once, leases disjoint, nothing dropped, payload slices inside their arena |
| native roundtrip (Python shim, `_native/arena.py`) | the current arena, the lease in hand | publish, poll, mediate, ack with an error path at each | the lease goes back; the batch mediated is the one handed in |
| resource table (`runtime_v0.c`) | one array of slots with generations | every create/open/negotiate/register and release | a handle resolves only to what it was issued for; owners outlive what they own |
| graph executor (`python-runtime/_runtime_graph_*.py`, `subgraphs.py`) | state, pending queue, trace, step, events; snapshots of interrupts | invoke, resume, in several sync, async and streaming forms | no work lost or repeated; log and state agree; it ends |
| durable threads (`_program_runtime.py`, `durable.py`) | checkpoint rows, a head per thread | `invoke_thread`, `resume_thread`, `save`, retention, `update_state`, `clear` | the head loads; an interrupt shown can be answered |
| file checkpointer (`checkpoints.py`) | a head file and a history directory per thread | save, `update_state`, `clear` | what a save returned for is not lost |
| runtime stores (`stores.py`, `durable.py`) | a dictionary, JSON files, or rows | put, delete, search | one map, whichever store it is |
| stream publisher, ordered map (`_runtime_graph_stream.py`, `_anyio_runtime.py`) | a sink in shared metadata; a shared iterator | stream, batch | nested streams do not see each other's values; results by index |
| batched Merkle tree (`batched_evidence.py`) | none | root, proof, verify | a proof verifies exactly for its leaf |
| Scheme load cache and AOT artifacts (`_scheme_load*.py`) | a warm cache, artifact files, compiled runners | load, precompile, preproject | rows are those of the sources as they are |
| declaration closure pipeline (`proofs/lean_declaration_closure.py`, `axle_closure_verify.py`) | build artifacts, a closure cache, the output file | export, resolve, compose, AXLE phases | what is verified is what is named |
| exact closure and bundle (`axle_exact_closure.py`, `independent_bundle*.py`) | none | admit, expand, order, project; coalesce source ranges | a bundle exactly when the closure allows one; every dependency before its dependents |
| receipt graph, authority and audit (`proof_base_receipt_graph*.py`, `axle_receipt_authority.py`) | none; the live sources | verify, accept, encode, decode | accepted only what composes and was verified again |
| proof-case runtime (`proof_case_runtime.py`) | a negotiated layout, a lock, per-thread scratch | validate and write | one negotiation, no stale handle |
| executable refinement (`ai_security_executable_refinement.py`) | none; the host keeps receipts | transition, replay, content verification | one causal chain; nothing counted that did not answer |
| security case (`embodied_ai_*.py`) | none | change impact, three admission gates | nothing stands that rests on what changed; nothing admitted without authority |
| AXLE file verification (`axle_verify.py`) | tasks | verify files under a deadline | the exit status tells |
| WebAssembly/TypeScript bindings | a worker, a workflow cursor | worker messages | one answer per request |
| Cedar authority host, Gerbil core and modules, manifests, emission, automation | (almost) none: values in, values out | | |

How they interact. A host opens a session in the kernel, publishes events into
an arena and mediates a batch with a one-shot token. The kernel calls out three
times: to the sink to *reserve* (a durable row), to the adapter to *execute* the
effect, and to the sink to *finalize* (a durable receipt, or a staged leaf when
evidence is batched); `batched_flush` later commits the staged leaves under one
root. The kernel's session is volatile and the journal is not: a restarted
session asks the journal for a reconciliation packet. The graph executor is
independent of the kernel; durable threads run it and keep its interrupts in a
checkpointer. In the proof package a driver builds a Lake workspace, exports the
closure of some declarations (through a cache), has AXLE verify the composed
text and writes an artifact; an authority accepts the artifact only after doing
all of this again; receipt graphs compose accepted artifacts, and an audit is a
graph in bytes that is verified node by node when it is read.

What is hard: a crash between any two of the kernel's call-outs; failures of the
sink after the effect ran; two processes on one journal or one thread; slots,
generations and sequence numbers that are used again; compaction of the event
window under open leases; interrupts resumed more than once, or met while
resuming; saves whose clock readings and commits cross; a temporary file, a
cache or a sink that several callers share; sources edited between the moments
at which they are hashed, built and read; late and repeated proposals; deadlines
that cut tasks off. PROJECT.json lists these
hazards line by line with the properties aimed at them.

## 2. The modules

| module | models | composed of |
|---|---|---|
| `EvidenceJournal` | the SQL journal of one session; every public call is one transaction | |
| `EffectLedger` | abstract: what mediation promises, without kernels or crashes | |
| `Mediation` | kernels, adapter and sink around one journal | INSTANCE of `EvidenceJournal`; implements `EffectLedger` |
| `HotBatch` | the event lane of one session | |
| `Roundtrip` | the binding's use of the lane | EXTENDS `HotBatch` |
| `HandleTable` | the kernel's resource table | |
| `GraphExecutor` | a run of the Python executor with its snapshots | |
| `DurableThread` | thread, checkpointer and workers | |
| `ReplacedFile` | a file rewritten through a temporary sibling and a rename | |
| `FileCheckpointer` | the file checkpointer of one thread | EXTENDS `ReplacedFile` |
| `RuntimeStore` | one key of the memory, file and Turso stores | EXTENDS `ReplacedFile` |
| `StreamSink` | the custom streams of one runtime | |
| `OrderedMap` | the two ordered maps | |
| `BatchedMerkle` | the tree over a batch's leaves | |
| `SchemeLoad` | the ways to the rows of a Scheme fragment | |
| `ClosureExport` | drivers of the closure pipeline over one workspace | |
| `ExactClosure`, `SourceRanges` | from closure to bundle; ranges in a source file | |
| `ReceiptGraph`, `ReceiptAudit` | verification of a graph; receipts, authority and audit | `ReceiptAudit` EXTENDS `ReceiptGraph` |
| `ProofCase` | threads over the proof-case library | |
| `ActionTrace` | action envelopes and their receipts; evidence content | |
| `ChangeImpact`, `Admission` | the relation graph; the three gates | |
| `AxleVerify` | the command that verifies files | |
| `EvidenceJournalProofs`, `MediationProofs`, `HandleTableProofs`, `DurableThreadProofs` | TLAPS proofs about the module of that name | EXTEND it |
| `LaneProofs` | proofs about `HotBatch` and `Roundtrip` | EXTENDS them |
| `GraphRuntimeProofs` | proofs about `GraphExecutor`, `StreamSink`, `OrderedMap` | EXTENDS them |
| `PackageProofs` | proofs about `FileCheckpointer`, `RuntimeStore`, `ProofCase`, `SchemeLoad`, `ClosureExport`, `AxleVerify` | EXTENDS them |
| `ReceiptProofs` | proofs about `SourceRanges`, `ReceiptGraph`, `ReceiptAudit`, `Admission`, `ActionTrace`, `ChangeImpact`, `ExactClosure`, `BatchedMerkle` | EXTENDS them |
| `MC*` | constants for TLC; `MCGraphRuntime` and `MCPackages` put modules side by side, a behaviour being about one of them | |

Definitions carry the source's names where they can. A definition whose name
ends in a description of a fault (`..._restarted`, `Expired_newest`, introduced
by "Fault:") is not part of any specification: it is the mutated form of the
definition after it, kept to show that the property named in PROJECT.json
notices that fault.

**EvidenceJournal.** `reservations`, `evidence`, `leaves`, `batches` and `head`
are the tables of one session. Digests are modelled by their preimages: a leaf
digest is the record it hashes, a batch root is the sequence of its leaves, a
batch's execution root is the pair of the root before and the batch root. So two
digests are equal only when what they hash is, which is the assumption the code
makes of SHA-256. A call either commits as a whole or raises and changes
nothing; database errors are therefore refusals.

**Mediation.** `kernel[k]` is the volatile session of kernel k, or `Absent`, and
`call[k]` says at which call-out a kernel call stands. `strict_mediate` is one
action up to and including the durable reservation, because the kernel checks
the token, calls `reserve`, and takes the nonce without giving up control, and a
crash before the reservation leaves no trace. `adapter_execute`, `finalize` (or
`finalize_fails`: the journal refused the receipt or its transaction failed) and
`mediate_returns` follow as separate steps; `crash` can come between any two.
`HostReconciles` says whether the host calls `reconcile_evidence` before it
mediates after an open; `SinkFails` whether a transaction of the sink may fail.
The adapter and the host are external and nondeterministic.

**HotBatch.** One action per kernel call. The lane is documented as
session-thread-affine, so a call is atomic. `HostMonotone` and
`HostFreshGeneration` restrict the host (section 3).
`published` and `accepts` are ghosts.

**Roundtrip.** The kernel calls of one roundtrip as separate steps, with the
shim's error path at each.

**HandleTable.** Rows with generation, kind, parent and state; `issued` is a
ghost that remembers every handle ever given out, so that the host may use any
of them again. Capability masks, descriptor validation and payloads are left out.

**GraphExecutor.** The state is abstracted to the sequence of steps whose
updates were merged. Actions return any update, command or sends from small
sets, fail, or interrupt; routers return any of `Route`. `raised` holds every
snapshot raised so far and any of them may be resumed.

**DurableThread.** The executor is cut down to a line of nodes; the checkpointer
is step by step: read the clock, commit row and head, select what is expired,
delete it. `stop` ends a worker anywhere. `asked`, `edited` and `ran` are ghosts.

**ReplacedFile, FileCheckpointer, RuntimeStore.** Names point to inodes; opening
the temporary name truncates whatever inode it names, which may be another
writer's. One step is one call to the file system (or one statement to the
database), and a worker may stop before any of them. `overlapped` and `crossed`
are ghosts that remember whether two calls were ever under way at once. The
search of the Turso store is compared with that of the others as a predicate on
namespaces.

**StreamSink, OrderedMap.** A stream's steps are its consumer's requests and the
steps of its nodes. A stream ends when its consumer drops it or when a node, a router
or a store raises in it; an exception that is kept keeps the publisher too, so
`restore_sink`, the finalizer, may come any time after. `unnested` remembers that a
stream emitted or was finalized while another, started later, had not been finalized.
In the map a step is what the event loop runs between two awaits; the call is
external and returns, fails or is cancelled.

**SchemeLoad.** Rows are the versions of the inputs they were made from: fragment,
projection source, the library modules that the cache key lists, and those that it
does not. `content` is what the files say, `compiled` what was built. `orderly` is a ghost
that is lost when rows are made between an edit of a listed module and its build, or
a source is edited under a preprojection.

**ClosureExport.** A closure, a digest and a text are the versions of the files they
were taken from. `visible` says whether the version of an imported module shows
in the bytes of the root's .olean (Lean decides that; both are checked). `raced`
is a ghost: artifacts were rebuilt between another driver's key and its export.

**ExactClosure, SourceRanges, ReceiptGraph, BatchedMerkle, ChangeImpact.** The loops
of the algorithms are actions, one per iteration, over inputs that Init chooses;
sets that Python iterates in hash order are taken in any order, and lists that it
sorts first are sets of which the least is taken. The frontier of a change impact is
a list whose end is taken; its model takes any of it, the code's order among them.
The modules of one wave of owners are a set, which the code emits in name order.
The properties compare the
outcome with a definition that has no loop (reachability, acyclicity,
disjointness). That nothing depends on itself through others is stated on sets: in
every part something depends on nothing else of that part. That a receipt graph has
no cycle and leads to its terminal node is stated likewise: of any set one has no supplier in it, and what holds the
terminal and all suppliers of what it holds is everything.

In `ExactClosure` a name is a number, and the relation `within` says which names it
begins with. The documents that AXLE returns, the constants of the closure and the
proof base are sets of names that need not agree. What `source_name` and
`_normalized_source_declaration_name` make of a name is any map their rules allow
(`Aliased`, `Normalized`): which constant anchors a source range, and which anchor a
generated instance or an internal name goes to, depends on texts that are left out.
The model refuses what the code refuses, verdict by verdict. What does not depend on
names is `phase_fails`: an AXLE phase, a proof that is not verified, ranges that cross
(`SourceRanges` has them), an owner module without a source, a manifest.

In `BatchedMerkle` a leaf is its digest. The verifier in the code takes the digest from
the leaf's field `digest` (`batched_evidence.py:88`) and does not compute it again, so a
leaf whose other fields were altered under a kept digest is accepted; MerkleBinds
binds digests, not fields.

**ReceiptAudit.** Two nodes, the second assuming what the first provides; sources
are edited at any moment, also between the runs in which the nodes of one audit
are verified again.

**ProofCase.** Every call into the library is a step, since it runs without the
interpreter lock. The library is external: it answers OK or any of its statuses,
and checks the generation of a handle.

**ActionTrace, Admission.** The code is a function of what is presented to it. The
host that chains actions and grants capabilities, and the world in which
authorities revoke and effects are committed, are external and marked so in the
map; what they present may be late, repeated, stale, invalid or of another transaction.
In `Admission` the recovery receipt is copied from the world when its fence owner is
asked and presented later, the obligations and their reversibility are what the request
declares, and receipts that are not valid say anything.

**AxleVerify.** One task per path with its two remote operations, each of which may
raise; a deadline may fall before any step, also when every path is done and not yet
reported; files are edited meanwhile. `process` is the exit status and `printed` what
the command printed, since receipts, a deadline and an error all exit with 1.

## 3. What is checked

### Runs that pass

| run | properties | shows | bounds |
|---|---|---|---|
| `journal` | TypeOK, LedgerOrder, RootChain, RecordsBound, AppendOnly | any sequence of calls, accepted or refused, keeps the journal one chain that only grows | 3 nonces: a flushed, a staged and an open mediation at once; 2 spans and 2 committed roots, so that a mismatch is possible |
| `mediation` | SessionsAgree, AtMostOnce, Recoverable, ImplementsLedger, StagedFlushed | one kernel whose host reconciles, with failures and two losses: an effect runs once, a lost session can be rebuilt, the whole implements the ledger, and what is staged is flushed in the end | 3 nonces, 2 losses (a loss during recovery from a loss), 2 staged leaves (the kernel's table full), 2 semantic roots |
| `mediation_shared` | ReportsDurable | two kernels on one journal, no reconciliation required: everything reported is durable, no flush is durable and refused | 2 nonces, 1 loss |
| `lane` | LaneIntact, AcceptanceExact, RoundtripsWhole, NothingDropped | all sequences of lane calls by a host of its own, and roundtrips that fail at any call | window of 2 and 3 sequence numbers: the window fills, is compacted, and fills again; 2 arenas, 2 leases, 2 generations; batches of one or two |
| `handles` | TableIntact, HandlesFresh | all orders of create and release, and a generation that wraps | 5 slots hold an instance with a bundle, session, arena and lease; 6 allocations force a reuse; a slot has two generations in place of 2^32 - 1, so that they come round while the other slots are in use |
| `graph` | LogExact, WorkConserved, StreamsApart, MapExact, CallsReturn | runs with a cycle, a router, fan-out, rogue commands, a subgraph, failures and interrupts; streams of two runs, which may fail in a node; maps | 2 nodes, step limit 3, 2 resumes (of one snapshot twice, or of a snapshot of a resumed run); 2 streams of 2 values; 3 inputs with no limit or up to 2 workers, so that a worker takes a second input |
| `thread` | ThreadResumable, SavedNotRepeated, EditsKept | one worker that may stop anywhere | plan of 3 nodes, one interrupts; 4 saves with a retention limit of 2, so pruning happens twice |
| `packages` | CheckpointsKept, StoreIsMap, LoadFresh, ExportSound, ClosureExact, RangesCover, GraphVerdict, AuditBinds, CaseServed, MerkleBinds, TraceSound, ImpactExact, AdmissionSound, ExitTells | the other parts of the Python packages, each alone (next table) | see there |

The parts of `packages`; a behaviour is about one of them and the others stay as
they are, since none of them calls another.

| property | part | bounds |
|---|---|---|
| CheckpointsKept | saves, edits, clears and stops of one thread's files | 2 workers, 3 saves: a temporary file is shared, taken over and left behind |
| StoreIsMap | puts, deletes and stops on one key of each store | 2 callers, 3 puts; namespaces of up to two names |
| LoadFresh | loads, precompilations, preprojections under edits of listed and unlisted modules, builds and cache clears | 2 loaders, 2 edits, 2 calls |
| ExportSound | closure exports and verification runs under edits | 2 drivers, 2 edits, 2 starts |
| ClosureExact | closures of declarations, documents, prefixes and proof bases | 3 names: every dependency relation and order on names that begin with no other; with at most one dependency, generated and nested names, external modules and names without a document, closure and proof base in one order; without any, every order of the proof base and choice of roots and imports; pending names in any order |
| RangesCover | source ranges of declarations | 3 ranges on 5 positions: all ways to touch, nest and cross |
| GraphVerdict | receipt graphs | 3 nodes, 2 assumptions, up to 3 edges: cycles, diamonds, double and missing suppliers |
| AuditBinds | receipts and audits over edited sources | 2 nodes, 3 edits |
| CaseServed | validations by threads | 2 threads, 3 validations, a library with the generated layout or another |
| MerkleBinds | trees and proofs | up to 5 leaves (two levels of odd length), 2 payloads; every other batch within the bound is compared |
| TraceSound | proposals, grants, transitions, replays; evidence content | 3 proposals, 3 receipts: one accepted, one late, one that follows |
| ImpactExact | change impact | parts of the canonical graph, one with a second control, each with one thing wrong; every single change; the frontier in any order |
| AdmissionSound | declarations, effects, candidates | 4 epochs around a receipt's validity, 2 transactions, 2 effects of any reversibility, 2 claimants; receipts valid, invalid or both |
| ExitTells | file verification | 2 paths, 2 edits |

Properties that belong together are one invariant with named parts:
RecordsBound (ReceiptsBound, LeafOrder, BatchRanges), SessionsAgree (TypeOK,
KernelAgrees), LaneIntact (TypeOK, WindowOrdered, LeasesCounted, LeasesDisjoint,
PayloadInBounds), AcceptanceExact (AcceptedOnce, WatermarkContiguous),
RoundtripsWhole (RoundtripsApart, LaneDrained), TableIntact (TypeOK, OwnersAlive,
SessionBound, ArenaPinned), LogExact (LogTellsRun, StateFromLog), ThreadResumable
(HeadResolves, Answerable), CheckpointsKept (SavedResolvable, HeadWhole);
CallsReturn is Terminates and MapEnds.

`MaxLosses`, `MaxSequence`, `MaxGeneration`, `MaxInstances`, `MaxAllocations`,
`MaxResumes`, `MaxClock` and the `Max` constants of the modules of `packages` bound
counters and inputs that the code does not bound and exist for TLC only; `MaxStaged`, `MaxNonces`, `Capacity`, `MaxResources`,
`GenerationLimit`, `step_limit` and `RetentionLimit` stand for limits of the
code. Deadlock is checked for the journal; elsewhere the system may stop (the
host makes no further call, or a bound is used up), and the configurations say
CHECK_DEADLOCK FALSE. Symmetry is used only in `handles`, for bundle identities.

Restrictions under which the passing runs are checked, and why each is needed
(the constants can be changed to see it):

- `HostReconciles` in `mediation`: the host reconciles a session it has opened
  before it mediates. Without it AtMostOnce fails: `reserve` accepts an identical
  reservation whatever the state of its row, so a restarted kernel that does not
  know the nonce runs its effect again.
- `HostMonotone` in `lane`: the host does not publish a sequence number
  twice. The kernel compares a new event only with the last one in the window; when
  the window is drained an old number is taken again, below the watermark, and
  WatermarkContiguous fails.
- `HostFreshGeneration` in `lane`: an arena is registered with a generation
  its slot has not had. Events name their arena by slot and generation number, and
  poll does not compare slices with the capacity again, so PayloadInBounds fails
  when a smaller arena takes the same pair.
- One interrupting node in `thread`: see `thread_again`. One worker in `thread`:
  when two savers of a thread cross between clock reading and commit, retention
  deletes the row that the head names and HeadResolves fails.
- `WorkConserved` leaves out contexts that come from a subgraph's snapshot: see
  `graph_subgraph`.
- The second part of TableIntact (owners, bundles and arenas) is claimed until the
  generations of a slot have come round (`NoWrap`): after that an old handle
  resolves again, to whatever the slot holds by then, and a release through it takes
  away what others still rest on. HandlesFresh says how far this goes: a handle
  resolves to its own resource or after a full round.
- HeadWhole and the first part of StoreIsMap are claimed as long as no two calls
  overlapped. With an overlap a worker renames a file that another has just
  truncated, and the head or the item is empty; a put can also bring back the
  created_at of an item deleted under it. SavedResolvable has no such condition.
- StreamsApart is claimed as long as every stream is finalized before the one around
  it emits again or is finalized itself. When two streams of one runtime take turns,
  the later sink collects what the nodes of the earlier emit, and after they end in
  the order in which they began, the runtime is left with a dead sink. The same
  happens when a node fails or is interrupted inside a stream and its exception is
  kept: the traceback holds the generator and so the publisher, whose `__del__`
  (`_runtime_graph_stream.py:43`) puts the sink back only when it is let go. And what
  a node emitted before it raised is never yielded: the property claims the values of
  the nodes before it.
- LoadFresh needs `orderly` (section 2), and says nothing of the library for rows
  of an artifact, which has no digest of it. For rows of the warm cache it speaks of
  the modules that the key lists only: `_SCHEME_LOAD_DEPENDENCIES`
  (`_scheme_load_cache.py:19`) names eleven files, and the runner imports others, such
  as `modules/funflow/profile-library.ss`; after an edit and build of one of these the
  key is the same and the warm cache serves the old rows.
- ClosureExact says nothing of a run that `phase_fails` ended.
- CheckpointsKept is checked for saves with new checkpoint ids: a save that is given an
  id the history already has (`checkpoints.py:202`) rewrites that file and is not modelled.
- ExportSound needs `visible` and not `raced`: the cache key names the root's
  .olean and the exporter only, and an entry made in the race outlives it. A bundle
  is claimed to be of one version only if no edit fell under its run, because the
  owner sources are hashed and read at different moments.
- AuditBinds claims one version for all nodes only if no edit fell between their
  runs. `reverify` goes through the same closure cache.
- MerkleBinds relies on the index in the leaf's digest: verification looks neither
  at the proof's index nor at its leaf count, nor, as said in section 2, at the
  leaf's other fields.
- AdmissionSound allows a copy of a receipt taken before its revocation: the gate
  sees the copy only. Likewise a recovery receipt is compared with itself, its
  claimant with its fence owner, so a former owner of the fence is admitted with a
  receipt from before the fence changed hands, and the property allows that. That an
  effect declared reversible needs no compensation is the request's word.
- ExitTells: a status of 1 says that a path was not verified only with the receipts
  printed. A deadline exits with 1 as well (`axle_verify.py:237`), and may strike when
  every path has just been verified; so does an error. TraceSound says when a replay under other grants succeeds:
  the receipt does not name its policy.

`LaneDrained` speaks of lanes in which no mediation was refused and no poll was
starved: a refused roundtrip acknowledges its lease and leaves its events in the
window as polled, where they are neither polled nor published again.

### Runs that show a disagreement

Each checks one property that a document of the repository states, and TLC finds
a behaviour of the code that does not have it. The findings in PROJECT.json quote
the sentence.

| run | property | what happens |
|---|---|---|
| `mediation_finalize` | FinalizeRecords | while leaves are staged the head stands before them, so `append` refuses the next strict or indeterminate receipt, and the outcome of an executed effect is recorded nowhere |
| `handles_lease` | AckBySameSession | a lease names its session by slot: after release and reuse another session acknowledges it |
| `graph_subgraph` | NothingSkipped | an interrupt inside a subgraph reaches the caller as the child's snapshot; resumed through the parent, the run completes without the parent's queue |
| `thread_again` | Answerable | an interrupt met while resuming is not saved; the next answer goes to the first interrupt's node |

### Fairness

`StagedFlushed` (run `mediation`) assumes what `Recovery` says: a kernel call that was begun comes
back (adapter and sink return, or the sink raises), a cancelled session is closed,
a session that is gone is opened and reconciled, and the host calls the flush
again and again while leaves are staged. The kernel does none of this by itself:
it is the documented duty of the host, and a flush is the only way a leaf can
leave the staged state. No fairness is assumed of mediations, failures or
crashes, and crashes are bounded by `MaxLosses`.
`Terminates` assumes weak fairness of `Run`: `invoke` and `resume_interrupted`
are synchronous loops (or awaited ones) that run on once called, and node actions
return, raise or interrupt. `MapEnds` assumes `MapFair`: the event loop runs every
task that can run, calls end, and a cancelled task ends. Nothing is assumed of
callers. In `MCGraphRuntime` each fairness condition is assumed only of the part a
behaviour is about.

### Disagreements met, not run

Places where code and documents, or two parts of the code, differ, and no run
shows it:

- The receipt of a root that is not a theorem has no `messages` and `request`, which
  the authority's parser requires, so such artifacts are always refused
  (`proofs/axle_receipt_authority.py`), although the design calls
  *not-applicable* satisfied.
- The manifest of an independent bundle sorts the proof-base imports that closure
  and preflight keep in the order of the request.
- The interfaces a node assumes are not compared with those its own proof was
  checked against.
- The decoded payload that the evidence verifier replays is given beside the bytes
  and not decoded from them; a null in a projection becomes the text "None" and
  passes the checks for emptiness.
- The effect gate does not compare the outcome with the phase of the recovery and
  admits an applied effect with a prior commit; the authority gate looks for the
  candidate among the actors and not for the provider.
- Impact goes forward only: changed evidence does not reopen its control.
- `--proof-base-import` alone does not select the closure mode of `axle_verify.py`.
- `clear` of the file checkpointer raises when a stopped worker has left a temporary
  file in the history directory; the Turso search ignores case and takes wildcards.

## 4. What is proved

Thirty-seven of the thirty-nine properties that the passing runs check are theorems
too, every invariant among them: the run shows the property on a small instance,
the theorem for every value of the constants, so for every number of processes,
calls, losses and bytes. Each theorem comes from an inductive invariant, stated at the head of its section as a
conjunction of named parts, with one lemma per action that the action keeps it.

### Evidence journal (`EvidenceJournalProofs`)

`Typing`, `Ordered`, `NoFork`, `Attested`: Spec => []TypeOK, []LedgerOrder,
[](ReceiptsBound /\ LeafOrder /\ RootChain /\ BatchRanges), []RecordsBound;
`HistoryKept`: Spec => AppendOnly.

The inductive invariant `IInv` is the conjunction of the five state properties
(LedgerOrder, RootChain and the parts of RecordsBound) and the type invariant,
because none of them is inductive alone. That `append` extends the chain needs the
ledger's order (the head is the last finalized row and nothing is staged after it);
that `flush` hashes the staged leaves in order needs the leaf order, which in turn
needs that at most one reservation is open; the batch ranges need the contiguity
of the leaves they cover. The lemma `Shape` says what `IInv` gives in the form the
steps use: finalized, staged and reserved rows are three consecutive intervals.
There is one lemma per call (`ReserveIInv`, `AppendIInv`, `StageIInv`,
`FlushIInv`), and one per call for the action property.

### Effect mediation (`MediationProofs`)

For any set of kernels that share a journal, hosts that reconcile or not:

- `SharedJournal`: Spec => []JournalIntact, the journal's invariants under kernels,
  which the run `journal` checks for any callers. Every step of a kernel is one of the
  journal's transactions or leaves the journal alone. The journal's lemmas are
  taken through INSTANCE; `SameReserve`, `SameAppend`, `SameStage` and `SameFlush`
  say that the transactions seen through the two instances are the same.
- `ReportsKept`: Spec => []ReportsDurable. `ReportInv` adds what a kernel holds: its
  leaves are the journal's, and start from the kernel's own root unless another
  kernel has flushed one of them. That "unless" is the point: an overtaken
  kernel's flush is refused, not lost.

For one kernel whose host reconciles (`Sole == HostReconciles /\ \A k, l \in Kernel :
k = l`), over any number of crashes, failed transactions and tokens:

- `EffectsOnce` ([]AtMostOnce), `JournalAndSessionAgree` ([]SessionsAgree),
  `AlwaysRecoverable` ([]Recoverable);
- `LedgerImplemented`: Spec => ImplementsLedger, the refinement of `EffectLedger`
  step by step. The map takes the journal's rows as the ledger's log.

`SoleInv` says for each point of a call at which point the journal is (`InStep`), what
an informed session knows (`Informed`), that a session that is not is blank, and,
whether a kernel is alive or not, that an effect ran only if its token was
reserved and that the history fits into a new session (`HistoryInv`). The
hypothesis is needed: two kernels on one journal can both have an identical
reservation accepted, and then the effect runs twice; so can one kernel that does
not reconcile.

### Resource table (`HandleTableProofs`)

`TableKept`: Spec => []TableIntact; `HandlesNotReused`: Spec => []HandlesFresh, for any
number of slots, generations and calls. `TableInv` is the type, that every handle
ever issued can be traced to the use of its slot it was issued for (its generation
is that many uses back, modulo the round), and, until a round is full, ownership.
Tracing is what makes "resolves" mean "is the one".

### Lane and roundtrip (`LaneProofs`)

- `WindowKept`, `NoEventDropped`: the type, the order of the window, the count and
  disjointness of leases, and NothingDropped, of every host.
- `LaneKept` ([]LaneIntact) and `RoundtripsKept` ([]RoundtripsWhole) for a host that
  registers arenas with fresh generations (`HostFreshGeneration`);
- `AcceptedExactly` ([]AcceptanceExact) for a host that does not publish a number
  twice (`HostMonotone`). Section 3 says why each is needed.

`LaneInv` says that the polled events come first and every lease is a run of them;
`LeasesPlaced` gives each lease its place in the window, which is what compaction
shifts. `PayloadInv` and `AcceptInv` are the two hosts' strengthenings. `RoundInv`
follows a roundtrip call by call: which events are its own, that they are last in
the window, and that they wait in one arena.

### Graph runtime (`GraphRuntimeProofs`)

- `LogKept` ([]LogExact) and `WorkKept` ([]WorkConserved): for every plan, step limit
  and number of resumes. `GraphInv` holds of the running context and of every
  snapshot raised, because any of these may be resumed at any time: the log is the
  order of starts and ends, the state is the sequence of merges the log tells, and
  what was queued is what was drained followed by what is pending.
- `StreamsKeptApart` (SinkSpec => []StreamsApart): `SinkInv` orders the streams that are
  not finalized by the sinks they found. It claims nothing once a stream has emitted or
  been finalized while another, started later, was not.
- `MapsExactly` (MapSpec => []MapExact): `MapInv` says who owns each index, that a
  result that is missing has a call that will give it or a failure, and that the
  group ends only when its tasks have.

### Durable threads (`DurableThreadProofs`)

For one worker (`Alone`) that may stop anywhere, any plan, retention limit and edits:
`HeadLoads` ([]HeadResolves) and `EditsResumed` ([]EditsKept), from `HeadInv`: the head
is the newest row, and what retention has selected does not hold it. If also one
node interrupts (`AsksOnce`): `QuestionsAnswerable` ([]ThreadResumable) and
`NothingRepeated` ([]SavedNotRepeated), from `AnswerInv`. Both hypotheses are needed
(section 3, and the run `thread_again`).

### Packages (`PackageProofs`, `ReceiptProofs`)

| theorem | property | the invariant says |
|---|---|---|
| `SavesKept` | CheckpointsKept | as long as no calls overlapped: the head is whole and as new as what was reported, and where the one call stands; that saves are in the history needs no such thing |
| `StoresAreMaps` | StoreIsMap | as long as no calls crossed: the stored item is the last put, and what the one caller has read and written of it |
| `CallsServed` | CaseServed | who holds the lock, which handles are a thread's own, that the layout is negotiated before it is used |
| `LoadsFresh` | LoadFresh | keys are of stamps already given; every entry of the warm cache, runner and artifact is of the texts and listed modules its key names; loaders carry such rows |
| `ExportsSound` | ExportSound | cache entries are of what their key names while `visible` and not `raced`; each phase of a driver carries what it was told |
| `ExitStatusTells` | ExitTells | for any list of paths, what each task has read, that a task that counts as verified was, and which end printed what |
| `RangesCovered` | RangesCover | of the ranges taken: the parts are disjoint and in order and hold each name once; those that wait start behind all parts |
| `GraphsVerified` | GraphVerdict | for every graph of the constructors' type (`GraphType`), stage by stage: what the checked edges say, that indegrees count the suppliers not yet out, that the order is least so far, that what was reached is within every set closed under suppliers |
| `AuditsBind` | AuditBinds | on top of the invariant of `GraphsVerified`: whose graph is being verified; an accepted node says what its receipt says and its owner derives a receipt that parses; what was encoded composes; the nodes decoded so far are what was derived of them, of the present sources while it is calm |
| `AdmittedRightly` | AdmissionSound | the copy says what the authority says or was taken before it revoked; the recovery receipt names the owner of the fence or was taken before that changed; the last decision of each gate with what it was decided of |
| `TracesSound` | TraceSound | every receipt is the transition of its envelope under its policy, and every accepted one follows the last accepted before it; evidence is what `verify` gives of its request and the authorities that answered |
| `ImpactsExact` | ImpactExact | for every graph of the dataclasses' type (`RelationGraphType`): only a valid graph is walked; what is affected is within every set that holds the changes and follows the relations; what is affected and no longer to visit has been followed |
| `ClosuresExact` | ClosureExact | `CloseInv`, stage by stage: the waves of owner modules depend on earlier waves; the selected names are needed and those taken are followed; the names being visited lead to each other and those visited are in order; every verdict names a condition of `Bundleable` that fails |
| `MerkleBinding` | MerkleBinds | `MerkleInv`: there are levels and positions that the steps recorded so far passed (`Climb`), and the digest folded so far is on that path only if the leaf presented is the one proved (`OnPath`) |

Two arguments of `GraphsVerified` are not in the code. It refuses a terminal node that
has a consumer before it looks for cycles: `TerminalLast` shows that such a graph
does not compose anyway. It compares the length of the order with the number of
nodes: `OrderEndsInv` shows that what is left over then supplies itself. `AuditsBind`
rests on one more: the order of a verified graph is determined (`TwoInOrder`), so
that the receipt made when decoding is the one made when encoding.

`ClosuresExact` holds for every number of names, and for prefixes, documents, aliases,
dependencies, owner modules and orders that the run does not enumerate. The arguments the code leaves implicit
are that a part that depends on itself stays unready or is met again while it is
being visited (`NoneReady`, `VisitingCycle`), and conversely that waves and an order
leave no such part (`WavesAcyclic`, `OrderedAcyclic`); that the pending loop ends with
the least closed set whatever it takes first (`ExpansionExact`); and that of the
bundle's own conditions only three can still fail: that nothing of the proof base is an
anchor of the closure, that the proof base is imported and in order, and that the roots
have different documents (`BundleDecides`).

`MerkleBinding` is about trees of every height. Two trees with one root agree level by
level from the root down (`TreesAgree`): a level whose digests are distinct is
determined by the one above (`NextInjective`; a last digest that is repeated cannot be
taken for two), and leaves are not nodes, so neither tree is the taller (`NotTaller`).
Distinct they are because the index is in the leaf. A changed side cannot help: the
sibling and the folded digest would have to be equal (`FoldBinds`). The levels are a
recursive function; that it exists, and what holds of each level, is by induction,
which the library's theorems state with an operator parameter that the provers
cannot instantiate. Here the statement is made a set of naturals instead, and the
least number outside it leads to a contradiction (`LeastNat`, `EveryNat`).

### Assumptions on constants

All are named, in the module that declares the constants, and TLC evaluates them:
bounds are natural numbers and flags Boolean; a span is a nonempty interval
(`SpanAssumption`, `MediationAssumption`: the constructors of the tokens check it);
there is an epoch after the first (`EpochAssumption`);
the "none" values are not values (`MediationAssumption`, `StreamAssumption`,
`ProofCase`'s `ThreadAssumption`); a slot has at least one generation
(`HandleAssumption`); edges and routes of a plan are sequences of its nodes, start
and end are not nodes (`PlanAssumption`: the plan's constructor); interrupting
nodes are nodes of the line and an edit is not mistaken for a node
(`DurableThread`'s `ThreadAssumption`: a matter of the encoding); the file
system has more inodes than there are workers, and two (`CkptAssumption`,
`StoreAssumption`: opening a file succeeds).

### Only model-checked

- Liveness, which needs fairness: StagedFlushed and CallsReturn.
  `ENABLED` and leads-to under fairness are beyond the provers.
- That model and code correspond: the proofs are about the modules.

## 5. What is not modelled, and the plan

Not modelled and not planned: formatting, hashing as such, cryptographic
verification of attestations (flags that the journal stores), manifest parsing,
emission of Lean and C text, projections of Scheme rows into records, adapters for
other frameworks, Cedar's evaluation of policies, packaging and build automation,
the Gerbil modules whose operations only compute values. The texts that AXLE and
Lean see are versions of files; what AXLE answers is nondeterministic.

Planned, in this order:

1. A composition of checkpoint/restore (`HandleTable`) with the evidence state
   (`Mediation`): what a restored session must be told before it mediates.
2. The WebAssembly worker protocol and the workflow cursor.
3. Replay and temporal causality of the Gerbil core as pure algorithms.
4. Two workers on one durable thread, with a statement of what still holds.

Theorems planned: what still holds of a durable thread with two workers.
