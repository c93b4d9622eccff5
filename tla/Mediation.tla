----------------------------- MODULE Mediation -----------------------------
(***************************************************************************)
(* Mediated execution: the C kernels of one durable session (runtime_v0.c), *)
(* driven by their hosts through the Python binding, and the evidence      *)
(* journal they share.  A mediation is one synchronous C call, but each of *)
(* its callbacks commits a transaction of its own: a crash, or another     *)
(* process on the same journal, may come between any two of them, so the   *)
(* call is cut at the callbacks.  Everything a kernel knows is volatile.   *)
(***************************************************************************)
EXTENDS Integers, Sequences, FiniteSets

CONSTANTS
    Kernel,          \* processes that open the session
    Nonce, SemanticRoot, Span, CommittedRoot, ZeroRoot,
    NoRoot,          \* semantic_root_bound = 0
    MaxStaged,       \* MAX_STAGED_LEAVES
    MaxNonces,       \* MAX_CONSUMED_NONCES
    MaxLosses,       \* bound on sessions cancelled, closed while open, or crashed
    HostReconciles,  \* hosts reconcile a fresh session before they use it
    SinkFails        \* a journal transaction may fail by itself (I/O)

ASSUME MediationAssumption ==
    /\ Span \subseteq {s \in Nat \X Nat : 1 <= s[1] /\ s[1] <= s[2]}
    /\ NoRoot \notin SemanticRoot
    /\ MaxStaged \in Nat /\ MaxNonces \in Nat /\ MaxLosses \in Nat
    /\ HostReconciles \in BOOLEAN /\ SinkFails \in BOOLEAN

VARIABLES
    reservations, evidence, leaves, batches, head,  \* the journal
    kernel,     \* per process: the session resource
    call,       \* per process: how far the synchronous C call has come
    effects,    \* ghost: how often the adapter was started for a nonce
    reports,    \* ghost: the results hosts were given
    losses      \* sessions cancelled, closed while open, or crashed so far

J == INSTANCE EvidenceJournal

journal == <<reservations, evidence, leaves, batches, head>>
vars == <<journal, kernel, call, effects, reports, losses>>

Absent == [state |-> "absent"]
Idle == [pc |-> "idle"]

Live(k) == kernel[k].state # "absent"

(* Digests of the leaves a kernel holds, in the order it staged them.      *)
KernelDigests(k) == [i \in DOMAIN kernel[k].staged |-> kernel[k].staged[i].digest]

-----------------------------------------------------------------------------
(* Opening and recovering a session. *)

(* poo_flow_runtime_v0_session_open: the resource is zero initialised.     *)
FreshSession ==
    [state |-> "open", root |-> ZeroRoot, seq |-> 0, nonces |-> {},
     semantic |-> NoRoot, staged |-> <<>>]

session_open(k) ==
    /\ kernel[k] = Absent
    /\ kernel' = [kernel EXCEPT ![k] = FreshSession]
    /\ UNCHANGED <<journal, call, effects, reports, losses>>

(* The descriptor checks of session_reconcile_evidence.                    *)
well_formed(r) ==
    /\ Cardinality(r.nonces) <= MaxNonces
    /\ Len(r.staged) <= MaxStaged
    /\ Len(r.staged) <= Cardinality(r.nonces)
    /\ Cardinality(r.nonces) = r.seq
    /\ \A i \in DOMAIN r.staged :
           /\ r.staged[i].seq \in 1..r.seq
           /\ i > 1 => r.staged[i - 1].seq < r.staged[i].seq

Restored(k, r, staged) ==
    kernel' = [kernel EXCEPT ![k] =
        [state |-> "open", root |-> r.root, seq |-> r.seq,
         nonces |-> r.nonces, semantic |-> r.semantic, staged |-> staged]]

(* Fault: the staged leaves are not restored. *)
session_reconcile_unstaged(k) ==
    /\ call[k] = Idle
    /\ kernel[k] = FreshSession
    /\ DOMAIN reservations # {}
    /\ J!CanReconcile
    /\ Restored(k, J!reconciliation, <<>>)
    /\ UNCHANGED <<journal, call, effects, reports, losses>>

(* The host reads reconciliation() and hands it to its fresh session.      *)
(* runtime_sequence belongs to the event lane and is left out.             *)
session_reconcile_evidence(k) ==
    /\ call[k] = Idle
    /\ kernel[k] = FreshSession
    /\ DOMAIN reservations # {}
    /\ J!CanReconcile
    /\ LET r == J!reconciliation
       IN  /\ well_formed(r)
           /\ Restored(k, r, r.staged)
    /\ UNCHANGED <<journal, call, effects, reports, losses>>

-----------------------------------------------------------------------------
(* strict_mediate, from the request to the result. *)

HostReady(k) == HostReconciles => (kernel[k].seq > 0 \/ DOMAIN reservations = {})

(* Fault: one leaf more than the kernel has room for. *)
token_accepted_one_more(k, nonce, semantic, durability) ==
    /\ durability = "batched" => Len(kernel[k].staged) <= MaxStaged
    /\ kernel[k].semantic \in {NoRoot, semantic}
    /\ nonce \notin kernel[k].nonces
    /\ Cardinality(kernel[k].nonces) < MaxNonces

(* The kernel's own refusals: each returns before anything is written.     *)
token_accepted(k, nonce, semantic, durability) ==
    /\ durability = "batched" => Len(kernel[k].staged) < MaxStaged
    /\ kernel[k].semantic \in {NoRoot, semantic}
    /\ nonce \notin kernel[k].nonces
    /\ Cardinality(kernel[k].nonces) < MaxNonces

(* Up to the durable reservation and the consumed nonce.  The session's    *)
(* state is not consulted: a lease taken earlier can still be mediated.    *)
strict_mediate(k) ==
    /\ Live(k) /\ call[k] = Idle /\ HostReady(k)
    /\ \E nonce \in Nonce, span \in Span, semantic \in SemanticRoot,
          durability \in {"strict", "batched"} :
           /\ token_accepted(k, nonce, semantic, durability)
           /\ J!reserve(kernel[k].seq + 1,
                  [nonce |-> nonce, span |-> span, semantic |-> semantic,
                   before |-> kernel[k].root])
           /\ kernel' = [kernel EXCEPT ![k].nonces = @ \cup {nonce}, ![k].semantic = semantic]
           /\ call' = [call EXCEPT ![k] =
                  [pc |-> "reserved", nonce |-> nonce, span |-> span,
                   semantic |-> semantic, durability |-> durability]]
    /\ UNCHANGED <<effects, reports, losses>>

(* Any failure or malformed answer of the adapter leaves the outcome       *)
(* unknown; a success is only buffered when the request was batched.       *)
MediationOutcome(answer, durability) ==
    IF answer # "committed" THEN "indeterminate"
    ELSE IF durability = "batched" THEN "buffered" ELSE "committed"

adapter_execute(k) ==
    /\ call[k].pc = "reserved"
    /\ effects' = [effects EXCEPT ![call[k].nonce] = @ + 1]
    /\ \E answer \in {"committed", "indeterminate"} :
           call' = [call EXCEPT ![k] =
               [pc |-> "executed", nonce |-> call[k].nonce, span |-> call[k].span,
                semantic |-> call[k].semantic,
                outcome |-> MediationOutcome(answer, call[k].durability)]]
    /\ UNCHANGED <<journal, kernel, reports, losses>>

(* The sink's receipt.  committed_execution_root is the host's choice and  *)
(* counts only for a committed outcome.                                    *)
SinkReceipt(k, committed) ==
    [nonce |-> call[k].nonce, span |-> call[k].span, semantic |-> call[k].semantic,
     before |-> kernel[k].root, outcome |-> call[k].outcome,
     after |-> IF call[k].outcome = "committed" THEN committed ELSE kernel[k].root]

JournalAccepts(k, r) ==
    IF r.outcome = "buffered" THEN J!stage_accepts(kernel[k].seq + 1, r)
    ELSE J!append_accepts(kernel[k].seq + 1, r)

(* The digest the store answers with: a leaf's, or the receipt's own.      *)
EvidenceDigest(k, r) ==
    IF r.outcome = "buffered"
    THEN J!batched_evidence_leaf(kernel[k].seq + 1, J!staged_count, r)
    ELSE r

Answered(k, outcome, after, digest) ==
    call' = [call EXCEPT ![k] =
        [pc |-> "answered", nonce |-> call[k].nonce, outcome |-> outcome,
         after |-> after, digest |-> digest]]

finalize(k) ==
    /\ call[k].pc = "executed"
    /\ \E committed \in CommittedRoot :
           LET r == SinkReceipt(k, committed)
           IN  /\ IF r.outcome = "buffered" THEN J!stage_batched(kernel[k].seq + 1, r)
                  ELSE J!append(kernel[k].seq + 1, r)
               /\ Answered(k, r.outcome, r.after, EvidenceDigest(k, r))
    /\ UNCHANGED <<kernel, effects, reports, losses>>

(* Fault: the adapter's outcome is kept although nothing was recorded. *)
finalize_fails_unnoticed(k) ==
    /\ call[k].pc = "executed"
    /\ SinkFails
    /\ Answered(k, call[k].outcome, kernel[k].root, <<>>)
    /\ UNCHANGED <<journal, kernel, effects, reports, losses>>

(* The journal refuses the receipt, or the transaction fails and rolls     *)
(* back: the callback returns an error and the outcome is indeterminate.   *)
finalize_fails(k) ==
    /\ call[k].pc = "executed"
    /\ SinkFails \/ \E committed \in CommittedRoot : ~JournalAccepts(k, SinkReceipt(k, committed))
    /\ Answered(k, "indeterminate", kernel[k].root, <<>>)
    /\ UNCHANGED <<journal, kernel, effects, reports, losses>>

Returned(k, root, seq) ==
    LET c == call[k]
    IN  /\ kernel' = [kernel EXCEPT
               ![k].root = root,
               ![k].staged = IF c.outcome = "buffered"
                             THEN Append(@, [seq |-> seq, digest |-> c.digest]) ELSE @,
               ![k].seq = seq]
        /\ reports' = reports \cup
               {[kernel |-> k, seq |-> kernel[k].seq + 1, outcome |-> c.outcome]}
        /\ call' = [call EXCEPT ![k] = Idle]
        /\ UNCHANGED <<journal, effects, losses>>

(* Fault: an unknown outcome does not use up its sequence number. *)
mediate_returns_reusing(k) ==
    /\ call[k].pc = "answered"
    /\ Returned(k, call[k].after,
           IF call[k].outcome = "indeterminate" THEN kernel[k].seq ELSE kernel[k].seq + 1)

(* The root moves only for a committed outcome, the sequence always.       *)
mediate_returns(k) ==
    /\ call[k].pc = "answered"
    /\ Returned(k, IF call[k].outcome = "committed" THEN call[k].after ELSE kernel[k].root,
                kernel[k].seq + 1)

-----------------------------------------------------------------------------
(* batched_flush: here the session must be open.  The sink compares the    *)
(* before roots only after the store has committed the batch.              *)
batched_flush(k) ==
    /\ Live(k) /\ call[k] = Idle
    /\ kernel[k].state = "open"
    /\ kernel[k].staged # <<>>
    /\ J!flush_batched(KernelDigests(k))
    /\ call' = [call EXCEPT ![k] =
           IF head.root = kernel[k].root THEN [pc |-> "flushed", after |-> head'.root]
           ELSE [pc |-> "forked"]]
    /\ UNCHANGED <<kernel, effects, reports, losses>>

flush_returns(k) ==
    /\ call[k].pc \in {"flushed", "forked"}
    /\ IF call[k].pc = "flushed"
       THEN /\ kernel' = [kernel EXCEPT ![k].root = call[k].after, ![k].staged = <<>>]
            /\ reports' = reports \cup
                   {[kernel |-> k, seq |-> kernel[k].staged[i].seq,
                     outcome |-> "flushed"] : i \in DOMAIN kernel[k].staged}
       ELSE UNCHANGED <<kernel, reports>>
    /\ call' = [call EXCEPT ![k] = Idle]
    /\ UNCHANGED <<journal, effects, losses>>

-----------------------------------------------------------------------------
(* Ending a session. *)

session_cancel(k) ==
    /\ Live(k) /\ call[k] = Idle
    /\ kernel[k].state = "open"
    /\ losses < MaxLosses /\ losses' = losses + 1
    /\ kernel' = [kernel EXCEPT ![k].state = "cancelled"]
    /\ UNCHANGED <<journal, call, effects, reports>>

session_close(k) ==
    /\ Live(k) /\ call[k] = Idle
    /\ kernel[k].state # "closed"
    /\ IF kernel[k].state = "open"
       THEN losses < MaxLosses /\ losses' = losses + 1
       ELSE UNCHANGED losses
    /\ kernel' = [kernel EXCEPT ![k].state = "closed"]
    /\ UNCHANGED <<journal, call, effects, reports>>

session_release(k) ==
    /\ Live(k) /\ call[k] = Idle
    /\ kernel[k].state = "closed"
    /\ kernel' = [kernel EXCEPT ![k] = Absent]
    /\ UNCHANGED <<journal, call, effects, reports, losses>>

(* The process dies, in a call or not: what the kernel knew is gone, what  *)
(* the journal committed is not.                                           *)
crash(k) ==
    /\ Live(k)
    /\ losses < MaxLosses
    /\ losses' = losses + 1
    /\ kernel' = [kernel EXCEPT ![k] = Absent]
    /\ call' = [call EXCEPT ![k] = Idle]
    /\ UNCHANGED <<journal, effects, reports>>

-----------------------------------------------------------------------------
Init ==
    /\ J!Init
    /\ kernel = [k \in Kernel |-> Absent]
    /\ call = [k \in Kernel |-> Idle]
    /\ effects = [n \in Nonce |-> 0]
    /\ reports = {}
    /\ losses = 0

Step(k) ==
    \/ session_open(k) \/ session_reconcile_evidence(k)
    \/ strict_mediate(k) \/ adapter_execute(k)
    \/ finalize(k) \/ finalize_fails(k) \/ mediate_returns(k)
    \/ batched_flush(k) \/ flush_returns(k)
    \/ session_cancel(k) \/ session_close(k) \/ session_release(k) \/ crash(k)

Next == \E k \in Kernel : Step(k)

Spec == Init /\ [][Next]_vars

(* The host that keeps its session going: a call it started comes back, a  *)
(* lost session is closed, opened again and reconciled, and what is staged *)
(* is flushed.  No mediation and no failure is owed.                       *)
Recovery(k) ==
    /\ WF_vars(adapter_execute(k))
    /\ WF_vars(finalize(k) \/ finalize_fails(k))
    /\ WF_vars(mediate_returns(k) \/ flush_returns(k))
    /\ WF_vars(kernel[k].state = "cancelled" /\ session_close(k))
    /\ WF_vars(session_release(k) \/ session_open(k) \/ session_reconcile_evidence(k))
    /\ WF_vars(batched_flush(k))

FairSpec == Spec /\ \A k \in Kernel : Recovery(k)

-----------------------------------------------------------------------------
(* Properties. *)

Pc == {"idle", "reserved", "executed", "answered", "flushed", "forked"}

(* Kernels, calls and ghosts keep their shape; the journal has its own.    *)
TypeOK ==
    /\ J!TypeOK
    /\ \A k \in Kernel :
           /\ call[k].pc \in Pc
           /\ Live(k) =>
                  /\ kernel[k].state \in {"open", "cancelled", "closed"}
                  /\ kernel[k].seq \in Nat
                  /\ kernel[k].nonces \subseteq Nonce
                  /\ kernel[k].semantic \in SemanticRoot \cup {NoRoot}
                  /\ Len(kernel[k].staged) <= MaxStaged
           /\ call[k] # Idle => Live(k)
    /\ \A n \in Nonce : effects[n] \in Nat
    /\ losses \in 0..MaxLosses

(* However many kernels use the journal, and wherever they are cut off,    *)
(* its three runs, its receipts, its root chain and its batches are intact. *)
JournalIntact ==
    J!LedgerOrder /\ J!ReceiptsBound /\ J!LeafOrder /\ J!RootChain /\ J!BatchRanges

(* The adapter is never started twice for a token, over any number of      *)
(* crashes, restarts, failed transactions and retries.                     *)
AtMostOnce == \A n \in Nonce : effects[n] <= 1

(* Between calls the volatile session and the durable journal tell the     *)
(* same story, so a reconciled kernel is the kernel that was lost: same    *)
(* root, position, consumed tokens and staged leaves.                      *)
KernelAgrees ==
    \A k \in Kernel :
        (Live(k) /\ call[k] = Idle /\ kernel[k].seq > 0) =>
            /\ kernel[k].root = J!reconciliation.root
            /\ kernel[k].seq = J!reconciliation.seq
            /\ kernel[k].nonces = J!reconciliation.nonces
            /\ kernel[k].semantic = J!reconciliation.semantic
            /\ kernel[k].staged = J!reconciliation.staged

(* The shape of sessions and tables, and the agreement that recovery needs. *)
SessionsAgree == TypeOK /\ KernelAgrees

(* Whatever was lost, a fresh kernel accepts what the journal hands it:    *)
(* one semantic root, one nonce per mediation, and no more leaves or       *)
(* nonces than the kernel has room for.                                    *)
Recoverable ==
    DOMAIN reservations # {} => J!CanReconcile /\ well_formed(J!reconciliation)

Successful(r) == r.outcome \in {"committed", "buffered"}

(* The sink compares the batch's before root with the kernel's only after  *)
(* the batch is durable; the comparison never fails, so a flush is never   *)
(* durable and yet refused.                                                *)
FlushNeverForks == \A k \in Kernel : call[k].pc # "forked"

(* A host that was told "committed" or "buffered" finds exactly that       *)
(* receipt in the journal, one told that a leaf was flushed finds it in a  *)
(* batch, and no two kernels are told that the same mediation succeeded.   *)
(* Nor is anyone told of a failure where a batch is durable.               *)
ReportsDurable ==
    /\ \A r \in reports :
           /\ Successful(r) =>
                  r.seq \in DOMAIN evidence /\ evidence[r.seq].outcome = r.outcome
           /\ r.outcome = "flushed" =>
                  r.seq \in DOMAIN leaves /\ leaves[r.seq].state = "flushed"
    /\ \A r, q \in reports : Successful(r) /\ Successful(q) /\ r.seq = q.seq => r = q
    /\ FlushNeverForks

(* The durable status of a mediation, as the abstract ledger names it.     *)
LedgerStatus(s) ==
    CASE reservations[s].state = "reserved" -> "reserved"
      [] reservations[s].state = "staged" -> "buffered"
      [] reservations[s].state = "finalized" ->
             IF evidence[s].outcome = "indeterminate" THEN "indeterminate" ELSE "committed"

Ledger == INSTANCE EffectLedger WITH
    log  <- [s \in DOMAIN reservations |->
                [nonce |-> reservations[s].nonce, status |-> LedgerStatus(s)]],
    runs <- effects

(* Kernels, crashes and journal together implement the effect ledger: one  *)
(* open token at a time, one execution and one outcome per token, settled  *)
(* in mediation order.                                                     *)
ImplementsLedger == Ledger!Spec

(* A durable leaf is eventually committed, whatever sessions are lost on   *)
(* the way.                                                                *)
StagedFlushed ==
    \A n \in Nonce :
        (\E s \in J!InState("staged") : reservations[s].nonce = n)
            ~> (\E s \in J!InState("finalized") : reservations[s].nonce = n)

(* With a journal whose transactions do not fail, finalize records the     *)
(* observation and its committed or indeterminate root.                    *)
FinalizeRecords ==
    \A k \in Kernel : call[k].pc = "answered" => kernel[k].seq + 1 \in DOMAIN evidence
=============================================================================
