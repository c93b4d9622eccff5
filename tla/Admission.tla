------------------------------ MODULE Admission ------------------------------
(***************************************************************************)
(* The three admission gates of the embodied-AI assurance case: authority  *)
(* declarations (embodied_ai_authority_declaration.py), constrained        *)
(* effects (embodied_ai_constrained_effect.py) and provider candidates     *)
(* (embodied_ai_provider_non_authority.py).  Each is a function of the     *)
(* receipts presented to it.  What those receipts are about goes on        *)
(* meanwhile: an authority revokes, effects are committed and compensated, *)
(* the fence of a transaction changes hands; that world is external.  Its  *)
(* valid receipts say what was so when they were taken; what an invalid    *)
(* one says is anything at all.                                            *)
(***************************************************************************)
EXTENDS Naturals, FiniteSets

CONSTANT MaxEpoch

ASSUME EpochAssumption == MaxEpoch \in Nat \ {0}

VARIABLES
    epoch,        \* of the world
    revoked_at,   \* when the authority's receipt ends early, if it does
    copy,         \* the requester's copy of that receipt: revocation and epoch taken
    declaration,  \* a declaration and what was decided
    effects,      \* of two transactions: "none", "committed", "compensated"
    fence,        \* who holds the fence of the first transaction
    fence_receipt,  \* whom a copied recovery receipt says it was, and whether that changed since
    effect,       \* an effect request and what was decided
    candidate     \* a provider candidate and what was decided

admission == <<epoch, revoked_at, copy, declaration, effects, fence, fence_receipt, effect, candidate>>

Never == MaxEpoch + 1
Missing == ""
ValidFrom == 1
ValidUntil == MaxEpoch - 1

-----------------------------------------------------------------------------
(* Authority declarations. *)

(* canonical_request, presented with the copy at the epoch of the world.   *)
DeclarationRequest ==
    [complete |-> TRUE, issuer_kind |-> "human", receipt_valid |-> TRUE, receipt_id |-> "receipt",
     issuer |-> "authority", candidate |-> "candidate", provider |-> "candidate",
     act |-> "execution", receipt_act |-> "execution", subject |-> 1, receipt_subject |-> 1,
     current_epoch |-> epoch, revoked_at |-> copy.revoked_at,
     delegation |-> TRUE, responsibility |-> TRUE,
     proposer |-> "proposer", approver |-> "authority", executor |-> "executor"]

(* replay_cases and their like: one thing wrong, or any three actors.      *)
DeclarationRequests ==
    LET v == DeclarationRequest
        people == {"authority", "proposer", "candidate", "provider", Missing}
    IN  {[v EXCEPT !.proposer = p, !.approver = a, !.executor = x, !.provider = r] :
            p \in people, a \in people, x \in people, r \in {"candidate", "provider"}}
        \cup {[v EXCEPT !.issuer_kind = k, !.issuer = i, !.approver = i] :
                 k \in {"human", "cedar", "lean", "ai-provider"}, i \in {"authority", "candidate", Missing}}
        \cup {[v EXCEPT !.complete = FALSE], [v EXCEPT !.receipt_valid = FALSE],
              [v EXCEPT !.receipt_id = Missing], [v EXCEPT !.receipt_act = "verification"],
              [v EXCEPT !.receipt_subject = 2], [v EXCEPT !.delegation = FALSE],
              [v EXCEPT !.responsibility = FALSE]}

actors_separate(r) ==
    LET actors == {r.proposer, r.approver, r.executor}
    IN  /\ Missing \notin actors /\ Cardinality(actors) = 3
        /\ r.approver = r.issuer /\ r.candidate \notin actors

receipt_in_force(r) ==
    ValidFrom <= r.current_epoch /\ r.current_epoch <= ValidUntil /\ ~(r.revoked_at <= r.current_epoch)

(* The order of the refusals only decides which reason is given.           *)
evaluate_authority_declaration_admission(r) ==
    /\ r.complete
    /\ r.issuer_kind = "human" /\ r.receipt_valid
    /\ r.receipt_id # Missing /\ r.issuer # Missing
    /\ r.issuer \notin {r.candidate, r.provider}
    /\ r.receipt_act = r.act /\ r.receipt_subject = r.subject
    /\ receipt_in_force(r)
    /\ r.delegation /\ r.responsibility
    /\ actors_separate(r)

declare(r) ==
    /\ declaration' = <<[request |-> r, admitted |-> evaluate_authority_declaration_admission(r),
                         revoked_at |-> revoked_at, copied |-> copy.taken]>>
    /\ UNCHANGED <<epoch, revoked_at, copy, effects, fence, fence_receipt, effect, candidate>>

advance_epoch ==
    /\ epoch < MaxEpoch /\ epoch' = epoch + 1
    /\ UNCHANGED <<revoked_at, copy, declaration, effects, fence, fence_receipt, effect, candidate>>

(* Effective at once or later.                                             *)
revoke(at) ==
    /\ revoked_at = Never /\ at >= epoch
    /\ revoked_at' = at
    /\ UNCHANGED <<epoch, copy, declaration, effects, fence, fence_receipt, effect, candidate>>

take_copy ==
    /\ copy' = [revoked_at |-> revoked_at, taken |-> epoch] /\ copy' # copy
    /\ UNCHANGED <<epoch, revoked_at, declaration, effects, fence, fence_receipt, effect, candidate>>

-----------------------------------------------------------------------------
(* Constrained effects: a motor command and an audit event, of which the   *)
(* first is requested. *)

Domain == {"motor", "audit"}
Transaction == {1, 2}
Reversibility == {"reversible", "compensable", "irreversible"}
Claimant == {"c1", "c2", Missing}

(* Receipts of everything done so far, in both transactions; and receipts  *)
(* that are not valid.                                                     *)
Receipt(p, valid) == [transaction |-> p[1], effect |-> p[2], valid |-> valid]
Receipts(done) == {Receipt(p, TRUE) : p \in {q \in Transaction \X Domain : effects[q[1]][q[2]] \in done}}
Invalid == {Receipt(p, FALSE) : p \in Transaction \X Domain}

(* The obligations are what the request declares of its effects.           *)
Obligations(how) ==
    <<[effect |-> "motor", reversibility |-> how["motor"]], [effect |-> "audit", reversibility |-> how["audit"]]>>
Compensable == [e \in Domain |-> "compensable"]

Recovery(t, claimant, phase) ==
    [transaction |-> t, claimant |-> claimant, fence_owner |-> fence_receipt.owner, phase |-> phase, valid |-> TRUE]

EffectRequest(outcome, how, recovery) ==
    [identified |-> TRUE, transaction |-> 1, subject |-> 1, effect |-> "motor", outcome |-> outcome,
     authorization |-> [authority |-> "authority", subject |-> 1, effect |-> "motor", valid |-> TRUE],
     declared |-> Obligations(how), observed |-> <<"motor", "audit">>,
     prior_commits |-> Receipts({"committed", "compensated"}),
     compensations |-> Receipts({"compensated"}), recovery |-> recovery]

(* Any outcome and obligations; with invalid receipts too, or with nothing *)
(* but these; any claim; and the replay's cases and their like.            *)
Own == Recovery(1, fence_receipt.owner, "compensated")
Plain ==
    {EffectRequest(o, h, Own) : o \in {"rolled-back", "recovered"}, h \in [Domain -> Reversibility]}
    \cup {EffectRequest(o, Compensable, Own) : o \in {"applied", "duplicate"}}
AlsoInvalid(q) == [q EXCEPT !.prior_commits = @ \cup Invalid, !.compensations = @ \cup Invalid]
OnlyInvalid(q) == [q EXCEPT !.prior_commits = Invalid, !.compensations = Invalid]
Claims ==
    {EffectRequest("recovered", Compensable, Recovery(t, c, p)) : t \in Transaction, c \in Claimant,
        p \in {"committed", "rolled-back", "compensated", "applying"}}
InvalidClaim(q, c) == [q EXCEPT !.recovery = [@ EXCEPT !.valid = FALSE, !.claimant = c, !.fence_owner = c]]
Cases(v) ==
    {[v EXCEPT !.identified = FALSE], [v EXCEPT !.authorization.valid = FALSE],
     [v EXCEPT !.authorization.subject = 2], [v EXCEPT !.authorization.effect = "audit"],
     [v EXCEPT !.authorization.authority = Missing],
     [v EXCEPT !.declared = <<@[1], @[2], [effect |-> "audit", reversibility |-> "reversible"]>>],
     [v EXCEPT !.observed = <<"motor", "audit", "audit">>],
     [v EXCEPT !.observed = <<"motor">>], [v EXCEPT !.observed = << >>],
     [v EXCEPT !.declared = <<@[1]>>],
     [v EXCEPT !.declared = <<@[2]>>, !.observed = <<"audit">>]}

EffectRequests ==
    LET v == EffectRequest("recovered", Compensable, Own)
    IN  Plain \cup {AlsoInvalid(q) : q \in Plain} \cup {OnlyInvalid(q) : q \in Plain}
        \cup Claims \cup {InvalidClaim(v, c) : c \in Claimant} \cup Cases(v)

has_valid_prior_commit(r) ==
    \E p \in r.prior_commits : p.valid /\ p.transaction = r.transaction /\ p.effect = r.effect

(* Fault: a compensation in any transaction will do. *)
has_valid_compensation_anywhere(r, e) == \E c \in r.compensations : c.valid /\ c.effect = e

has_valid_compensation(r, e) ==
    \E c \in r.compensations : c.valid /\ c.transaction = r.transaction /\ c.effect = e

(* Each effect declared once and observed once, and the same effects.      *)
domain_covered(r) ==
    /\ \A i, j \in DOMAIN r.declared : r.declared[i].effect = r.declared[j].effect => i = j
    /\ \A i, j \in DOMAIN r.observed : r.observed[i] = r.observed[j] => i = j
    /\ {r.declared[i].effect : i \in DOMAIN r.declared} = {r.observed[i] : i \in DOMAIN r.observed}
    /\ \E i \in DOMAIN r.declared : r.declared[i].effect = r.effect

evaluate_constrained_effect(r) ==
    /\ r.identified
    /\ r.authorization.valid /\ r.authorization.authority # Missing
    /\ r.authorization.subject = r.subject /\ r.authorization.effect = r.effect
    /\ domain_covered(r)
    /\ r.outcome = "duplicate" => has_valid_prior_commit(r)
    /\ r.outcome \in {"rolled-back", "recovered"} =>
           \A i \in DOMAIN r.declared :
               /\ r.declared[i].reversibility # "irreversible"
               /\ r.declared[i].reversibility = "compensable" => has_valid_compensation(r, r.declared[i].effect)
    /\ r.recovery.valid /\ r.recovery.transaction = r.transaction
    /\ r.recovery.claimant # Missing /\ r.recovery.claimant = r.recovery.fence_owner
    /\ r.recovery.phase \in {"committed", "rolled-back", "compensated"}

request_effect(r) ==
    /\ effect' = <<[request |-> r, admitted |-> evaluate_constrained_effect(r), effects |-> effects,
                    fence |-> fence, superseded |-> fence_receipt.superseded]>>
    /\ UNCHANGED <<epoch, revoked_at, copy, declaration, effects, fence, fence_receipt, candidate>>

commit_effect(t, e) ==
    /\ effects[t][e] = "none"
    /\ effects' = [effects EXCEPT ![t][e] = "committed"]
    /\ UNCHANGED <<epoch, revoked_at, copy, declaration, fence, fence_receipt, effect, candidate>>

compensate(t, e) ==
    /\ effects[t][e] = "committed"
    /\ effects' = [effects EXCEPT ![t][e] = "compensated"]
    /\ UNCHANGED <<epoch, revoked_at, copy, declaration, fence, fence_receipt, effect, candidate>>

claim_fence(c) ==
    /\ fence # c
    /\ fence' = c
    /\ fence_receipt' = [fence_receipt EXCEPT !.superseded = TRUE]
    /\ UNCHANGED <<epoch, revoked_at, copy, declaration, effects, effect, candidate>>

take_recovery ==
    /\ fence_receipt' = [owner |-> fence, superseded |-> FALSE] /\ fence_receipt' # fence_receipt
    /\ UNCHANGED <<epoch, revoked_at, copy, declaration, effects, fence, effect, candidate>>

-----------------------------------------------------------------------------
(* Provider candidates. *)

CandidateRequests ==
    [provenance : BOOLEAN, issuer_kind : {"human", "organization", "ai-provider"},
     issuer : {"authority", "candidate", Missing}, grants : SUBSET {"execution", "verification"},
     role : {"execution", "verification"}]

role_only_admission(r) == r.role \in r.grants

evaluate_provider_admission(r) ==
    r.provenance /\ r.issuer_kind # "ai-provider" /\ r.issuer # Missing /\ r.role \in r.grants

present_candidate(r) ==
    /\ candidate' = <<[request |-> r, admitted |-> evaluate_provider_admission(r),
                       role_only_would_admit |-> role_only_admission(r)]>>
    /\ UNCHANGED <<epoch, revoked_at, copy, declaration, effects, fence, fence_receipt, effect>>

-----------------------------------------------------------------------------
AdmissionInit ==
    /\ epoch = 0 /\ revoked_at = Never /\ copy = [revoked_at |-> Never, taken |-> 0]
    /\ declaration = << >> /\ effect = << >> /\ candidate = << >>
    /\ effects = [t \in Transaction |-> [e \in Domain |-> "none"]]
    /\ fence = Missing /\ fence_receipt = [owner |-> Missing, superseded |-> FALSE]

(* The gates share nothing and change nothing: a behaviour is about one of *)
(* them and ends with its decision.                                        *)
DeclarationNext ==
    /\ declaration = << >>
    /\ \/ advance_epoch \/ take_copy
       \/ \E at \in 0..MaxEpoch : revoke(at)
       \/ \E r \in DeclarationRequests : declare(r)

EffectNext ==
    /\ effect = << >>
    /\ \/ \E t \in Transaction, e \in Domain : commit_effect(t, e) \/ compensate(t, e)
       \/ take_recovery
       \/ \E c \in {"c1", "c2"} : claim_fence(c)
       \/ \E r \in EffectRequests : request_effect(r)

CandidateNext == candidate = << >> /\ \E r \in CandidateRequests : present_candidate(r)

AdmissionSpec == AdmissionInit /\ [][DeclarationNext \/ EffectNext \/ CandidateNext]_admission

-----------------------------------------------------------------------------
(* Properties. *)

(* An admitted declaration was made under an authority in force: a person  *)
(* who is neither candidate nor provider approved it, three people took    *)
(* part, and a revocation in effect by then is only missed by a copy that  *)
(* was taken before it was pronounced.  Once refused as revoked or expired *)
(* the same copy stays refused.  A duplicate is admitted only when the     *)
(* transaction itself committed the effect, a recovery only when it undid  *)
(* every observed effect, each declared once and none as irreversible,     *)
(* that is declared to need it, whatever invalid receipts are presented;   *)
(* and a claimant who does not hold the fence only by a valid receipt      *)
(* taken before it changed hands.  And no candidate is admitted by a       *)
(* provider, whatever roles it was given.                                  *)
AdmissionSound ==
    /\ declaration # << >> =>
           LET d == declaration[1]
               r == d.request
           IN  /\ d.admitted =>
                      /\ r.issuer_kind = "human" /\ Cardinality({r.proposer, r.executor, r.issuer}) = 3
                      /\ {r.candidate, r.provider} \cap {r.issuer} = {}
                      /\ r.candidate \notin {r.proposer, r.executor}
                      /\ d.revoked_at <= r.current_epoch => d.copied <= d.revoked_at
                      /\ r.revoked_at = d.revoked_at => r.current_epoch < d.revoked_at
               /\ ~receipt_in_force(r) /\ ValidFrom <= r.current_epoch =>
                      \A e \in r.current_epoch..MaxEpoch :
                          ~evaluate_authority_declaration_admission([r EXCEPT !.current_epoch = e])
    /\ effect # << >> /\ effect[1].admitted =>
           LET q == effect[1].request
               done == effect[1].effects[q.transaction]
           IN  /\ q.recovery.claimant = effect[1].fence \/ effect[1].superseded
               /\ q.outcome = "duplicate" => done[q.effect] # "none"
               /\ q.outcome \in {"rolled-back", "recovered"} =>
                      \A e \in {q.observed[i] : i \in DOMAIN q.observed} \cup {q.effect} :
                          /\ \E i \in DOMAIN q.declared : q.declared[i].effect = e
                          /\ \A i \in DOMAIN q.declared : q.declared[i].effect = e =>
                                 /\ q.declared[i].reversibility # "irreversible"
                                 /\ q.declared[i].reversibility = "compensable" => done[e] = "compensated"
    /\ candidate # << >> /\ candidate[1].admitted =>
           candidate[1].role_only_would_admit /\ candidate[1].request.issuer_kind # "ai-provider"

=============================================================================
