----------------------------- MODULE ActionTrace -----------------------------
(***************************************************************************)
(* The reference transition over agent actions and the verification of     *)
(* evidence content (ai_security_executable_refinement.py).  Agents        *)
(* propose actions that name the accepted action they follow; the host,    *)
(* which is outside the repository, submits them with the policy it has by *)
(* then, in any order and more than once, and replays what it recorded.    *)
(* A digest is the record it is taken of.  Effects are a set, and whether  *)
(* they came in their one canonical order.                                 *)
(***************************************************************************)
EXTENDS Naturals, Sequences, FiniteSets, FiniteSetsExt

CONSTANTS
    MaxProposals,  \* envelopes prepared
    MaxReceipts    \* receipts recorded

VARIABLES
    proposals,  \* Scheme projections prepared so far; none is ever withdrawn
    granted,    \* capabilities the host grants at the moment
    trace,      \* receipts recorded, with the envelope and the policy of each
    replay,     \* how the last replay ended, of what and under which policy
    evidence    \* the last verification of an artifact, and of its replay

acting == <<proposals, granted, trace, replay, evidence>>

Absent == << >>
Null == "null"
Capability == {"repo-write", "repo-read"}

(* str() makes text of whatever the projection holds.                      *)
Str(value) == IF value = Null THEN "None" ELSE value

(* Where the trace holds an accepted receipt.                              *)
Accepted(t) == {i \in DOMAIN t : t[i].receipt.decision = "accepted"}

(* What an action that follows the last accepted one names; external.      *)
HeadOf(t) ==
    IF Accepted(t) = {} THEN [parent |-> Absent, root |-> Absent]
    ELSE LET last == t[Max(Accepted(t))]
         IN  [parent |-> <<last.envelope.action>>, root |-> <<last.receipt.trace_root>>]

(* One well formed projection after head, and what else may be sent under  *)
(* the second action's name: keys missing or added, a null capability,     *)
(* effects out of order, half a parent, another tool or domain, an effect  *)
(* it does not allow itself.                                               *)
Projection(action, head) ==
    [exact |-> TRUE, canonical |-> TRUE, action |-> action, tool |-> "patch", capability |-> "repo-write",
     domain |-> "workspace", requested |-> {"update"}, allowed |-> {"create", "update"},
     parent |-> head.parent, root |-> head.root]
Projections(action, head) ==
    LET p == Projection(action, head)
    IN  IF action = 1 THEN {p} ELSE
        {p, [p EXCEPT !.exact = FALSE], [p EXCEPT !.canonical = FALSE], [p EXCEPT !.capability = Null],
         [p EXCEPT !.tool = "spoofed"], [p EXCEPT !.domain = "network"],
         [p EXCEPT !.requested = {"egress"}], [p EXCEPT !.root = Absent]}

TracingInit ==
    /\ proposals = {} /\ granted = Capability /\ trace = << >>
    /\ replay = [of |-> 0, policy |-> Absent, drifted |-> FALSE, ended |-> "none"]
    /\ evidence = [ended |-> "none"]

propose(action) ==
    /\ Cardinality(proposals) < MaxProposals
    /\ \E p \in Projections(action, HeadOf(trace)) :
           p \notin proposals /\ proposals' = proposals \cup {p}
    /\ UNCHANGED <<granted, trace, replay, evidence>>

change_grants(capabilities) ==
    /\ capabilities # granted
    /\ granted' = capabilities
    /\ UNCHANGED <<proposals, trace, replay, evidence>>

(* validate: what every use of an envelope requires.                       *)
envelope_valid(e) == e.canonical /\ (e.parent = Absent) = (e.root = Absent)

(* envelope_from_scheme_projection: Absent when it raises.                   *)
envelope_from_scheme_projection(p) ==
    LET e == [p EXCEPT !.capability = Str(@)]
    IN  IF p.exact /\ envelope_valid(e) THEN <<e>> ELSE Absent

(* envelope_digest: taken of the canonical record, which has every field.  *)
envelope_digest(e) == e

policy_valid(policy) == (policy.parent = Absent) = (policy.root = Absent)

Policy(head) ==
    [granted |-> granted, tool |-> "patch", domains |-> {"workspace"}, parent |-> head.parent, root |-> head.root]

(* Fault: the parent action alone decides about continuity. *)
causal_continuity_by_action(e, policy) == e.parent = policy.parent

causal_continuity(e, policy) == e.parent = policy.parent /\ e.root = policy.root

(* execute_reference_transition: a pure function of the two.  The receipt  *)
(* does not name the policy.                                               *)
execute_reference_transition(e, policy) ==
    LET checks   == <<e.capability \in policy.granted,
                      e.tool = policy.tool,
                      e.domain \in policy.domains /\ e.requested \subseteq e.allowed,
                      causal_continuity(e, policy)>>
        decision == IF \A i \in DOMAIN checks : checks[i] THEN "accepted" ELSE "fail-closed"
        output   == [decision |-> decision, invariants |-> checks]
    IN  [envelope_digest |-> envelope_digest(e), decision |-> decision, invariants |-> checks, output_digest |-> output,
         trace_root |-> [envelope |-> envelope_digest(e), output |-> output, parent |-> e.root]]

submit(p) ==
    /\ p \in proposals /\ Len(trace) < MaxReceipts
    /\ LET envelope == envelope_from_scheme_projection(p)
           policy   == Policy(HeadOf(trace))
       IN  /\ envelope # Absent /\ policy_valid(policy)
           /\ trace' = Append(trace, [envelope |-> envelope[1], policy |-> policy,
                                      receipt |-> execute_reference_transition(envelope[1], policy)])
    /\ UNCHANGED <<proposals, granted, replay, evidence>>

(* A recorded receipt as it was, or with another root.                     *)
Kept(receipt, drifted) == IF drifted THEN [receipt EXCEPT !.trace_root.envelope.action = 0] ELSE receipt

(* replay_reference_transition: under the recorded policy, or the recorded *)
(* one with the grants of today.                                           *)
replay_reference_transition(i, today, drifted) ==
    LET recorded == trace[i].policy
        policy   == IF today THEN [recorded EXCEPT !.granted = granted] ELSE recorded
        replayed == execute_reference_transition(trace[i].envelope, policy)
    IN  /\ replay.of = 0
        /\ replay' = [of |-> i, policy |-> policy, drifted |-> drifted,
                      ended |-> IF replayed = Kept(trace[i].receipt, drifted) THEN "replayed" ELSE "raised"]
        /\ UNCHANGED <<proposals, granted, trace, evidence>>

-----------------------------------------------------------------------------
(* EvidenceContentVerifier.  The three authorities are callbacks and may   *)
(* raise; the decoded payload is given beside the bytes and is not decoded *)
(* from them.                                                              *)

Artifact == {1, 2}
EvidenceRequests ==
    [artifact : Artifact, expected : Artifact, schema : {"known", "other", "unknown"},
     issuer : {Absent, <<1>>, <<2>>}, proof : {Absent, <<1>>}]

Stage(provided, ok) == IF ~provided THEN "not-provided" ELSE IF ok THEN "verified" ELSE "failed"

(* up: the authorities that answer.  A replayer is registered for "known"  *)
(* and "other" payloads carry another schema than the expected one.        *)
verify(r, up) ==
    LET stages == <<Stage(TRUE, r.artifact = r.expected),
                    Stage(TRUE, r.schema = "known" /\ "replayer" \in up),
                    Stage(r.issuer # Absent, r.issuer = <<r.artifact>> /\ "issuer" \in up),
                    Stage(r.proof # Absent, r.proof = <<r.artifact>> /\ "log" \in up)>>
    IN  [artifact_digest |-> r.artifact, stages |-> stages,
         decision |-> IF \A i \in DOMAIN stages : stages[i] = "verified" THEN "verified" ELSE "fail-closed"]

verify_evidence(r, up) ==
    /\ evidence.ended = "none"
    /\ evidence' = [ended |-> "receipt", request |-> r, up |-> up, again |-> {}, receipt |-> verify(r, up)]
    /\ UNCHANGED <<proposals, granted, trace, replay>>

replay_evidence(up) ==
    /\ evidence.ended = "receipt"
    /\ evidence' = [evidence EXCEPT !.again = up,
                     !.ended = IF verify(evidence.request, up) = evidence.receipt THEN "replayed" ELSE "raised"]
    /\ UNCHANGED <<proposals, granted, trace, replay>>

(* Evidence is verified apart from the trace.  A replay changes nothing    *)
(* the host keeps and comes last; it is of the last receipt, as every one  *)
(* recorded once was.                                                      *)
TracingNext ==
    \/ /\ evidence.ended = "none" /\ replay.of = 0
       /\ \/ \E a \in 1..2 : propose(a)
          \/ \E g \in {Capability, {"repo-read"}} : change_grants(g)
          \/ \E p \in proposals : submit(p)
          \/ \E t, d \in BOOLEAN : trace # << >> /\ replay_reference_transition(Len(trace), t, d)
    \/ /\ proposals = {} /\ granted = Capability
       /\ \/ \E r \in EvidenceRequests, up \in SUBSET {"replayer", "issuer", "log"} : verify_evidence(r, up)
          \/ \E up \in SUBSET {"replayer", "issuer", "log"} : replay_evidence(up)

TracingSpec == TracingInit /\ [][TracingNext]_acting

-----------------------------------------------------------------------------
(* Properties. *)

(* However late or often proposals are submitted, the accepted receipts    *)
(* are one chain, each following the receipt accepted before it.  A replay *)
(* never accepts a receipt that drifted, and of an accepted one under the  *)
(* grants of today it succeeds exactly as long as the capability is still  *)
(* granted; a receipt that failed closed never becomes an accepted one.    *)
(* Evidence is verified only when the artifact is the expected one and     *)
(* issuer and log vouch for these bytes; an authority that did not answer  *)
(* is never counted for, and a replay differs only if an authority that    *)
(* answered one time did not the other.                                    *)
TraceSound ==
    /\ \A i \in Accepted(trace) :
           LET e      == trace[i].envelope
               before == {j \in Accepted(trace) : j < i}
           IN  /\ e.requested \subseteq e.allowed
               /\ before = {} => e.parent = Absent
               /\ \A j \in before :
                      (\A k \in before : k <= j) =>
                          e.parent = <<trace[j].envelope.action>> /\ e.root = <<trace[j].receipt.trace_root>>
    /\ replay.of # 0 =>
           LET r == trace[replay.of]
           IN  /\ replay.drifted => replay.ended = "raised"
               /\ r.receipt.decision = "accepted" /\ ~replay.drifted =>
                      (replay.ended = "replayed" <=> r.envelope.capability \in replay.policy.granted)
    /\ evidence.ended # "none" =>
           LET q == evidence.request
           IN  /\ evidence.receipt.decision = "verified" =>
                      /\ q.artifact = q.expected /\ q.issuer = <<q.artifact>> /\ q.proof = <<q.artifact>>
                      /\ evidence.up = {"replayer", "issuer", "log"}
               /\ evidence.ended = "raised" => evidence.up # evidence.again
               /\ evidence.ended = "replayed" /\ evidence.receipt.decision = "verified" =>
                      evidence.again = evidence.up

=============================================================================
