---------------------------- MODULE ChangeImpact ----------------------------
(***************************************************************************)
(* The typed relation graph of an embodied-AI security case and what a     *)
(* change of its architecture puts in question                             *)
(* (embodied_ai_security_relation_graph.py and the graph its replay uses). *)
(***************************************************************************)
EXTENDS Naturals, Sequences, SequencesExt

VARIABLES
    relation_graph,  \* the graph given: nodes and relations, in order
    changed,         \* changed node ids
    affected,
    to_visit,        \* the frontier: its end is taken, here any of it
    impact           \* "projecting", the receipt, or "raised"

impacting == <<relation_graph, changed, affected, to_visit, impact>>

ALLOWED_RELATION_KINDS ==
    [OWNS |-> <<"component", "asset">>, EXPOSED_TO |-> <<"asset", "threat">>,
     REALIZES |-> <<"threat", "risk">>, DERIVES |-> <<"risk", "requirement">>,
     IMPLEMENTED_BY |-> <<"requirement", "control">>, VERIFIED_BY |-> <<"control", "evidence">>,
     LEAVES |-> <<"risk", "residual">>, ACCEPTED_BY |-> <<"residual", "acceptance">>,
     OBSERVED_BY |-> <<"component", "feedback">>]

ArchitectureNode(id, kind) == [node_id |-> id, kind |-> kind]
ArchitectureRelation(id, kind, source, target) ==
    [relation_id |-> id, kind |-> kind, source_id |-> source, target_id |-> target,
     forward |-> TRUE, evidence_requirements |-> {"typed-owner", "receipt-root"}]

(* canonical_graph: ten nodes, one of each kind, nine relations.           *)
canonical_graph ==
    LET kinds == <<"component", "asset", "threat", "risk", "requirement", "control", "evidence",
                   "residual", "acceptance", "feedback">>
        specs == <<<<"OWNS", 1, 2>>, <<"EXPOSED_TO", 2, 3>>, <<"REALIZES", 3, 4>>, <<"DERIVES", 4, 5>>,
                   <<"IMPLEMENTED_BY", 5, 6>>, <<"VERIFIED_BY", 6, 7>>, <<"LEAVES", 4, 8>>,
                   <<"ACCEPTED_BY", 8, 9>>, <<"OBSERVED_BY", 1, 10>>>>
    IN  [nodes |-> [n \in 1..10 |-> ArchitectureNode(n, kinds[n])],
         relations |-> [r \in 1..9 |-> ArchitectureRelation(r, specs[r][1], specs[r][2], specs[r][3])]]

NodeIdsOf(g) == {g.nodes[n].node_id : n \in DOMAIN g.nodes}

(* Of two nodes with one id the first counts.                              *)
KindOf(g, id) ==
    g.nodes[CHOOSE n \in DOMAIN g.nodes :
                g.nodes[n].node_id = id /\ \A q \in 1..(n - 1) : g.nodes[q].node_id # id].kind

relation_issues(g, r) ==
    LET relation == g.relations[r]
        ends     == <<relation.source_id, relation.target_id>>
    IN  \/ relation.relation_id = 0
        \/ \E q \in 1..(r - 1) : g.relations[q].relation_id = relation.relation_id
        \/ ~({ends[1], ends[2]} \subseteq NodeIdsOf(g))
        \/ ~relation.forward \/ relation.evidence_requirements = {}
        \/ /\ {ends[1], ends[2]} \subseteq NodeIdsOf(g)
           /\ <<KindOf(g, ends[1]), KindOf(g, ends[2])>> # ALLOWED_RELATION_KINDS[relation.kind]

validate_typed_relation_graph(g) ==
    /\ \A n \in DOMAIN g.nodes : /\ g.nodes[n].node_id # 0
                                 /\ \A q \in 1..(n - 1) : g.nodes[q].node_id # g.nodes[n].node_id
    /\ \A r \in DOMAIN g.relations : ~relation_issues(g, r)

outgoing(g, id) == {g.relations[r].target_id : r \in {q \in DOMAIN g.relations : g.relations[q].source_id = id}}

ImpactInit(graphs, changes) ==
    /\ relation_graph \in graphs /\ changed \in changes
    /\ affected = {} /\ to_visit = {} /\ impact = [ended |-> "called"]

(* project_change_impact: the graph, then the change set, then the walk.   *)
project_change_impact ==
    /\ impact.ended = "called"
    /\ IF /\ validate_typed_relation_graph(relation_graph)
          /\ changed # {} /\ changed \subseteq NodeIdsOf(relation_graph)
       THEN /\ affected' = changed /\ to_visit' = changed
            /\ impact' = [ended |-> "projecting"]
       ELSE impact' = [ended |-> "raised"] /\ UNCHANGED <<affected, to_visit>>
    /\ UNCHANGED <<relation_graph, changed>>

(* Fault: what is newly affected is not followed. *)
visit_node_once ==
    /\ impact.ended = "projecting"
    /\ \E n \in to_visit :
           /\ affected' = affected \cup outgoing(relation_graph, n)
           /\ to_visit' = to_visit \ {n}
    /\ UNCHANGED <<relation_graph, changed, impact>>

visit_node ==
    /\ impact.ended = "projecting"
    /\ \E n \in to_visit :
           /\ affected' = affected \cup outgoing(relation_graph, n)
           /\ to_visit' = (to_visit \ {n}) \cup (outgoing(relation_graph, n) \ affected)
    /\ UNCHANGED <<relation_graph, changed, impact>>

impact_receipt ==
    /\ impact.ended = "projecting" /\ to_visit = {}
    /\ LET OfKind(k) == {n \in affected : KindOf(relation_graph, n) = k}
       IN  impact' = [ended |-> "receipt", graph_digest |-> relation_graph, changed |-> changed,
                      invalidated_evidence |-> OfKind("evidence"),
                      invalidated_acceptance |-> OfKind("acceptance"), reopened |-> OfKind("control")]
    /\ UNCHANGED <<relation_graph, changed, affected, to_visit>>

ImpactNext == project_change_impact \/ visit_node \/ impact_receipt

ImpactSpec(graphs, changes) == ImpactInit(graphs, changes) /\ [][ImpactNext]_impacting

-----------------------------------------------------------------------------
(* Properties. *)

(* The canonical graph with some of its relations, in any order.           *)
CanonicalPart(g) ==
    /\ g.nodes = canonical_graph.nodes
    /\ ToSet(g.relations) \subseteq ToSet(canonical_graph.relations)
    /\ \A r, q \in DOMAIN g.relations : g.relations[r] = g.relations[q] => r = q

(* A receipt leaves nothing standing that rests on what changed: evidence  *)
(* for an affected control is invalidated and the control reopened, and so *)
(* is the acceptance of a residual risk behind an affected risk.  Nothing  *)
(* else is touched: whatever is affected has changed or follows from       *)
(* something affected, and evidence falls only with its control.  No part  *)
(* of the canonical graph is refused.                                      *)
ImpactExact ==
    /\ impact.ended = "receipt" =>
           LET rs == ToSet(relation_graph.relations)
           IN  /\ changed \subseteq affected
               /\ \A r \in rs : r.source_id \in affected => r.target_id \in affected
               /\ \A n \in affected \ changed : \E r \in rs : r.target_id = n /\ r.source_id \in affected
               /\ \A r \in rs : r.kind = "VERIFIED_BY" /\ r.source_id \in impact.reopened =>
                      r.target_id \in impact.invalidated_evidence
               /\ \A n \in impact.invalidated_evidence \ changed :
                      \E r \in rs : r.kind = "VERIFIED_BY" /\ r.target_id = n /\ r.source_id \in impact.reopened
               /\ \A r, q \in rs :
                      (/\ r.kind = "LEAVES" /\ q.kind = "ACCEPTED_BY" /\ r.target_id = q.source_id
                       /\ r.source_id \in affected) => q.target_id \in impact.invalidated_acceptance
    /\ impact.ended = "raised" =>
           \/ changed = {} \/ ~(changed \subseteq NodeIdsOf(relation_graph))
           \/ ~CanonicalPart(relation_graph)

=============================================================================
