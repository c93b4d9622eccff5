---------------------------- MODULE ReceiptAudit ----------------------------
(***************************************************************************)
(* Receipts from the Lean sources to an accepted audit: the AXLE receipt   *)
(* authority (axle_receipt_authority.py, receipt_acceptance_authority.py)  *)
(* verifies the sources again for every receipt it is given, and the audit *)
(* codec (proof_base_receipt_graph_audit.py) has it do so for every node   *)
(* it decodes.  Node 1 supplies what node 2, the terminal, assumes; the    *)
(* sources may be edited at any time.  A receipt artifact is the request   *)
(* and the versions of the modules it was made from: the digests and the   *)
(* interface in it are functions of those.                                 *)
(***************************************************************************)
EXTENDS ReceiptGraph

CONSTANT MaxChanges

VARIABLES
    lean_sources,  \* the version of each node's module
    changes,       \* edits so far
    theorem,       \* is the root of each node a theorem?
    imports,       \* proof-base imports of each request, in its order
    declared,      \* the artifact last declared for a node, if any
    node,          \* accepted nodes: identity, receipt, assumed interface
    audit,         \* the encoded audit, once there is one
    decoded,       \* how many nodes the decoder has parsed
    outcome_of,    \* "none", "decoding", or how decoding ended
    reverified,    \* ghost: what the authority derived for each node decoded
    calm           \* ghost: no edit since decoding began

auditing == <<verifying, lean_sources, changes, theorem, imports, declared, node, audit,
              decoded, outcome_of, reverified, calm>>

Ids == {1, 2}
Uses(n) == 1..n
None == << >>

NoGraph == [nodes |-> << >>, edges |-> {}, terminal |-> 2, roots |-> << >>,
            provides |-> << >>, assumes |-> << >>]

(* A graph that somebody else constructed is verified as it is.            *)
AuditInit(g) ==
    /\ VerifyInit(g) /\ caller = (IF g = NoGraph THEN "audit" ELSE "direct")
    /\ lean_sources = [n \in Ids |-> 0] /\ changes = 0
    /\ theorem \in {[n \in Ids |-> TRUE], [n \in Ids |-> n = 1]}
    /\ imports \in {<<<< >>, o>> : o \in {<<1, 2>>, <<2, 1>>}}
    /\ declared = [n \in Ids |-> None] /\ node = [n \in Ids |-> None]
    /\ audit = None /\ decoded = 0 /\ outcome_of = "none"
    /\ reverified = [n \in Ids |-> None] /\ calm = TRUE

EditLean(m) ==
    /\ changes < MaxChanges
    /\ changes' = changes + 1
    /\ lean_sources' = [lean_sources EXCEPT ![m] = 1 - @]
    /\ calm' = FALSE
    /\ UNCHANGED <<verifying, theorem, imports, declared, node, audit, decoded, outcome_of, reverified>>

(* run_axle_closure_verify, as the authority calls it.  A proof-base       *)
(* import puts the imported interface into the composed source.            *)
reverify(n) ==
    [request |-> [root |-> n, imports |-> imports[n]], theorem |-> theorem[n],
     versions |-> [m \in Uses(n) |-> lean_sources[m]]]

SortedImports(seq) == SortSeq(seq, LAMBDA a, b : a < b)

(* parse_axle_closure_artifact_v1.  Its parts have one exact shape each:   *)
(* the obligation of a root that is no theorem lacks two of the keys.  The *)
(* closure has the imports in the order of the request, the independent    *)
(* bundle has them sorted, and they must be equal.  Status, roots, root    *)
(* module and digests agree in whatever a run wrote.                       *)
parse_axle_closure_artifact(artifact) ==
    artifact.theorem /\ artifact.request.imports = SortedImports(artifact.request.imports)

(* authority_identity_components: all that acceptance compares.            *)
identity(artifact) == <<artifact.request, artifact.versions>>

(* A run, its artifact declared as evidence in canonical bytes.            *)
declare_axle_closure_receipt(n) ==
    /\ audit = None /\ declared[n] = None /\ caller = "audit"
    /\ declared' = [declared EXCEPT ![n] = IF parse_axle_closure_artifact(reverify(n))
                                           THEN <<reverify(n)>> ELSE None]
    /\ declared' # declared
    /\ UNCHANGED <<verifying, lean_sources, changes, theorem, imports, node, audit,
                   decoded, outcome_of, reverified, calm>>

(* Fault: what the receipt claims is taken for what the owner derives. *)
validate_claimed(receipt) ==
    IF parse_axle_closure_artifact(receipt) THEN <<identity(receipt)>> ELSE None

(* AxleClosureReceiptAuthorityV1.validate: parse, run again, compare, and  *)
(* bind the acceptance to what the fresh run derived.                      *)
validate(receipt) ==
    LET fresh == reverify(receipt.request.root)
    IN  IF /\ parse_axle_closure_artifact(receipt) /\ parse_axle_closure_artifact(fresh)
           /\ identity(fresh) = identity(receipt)
        THEN <<identity(fresh)>> ELSE None

(* An accepted node; the consumer assumes the interface its supplier's     *)
(* node has by then.  A refused receipt is dropped.                        *)
accept_node(n) ==
    /\ caller = "audit" /\ audit = None /\ declared[n] # None
    /\ n = 2 => node[1] # None
    /\ declared' = [declared EXCEPT ![n] = None]
    /\ node' = [node EXCEPT ![n] =
           IF validate(declared[n][1]) = None THEN @
           ELSE [identity |-> validate(declared[n][1])[1], receipt |-> declared[n][1],
                 assumed |-> IF n = 2 THEN node[1].identity ELSE None]]
    /\ UNCHANGED <<verifying, lean_sources, changes, theorem, imports, audit,
                   decoded, outcome_of, reverified, calm>>

GraphOf(nodes) ==
    [nodes |-> <<1, 2>>, edges |-> {Edge(1, 2, 1)}, terminal |-> 2, roots |-> <<{1}, {2}>>,
     provides |-> [n \in Ids |-> nodes[n].identity],
     assumes |-> << << >>, <<nodes[2].assumed>> >>]

Verify(g, who) ==
    /\ graph' = g /\ caller' = who
    /\ verdict' = "nodes" /\ remaining' = g.edges /\ supplied' = {}
    /\ adjacency' = [n \in NodeIds(g) |-> {}] /\ indegree' = [n \in NodeIds(g) |-> 0]
    /\ ready' = {} /\ topological_order' = << >>
    /\ reaches_terminal' = {} /\ frontier' = {}

encode_audit ==
    /\ caller = "audit" /\ audit = None /\ \A n \in Ids : node[n] # None
    /\ Verify(GraphOf(node), "encode")
    /\ UNCHANGED <<lean_sources, changes, theorem, imports, declared, node, audit,
                   decoded, outcome_of, reverified, calm>>

(* The verified graph and its receipt in their one encoding.  What is      *)
(* stored may be other bytes for the same value, or carry the receipt of   *)
(* another graph.                                                          *)
audit_object(nodes, receipt, canonical) ==
    [nodes |-> nodes, receipt |-> receipt, canonical |-> canonical]

encoded ==
    /\ caller = "encode" /\ verdict = "verified"
    /\ \E canonical \in BOOLEAN, other \in BOOLEAN :
           audit' = audit_object(node,
               IF other THEN [VerifiedReceipt EXCEPT !.edge_count = 0] ELSE VerifiedReceipt, canonical)
    /\ caller' = "audit"
    /\ UNCHANGED <<graph, verdict, remaining, supplied, adjacency, indegree, ready, topological_order,
                   reaches_terminal, frontier, lean_sources, changes, theorem, imports, declared,
                   node, decoded, outcome_of, reverified, calm>>

(* verify raised: the nodes may be accepted again.                         *)
encode_raises ==
    /\ caller = "encode" /\ verdict \notin Stages \cup {"verified"}
    /\ caller' = "audit"
    /\ UNCHANGED <<graph, verdict, remaining, supplied, adjacency, indegree, ready, topological_order,
                   reaches_terminal, frontier, lean_sources, changes, theorem, imports, declared,
                   node, audit, decoded, outcome_of, reverified, calm>>

decode_audit ==
    /\ audit # None /\ outcome_of = "none"
    /\ outcome_of' = "decoding" /\ calm' = TRUE
    /\ UNCHANGED <<verifying, lean_sources, changes, theorem, imports, declared, node, audit,
                   decoded, reverified>>

(* _parse_node: the authority verifies the receipt again, and what it      *)
(* derives must be what the node says.  The run itself may fail.           *)
parse_node ==
    /\ outcome_of = "decoding" /\ decoded < Len(audit.nodes)
    /\ LET n       == decoded + 1
           derived == validate(audit.nodes[n].receipt)
       IN  \/ /\ derived # None /\ derived[1] = audit.nodes[n].identity
              /\ decoded' = n
              /\ reverified' = [reverified EXCEPT ![n] = identity(reverify(n))]
              /\ UNCHANGED outcome_of
           \/ /\ derived # None => derived[1] # audit.nodes[n].identity
              /\ outcome_of' = "authority-receipt-rejected"
              /\ UNCHANGED <<decoded, reverified>>
           \/ /\ outcome_of' = "axle-owner-reverification-failed"
              /\ UNCHANGED <<decoded, reverified>>
    /\ UNCHANGED <<verifying, lean_sources, changes, theorem, imports, declared, node, audit, calm>>

decode_graph ==
    /\ outcome_of = "decoding" /\ decoded = Len(audit.nodes) /\ caller = "audit"
    /\ Verify(GraphOf(audit.nodes), "decode")
    /\ UNCHANGED <<lean_sources, changes, theorem, imports, declared, node, audit,
                   decoded, outcome_of, reverified, calm>>

decode_ends ==
    /\ caller = "decode" /\ verdict \notin Stages /\ outcome_of = "decoding"
    /\ outcome_of' = IF verdict # "verified" THEN "invalid-audit-graph"
                     ELSE IF audit.receipt # VerifiedReceipt THEN "verified-receipt-mismatch"
                     ELSE IF ~audit.canonical THEN "noncanonical-audit-bytes" ELSE "accepted"
    /\ UNCHANGED <<verifying, lean_sources, changes, theorem, imports, declared, node, audit,
                   decoded, reverified, calm>>

AuditNext ==
    \/ caller # "direct" /\ \E n \in Ids : EditLean(n) \/ declare_axle_closure_receipt(n) \/ accept_node(n)
    \/ encode_audit \/ encoded \/ encode_raises \/ decode_audit \/ parse_node \/ decode_graph \/ decode_ends
    \/ /\ caller # "audit" /\ VerifyNext
       /\ UNCHANGED <<lean_sources, changes, theorem, imports, declared, node, audit,
                      decoded, outcome_of, reverified, calm>>

AuditSpec(g) == AuditInit(g) /\ [][AuditNext]_auditing

-----------------------------------------------------------------------------
(* Properties. *)

(* Only the canonical bytes of an audit are accepted, and only when every  *)
(* node was derived again while it was decoded and found to be what it     *)
(* says.  As long as no edit falls between two of those runs the nodes     *)
(* are of one version: the consumer was verified against the very          *)
(* interface its supplier provides.  And an audit of unchanged sources is  *)
(* refused only when a run fails or its bytes are not canonical.           *)
AuditBinds ==
    /\ outcome_of = "accepted" =>
           /\ audit.canonical /\ Composes(graph)
           /\ \A n \in Ids : audit.nodes[n].identity = reverified[n]
           /\ calm => /\ \A n \in Ids : audit.nodes[n].identity = identity(reverify(n))
                      /\ audit.nodes[2].assumed[2][1] = audit.nodes[2].identity[2][1]
    /\ outcome_of = "authority-receipt-rejected" =>
           ~calm \/ \E n \in Ids : audit.nodes[n].identity # identity(reverify(n))
    /\ outcome_of = "verified-receipt-mismatch" => audit.receipt.edge_count = 0
    /\ outcome_of = "invalid-audit-graph" => FALSE

=============================================================================
