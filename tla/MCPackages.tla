----------------------------- MODULE MCPackages -----------------------------
(* The parts of the Python packages that keep a state of their own and do  *)
(* not call each other, one at a time: part says which of them a behaviour *)
(* is about, and the others stay as they are.  The bounds let the cases    *)
(* happen that the properties are about: two workers of a thread and three *)
(* saves, so that a temporary file is shared, stolen and left behind; two  *)
(* callers of a store; two loaders with two edits; two processes over one  *)
(* Lake workspace with two edits; closures of three names; three ranges on *)
(* five positions; receipt graphs of three nodes; three validations by two *)
(* threads; batches of five leaves, so that two levels are of odd length;  *)
(* three proposals and receipts, so that one is late; an epoch before and  *)
(* after those a receipt is valid in; two paths.                           *)
EXTENDS FileCheckpointer, RuntimeStore, SchemeLoad,
        ClosureExport, ExactClosure, SourceRanges, ReceiptAudit, ProofCase,
        BatchedMerkle, ActionTrace, ChangeImpact, Admission, AxleVerify, TLC

VARIABLE part

vars == <<part, checkpointer, store, loading, pipeline, closing, slicing, auditing, proofcase,
          merkle, acting, impacting, admission, verification>>

(* The receipt graphs: three nodes that assume up to two interfaces each,  *)
(* and up to three edges between them or from a node that is not there.    *)
AssumedInterfaces ==
    LET x == 1 :> "x"
        y == 2 :> "y"
    IN  {<<a, b, c>> : a \in {<< >>, x, y}, b \in {<< >>, x}, c \in {<< >>, x, y, x @@ y}}
GraphEdges ==
    {Edge(s, c, a) : s \in 1..3, c \in 1..3, a \in {1, 2}} \cup {Edge(4, 1, 1)}
ReceiptGraphs ==
    LET Graph(nodes, edges, terminal, owned, assumes) ==
            [nodes |-> nodes, edges |-> edges, terminal |-> terminal, roots |-> owned,
             provides |-> <<"x", "y", "x">>, assumes |-> assumes]
        apart == <<{1}, {2}, {3}>>
        edges == {e \in GraphEdges : e.supplier # e.consumer}
    IN  {g \in {Graph(<<1, 2, 3>>, es, t, apart, as) :
                   es \in UNION {kSubset(k, edges) : k \in 0..3}, t \in 3..4,
                   as \in AssumedInterfaces} : WellFormed(g)}
        \cup {Graph(ids, {}, 3, owned, <<<< >>, << >>, << >>>>) :
                   ids \in {<< >>, <<1, 1, 3>>, <<1, 2, 3>>}, owned \in {apart, <<{1}, {1}, {3}>>}}

(* Security cases: parts of the canonical graph, and one with a second     *)
(* control for the same evidence, in which one thing is wrong.             *)
Branched ==
    [nodes |-> Append(canonical_graph.nodes, ArchitectureNode(11, "control")),
     relations |-> canonical_graph.relations \o
         <<ArchitectureRelation(10, "IMPLEMENTED_BY", 5, 11), ArchitectureRelation(11, "VERIFIED_BY", 11, 7)>>]
RelationGraphs ==
    {[canonical_graph EXCEPT !.relations = SelectSeq(@, LAMBDA r : r.relation_id \in rs)] :
        rs \in SUBSET (1..9)}
    \cup {Branched}
    \cup {[Branched EXCEPT !.relations[r].target_id = t] : r \in 1..11, t \in 1..12}
    \cup {[Branched EXCEPT !.relations[r].forward = FALSE] : r \in 1..11}
    \cup {[Branched EXCEPT !.relations[r].evidence_requirements = {}] : r \in 1..11}
    \cup {[Branched EXCEPT !.relations[11].relation_id = i] : i \in {0, 1}}
    \cup {[Branched EXCEPT !.nodes[11].node_id = i] : i \in {0, 6}}
NoRelations == [nodes |-> << >>, relations |-> << >>]
ChangeSets == {{n} : n \in 0..10} \cup {{3, 6}, {}}

(* Closures: three names in any dependencies and orders, of which the      *)
(* first may be named by itself or unknown to the exporter; with at most   *)
(* one dependency, when names begin with one another, have no document,    *)
(* stand for others or are owned by a module of another package; and with  *)
(* none, for any proof base, roots and imports.                            *)
Apart == [n \in Name |-> {n}]
Themselves == [n \in Name |-> n]
OneOwner == [n \in Name |-> 1]
Second == [OneOwner EXCEPT ![2] = 2]
Independent == [n \in Name |-> {}]
Sorted(names) == {s \in Orders(names) : \A i, j \in DOMAIN s : i < j => s[i] < s[j]}
PlainNames ==
    /\ within = Apart /\ documents = Name /\ alias = Themselves /\ normal = Themselves /\ external = {}
    /\ depends \in {d \in [Name -> SUBSET Name] : \A n \in Name : n \in d[n] => n = 1 /\ d[n] = {1}}
    /\ \/ syntactic \in {{}, {<<1, 2>>}} /\ owner = OneOwner
       \/ syntactic = {} /\ owner = Second
    /\ closure \in Orders(Name) \ {<< >>} /\ base \in Orders(Name \ Owned)
    /\ imported = (base # << >>) /\ roots = {Last(closure)}
NestedNames ==
    /\ within \in {w \in [Name -> SUBSET Name] : \A n \in Name : n \in w[n] /\ \A m \in w[n] : m <= n}
    /\ depends \in {Independent} \cup {[Independent EXCEPT ![n] = {m} \ {n}] : n \in Name, m \in 1..2}
    /\ syntactic = {} /\ documents \in {Name} \cup {Name \ {n} : n \in Name}
    /\ \/ owner = OneOwner /\ external = {}
       \/ depends = Independent /\ owner = Second /\ external \in {{}, {2}}
    /\ closure \in Sorted(Name) \ {<< >>}
    /\ base \in {s \in Sorted(Name \ Owned) : ToSet(s) \in {{}, Name \ Owned}}
    /\ imported = (base # << >>)
    /\ roots \in {{Last(closure)}} \cup (IF depends = Independent THEN {Owned} ELSE {})
FreeNames ==
    /\ within = Apart /\ depends = Independent /\ syntactic = {} /\ documents = Name
    /\ owner \in {OneOwner, Second} /\ external = {}
    /\ closure \in Sorted(Name) \ {<< >>} /\ base \in Orders(Name \ Owned)
    /\ imported \in BOOLEAN /\ roots \in (SUBSET Name) \ {{}}
ClosureInputs == PlainNames \/ NestedNames \/ FreeNames

(* Only independent names have a rule of their own for internal names.     *)
ClosureBounds == depends # Independent => normal = alias

Parts == {"checkpointer", "store", "load", "export", "close", "ranges", "graph", "audit", "proofcase",
          "merkle", "trace", "impact", "declaration", "effect", "candidate", "verify"}

(* Only the part in question has more than one initial state.              *)
OthersFixed ==
    /\ part # "store" => kind = "file"
    /\ part # "export" => visible = TRUE
    /\ \/ part = "close" /\ ClosureInputs
       \/ /\ part # "close"
          /\ within = Apart /\ depends = Independent /\ syntactic = {} /\ documents = Name
          /\ alias = Themselves /\ normal = Themselves /\ owner = OneOwner /\ external = {}
          /\ closure = <<1>> /\ base = << >> /\ imported = FALSE /\ roots = {1}
    /\ part # "ranges" => ranged = [d \in Ranged |-> [start |-> 0, end |-> 0]]
    /\ part # "audit" => theorem = [n \in Ids |-> TRUE] /\ imports = <<<< >>, <<1, 2>>>>
    /\ part # "proofcase" => library_layout = "generated"
    /\ part # "impact" => changed = {}
    /\ part # "verify" => paths = << >>

Init ==
    /\ part \in Parts
    /\ OthersFixed
    /\ CkptInit /\ StoreInit /\ LoadInit
    /\ ExportInit /\ CloseInit /\ (part = "close" => ClosureBounds) /\ RangesInit /\ CaseInit
    /\ \E g \in (IF part = "graph" THEN ReceiptGraphs ELSE {NoGraph}) : AuditInit(g)
    /\ MerkleInit /\ TracingInit /\ AdmissionInit
    /\ ImpactInit(IF part = "impact" THEN RelationGraphs ELSE {NoRelations}, ChangeSets)
    /\ \E given \in (IF part = "verify" THEN SUBSET (ClosureOptions \cup {"proof-base-import"}) ELSE {{}}) :
           VerificationInit(given)

Next ==
    \/ /\ part = "checkpointer" /\ CkptNext
       /\ UNCHANGED <<part, store, loading, pipeline, closing, slicing, auditing, proofcase,
                      merkle, acting, impacting, admission, verification>>
    \/ /\ part = "store" /\ StoreNext
       /\ UNCHANGED <<part, checkpointer, loading, pipeline, closing, slicing, auditing, proofcase,
                      merkle, acting, impacting, admission, verification>>
    \/ /\ part = "load" /\ LoadNext
       /\ UNCHANGED <<part, checkpointer, store, pipeline, closing, slicing, auditing, proofcase,
                      merkle, acting, impacting, admission, verification>>
    \/ /\ part = "export" /\ ExportNext
       /\ UNCHANGED <<part, checkpointer, store, loading, closing, slicing, auditing, proofcase,
                      merkle, acting, impacting, admission, verification>>
    \/ /\ part = "close" /\ CloseNext
       /\ UNCHANGED <<part, checkpointer, store, loading, pipeline, slicing, auditing, proofcase,
                      merkle, acting, impacting, admission, verification>>
    \/ /\ part = "ranges" /\ RangesNext
       /\ UNCHANGED <<part, checkpointer, store, loading, pipeline, closing, auditing, proofcase,
                      merkle, acting, impacting, admission, verification>>
    \/ /\ part \in {"graph", "audit"} /\ AuditNext
       /\ UNCHANGED <<part, checkpointer, store, loading, pipeline, closing, slicing, proofcase,
                      merkle, acting, impacting, admission, verification>>
    \/ /\ part = "proofcase" /\ CaseNext
       /\ UNCHANGED <<part, checkpointer, store, loading, pipeline, closing, slicing, auditing,
                      merkle, acting, impacting, admission, verification>>
    \/ /\ part = "merkle" /\ MerkleNext
       /\ UNCHANGED <<part, checkpointer, store, loading, pipeline, closing, slicing, auditing,
                      proofcase, acting, impacting, admission, verification>>
    \/ /\ part = "trace" /\ TracingNext
       /\ UNCHANGED <<part, checkpointer, store, loading, pipeline, closing, slicing, auditing,
                      proofcase, merkle, impacting, admission, verification>>
    \/ /\ part = "impact" /\ ImpactNext
       /\ UNCHANGED <<part, checkpointer, store, loading, pipeline, closing, slicing, auditing,
                      proofcase, merkle, acting, admission, verification>>
    \/ /\ part = "verify" /\ VerificationNext
       /\ UNCHANGED <<part, checkpointer, store, loading, pipeline, closing, slicing, auditing,
                      proofcase, merkle, acting, impacting, admission>>
    \/ /\ \/ part = "declaration" /\ DeclarationNext
          \/ part = "effect" /\ EffectNext
          \/ part = "candidate" /\ CandidateNext
       /\ UNCHANGED <<part, checkpointer, store, loading, pipeline, closing, slicing, auditing,
                      proofcase, merkle, acting, impacting, verification>>

Spec == Init /\ [][Next]_vars

=============================================================================
