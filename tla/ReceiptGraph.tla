---------------------------- MODULE ReceiptGraph ----------------------------
(***************************************************************************)
(* ProofBaseReceiptGraphV1.verify (proof_base_receipt_graph.py): accepted  *)
(* receipts compose when every interface a node assumes is supplied by     *)
(* exactly one edge, the edges form a DAG and every node contributes to    *)
(* the terminal one.  Node and assumption names are numbers in their       *)
(* sorted order; an interface is its canonical bytes.                      *)
(***************************************************************************)
EXTENDS Naturals, Sequences, FiniteSets, SequencesExt

VARIABLES
    graph,        \* nodes, edges and terminal, as constructed
    caller,       \* who asked for the verification
    verdict,      \* the stage of verify, or the error that ended it
    remaining,    \* edges not yet checked
    supplied,     \* supplied_assumptions
    adjacency, indegree,
    ready, topological_order,
    reaches_terminal, frontier

verifying == <<graph, caller, verdict, remaining, supplied, adjacency, indegree,
               ready, topological_order, reaches_terminal, frontier>>

Edge(supplier, consumer, assumption) ==
    [supplier |-> supplier, consumer |-> consumer, assumption |-> assumption]

NodeIds(g) == ToSet(g.nodes)
AssumptionsOf(g) == UNION {{<<n, a>> : a \in DOMAIN g.assumes[n]} : n \in NodeIds(g)}

(* Edges in the order in which the constructor sorts them.                 *)
Before(e, f) ==
    \/ e.supplier < f.supplier
    \/ e.supplier = f.supplier /\ e.consumer < f.consumer
    \/ e.supplier = f.supplier /\ e.consumer = f.consumer /\ e.assumption < f.assumption

(* The constructors: a node has roots, names each assumption once and is   *)
(* bound by its acceptance; no node supplies itself.                       *)
WellFormed(g) ==
    /\ \A n \in NodeIds(g) : g.roots[n] # {}
    /\ \A e \in g.edges : e.supplier # e.consumer

(* What the framed digest covers: everything, in canonical order.          *)
graph_digest(g) ==
    <<g.terminal, SetToSortSeq(NodeIds(g), LAMBDA a, b : a < b), g.roots, g.provides, g.assumes,
      SetToSortSeq(g.edges, Before)>>

VerifyInit(g) ==
    /\ graph = g
    /\ verdict = "nodes" /\ remaining = g.edges /\ supplied = {}
    /\ adjacency = [n \in NodeIds(g) |-> {}] /\ indegree = [n \in NodeIds(g) |-> 0]
    /\ ready = {} /\ topological_order = << >>
    /\ reaches_terminal = {} /\ frontier = {}

Says(result) == verdict' = result

verify_nodes ==
    /\ verdict = "nodes"
    /\ Says(IF graph.nodes = << >> THEN "empty-receipt-graph"
            ELSE IF Cardinality(NodeIds(graph)) # Len(graph.nodes) THEN "duplicate-node-id"
            ELSE IF graph.terminal \notin NodeIds(graph) THEN "unresolved-terminal-node"
            ELSE IF \E n, m \in NodeIds(graph) : n # m /\ graph.roots[n] \cap graph.roots[m] # {}
            THEN "root-declaration-owner-overlap" ELSE "edges")
    /\ UNCHANGED <<graph, caller, remaining, supplied, adjacency, indegree,
                   ready, topological_order, reaches_terminal, frontier>>

NextEdge == CHOOSE e \in remaining : \A f \in remaining : f = e \/ Before(e, f)

verify_edge ==
    /\ verdict = "edges" /\ remaining # {}
    /\ LET e   == NextEdge
           key == <<e.consumer, e.assumption>>
           error == IF ~({e.supplier, e.consumer} \subseteq NodeIds(graph)) THEN "unresolved-edge-node"
                    ELSE IF key \notin AssumptionsOf(graph) THEN "unresolved-interface-assumption"
                    ELSE IF key \in supplied THEN "multiply-supplied-interface-assumption"
                    ELSE IF graph.provides[e.supplier] # graph.assumes[e.consumer][e.assumption]
                    THEN "canonical-interface-mismatch" ELSE "none"
       IN  IF error # "none"
           THEN Says(error) /\ UNCHANGED <<remaining, supplied, adjacency, indegree>>
           ELSE /\ remaining' = remaining \ {e}
                /\ supplied' = supplied \cup {key}
                /\ adjacency' = [adjacency EXCEPT ![e.supplier] = @ \cup {e.consumer}]
                /\ indegree' = IF e.consumer \in adjacency[e.supplier] THEN indegree
                               ELSE [indegree EXCEPT ![e.consumer] = @ + 1]
                /\ UNCHANGED verdict
    /\ UNCHANGED <<graph, caller, ready, topological_order, reaches_terminal, frontier>>

verify_supplied ==
    /\ verdict = "edges" /\ remaining = {}
    /\ Says(IF supplied # AssumptionsOf(graph) THEN "unresolved-interface-assumption"
            ELSE IF adjacency[graph.terminal] # {} THEN "terminal-node-has-consumer" ELSE "order")
    /\ ready' = {n \in NodeIds(graph) : indegree[n] = 0}
    /\ UNCHANGED <<graph, caller, remaining, supplied, adjacency, indegree,
                   topological_order, reaches_terminal, frontier>>

(* heappop takes the least ready node; its consumers lose one supplier.    *)
order_node ==
    /\ verdict = "order" /\ ready # {}
    /\ LET n == CHOOSE m \in ready : \A k \in ready : m <= k
       IN  /\ indegree' = [m \in DOMAIN indegree |->
                               IF m \in adjacency[n] THEN indegree[m] - 1 ELSE indegree[m]]
           /\ ready' = (ready \ {n}) \cup {m \in adjacency[n] : indegree'[m] = 0}
           /\ topological_order' = Append(topological_order, n)
    /\ UNCHANGED <<graph, caller, verdict, remaining, supplied, adjacency, reaches_terminal, frontier>>

order_ends ==
    /\ verdict = "order" /\ ready = {}
    /\ Says(IF Len(topological_order) # Len(graph.nodes) THEN "cyclic-receipt-graph" ELSE "reach")
    /\ reaches_terminal' = {graph.terminal} /\ frontier' = {graph.terminal}
    /\ UNCHANGED <<graph, caller, remaining, supplied, adjacency, indegree, ready, topological_order>>

(* Fault: only the direct suppliers of the terminal are counted. *)
reach_node_once ==
    /\ verdict = "reach" /\ frontier # {}
    /\ \E n \in frontier :
           /\ reaches_terminal' = reaches_terminal \cup {m \in NodeIds(graph) : n \in adjacency[m]}
           /\ frontier' = frontier \ {n}
    /\ UNCHANGED <<graph, caller, verdict, remaining, supplied, adjacency, indegree, ready, topological_order>>

reach_node ==
    /\ verdict = "reach" /\ frontier # {}
    /\ \E n \in frontier :
           LET suppliers == {m \in NodeIds(graph) : n \in adjacency[m]}
           IN  /\ reaches_terminal' = reaches_terminal \cup suppliers
               /\ frontier' = (frontier \ {n}) \cup (suppliers \ reaches_terminal)
    /\ UNCHANGED <<graph, caller, verdict, remaining, supplied, adjacency, indegree, ready, topological_order>>

reach_ends ==
    /\ verdict = "reach" /\ frontier = {}
    /\ Says(IF reaches_terminal # NodeIds(graph) THEN "node-outside-terminal-closure" ELSE "verified")
    /\ UNCHANGED <<graph, caller, remaining, supplied, adjacency, indegree,
                   ready, topological_order, reaches_terminal, frontier>>

VerifyNext ==
    \/ verify_nodes \/ verify_edge \/ verify_supplied
    \/ order_node \/ order_ends \/ reach_node \/ reach_ends

VerifySpec(g) == VerifyInit(g) /\ [][VerifyNext]_verifying

VerifiedReceipt ==
    [graph_digest |-> graph_digest(graph), terminal |-> graph.terminal, order |-> topological_order,
     node_count |-> Len(graph.nodes), edge_count |-> Cardinality(graph.edges),
     root_count |-> Cardinality(UNION {graph.roots[n] : n \in NodeIds(graph)})]

-----------------------------------------------------------------------------
(* Properties. *)

Stages == {"nodes", "edges", "order", "reach"}

Supplies(g, m, n) == \E e \in g.edges : e.supplier = m /\ e.consumer = n

(* What composes: each assumption has one supplier, of exactly the bytes   *)
(* assumed; no nodes supply each other in a circle, since of any of them   *)
(* one has no supplier among them; and every node contributes to the       *)
(* terminal one, since with it and the suppliers of whatever one has, one  *)
(* has them all.                                                           *)
Composes(g) ==
    LET ids == NodeIds(g)
    IN  /\ g.terminal \in ids /\ Cardinality(ids) = Len(g.nodes)
        /\ \A n, m \in ids : g.roots[n] \cap g.roots[m] # {} => n = m
        /\ \A e \in g.edges :
               /\ {e.supplier, e.consumer} \subseteq ids /\ e.assumption \in DOMAIN g.assumes[e.consumer]
               /\ g.provides[e.supplier] = g.assumes[e.consumer][e.assumption]
        /\ \A key \in AssumptionsOf(g) :
               Cardinality({e \in g.edges : e.consumer = key[1] /\ e.assumption = key[2]}) = 1
        /\ \A part \in (SUBSET ids) \ {{}} : \E n \in part : \A m \in part : ~Supplies(g, m, n)
        /\ \A part \in SUBSET ids :
               g.terminal \in part /\ (\A n \in part, m \in ids : Supplies(g, m, n) => m \in part) => part = ids

Suppliers(n) == {m \in NodeIds(graph) : Supplies(graph, m, n)}

(* A graph is verified exactly when it composes, whatever order the        *)
(* frontier is taken in, and its order is the least that has every         *)
(* supplier before its consumers.                                          *)
GraphVerdict ==
    /\ verdict = "verified" =>
           /\ Composes(graph)
           /\ ToSet(topological_order) = NodeIds(graph)
           /\ \A i \in DOMAIN topological_order :
                  LET before == ToSet(SubSeq(topological_order, 1, i - 1))
                      next   == {n \in NodeIds(graph) \ before : Suppliers(n) \subseteq before}
                  IN  topological_order[i] \in next /\ \A n \in next : topological_order[i] <= n
    /\ verdict \notin Stages \cup {"verified"} => ~Composes(graph)

=============================================================================
