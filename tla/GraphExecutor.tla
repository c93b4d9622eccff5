---------------------------- MODULE GraphExecutor ----------------------------
(***************************************************************************)
(* One run of the Python graph executor (_runtime_graph_executor.py): a    *)
(* queue of nodes to run, one node at a time, each of which merges an      *)
(* update into the state and queues its successors, until the queue is     *)
(* empty, an action interrupts, or an error ends the run.  An interrupt    *)
(* leaves a snapshot from which the run can be resumed, any number of      *)
(* times.  The synchronous and the asynchronous entry points, with or      *)
(* without streaming, go through these same steps.                         *)
(*                                                                         *)
(* What the actions compute is theirs.  The state is represented by the    *)
(* steps whose updates were merged into it, in the order of merging; an    *)
(* item sent to a node is represented by its target, since the update that *)
(* a send carries is seen by the action only and is never merged.          *)
(***************************************************************************)
EXTENDS Integers, FiniteSets, Sequences, SequencesExt

CONSTANTS
    Node, START, END,
    NoNode,     \* the node of an event that is about the whole run
    Edge,       \* the plan's edges: successors of START and of each node, in order
    Router,     \* the nodes that have a conditional edge
    Route,      \* the target sequences a router may return, endpoints all
    Goto,       \* the target sequences an action may name: not checked by anyone
    step_limit,
    Nested,     \* nodes whose action runs a subgraph
    ChildNode,  \* the node of the subgraph that interrupts
    MaxResumes  \* bound on calls of resume_interrupted

Endpoint == Node \cup {START, END}

ASSUME PlanAssumption ==
    /\ START # END /\ {START, END, NoNode} \cap Node = {}
    /\ Edge \in [Node \cup {START} -> Seq(Endpoint)]
    /\ Router \subseteq Node /\ Route \subseteq Seq(Endpoint)
    /\ \A targets \in Goto : targets \in Seq(Range(targets))
    /\ step_limit \in Nat /\ Nested \subseteq Node /\ MaxResumes \in Nat

VARIABLES
    context, \* GraphRunContext
    status,  \* where the run is: between nodes, in an action, or ended
    raised,  \* RuntimeGraphInterrupted snapshots that the callers hold
    resumes  \* calls of resume_interrupted

vars == <<context, status, raised, resumes>>

-----------------------------------------------------------------------------
(* GraphRunContext.  queued is a ghost: all that was ever put on pending.  *)

from_initial ==
    [state |-> <<>>, pending |-> Edge[START], trace |-> <<>>, events |-> <<>>,
     step |-> 0, queued |-> Edge[START]]

(* Fault: the step counter starts over.                                    *)
from_interrupted_restarted(i) == [i.context EXCEPT !.step = 0]

from_interrupted(i) == i.context

Event(kind, node, step, merged) ==
    [kind |-> kind, node |-> node, step |-> step, merged |-> merged]

publish(c, kind, node, merged) ==
    [c EXCEPT !.events = Append(@, Event(kind, node, c.step, merged))]

publish_start(c) ==
    [c EXCEPT !.events = Append(@, Event("start", NoNode, 0, FALSE))]

-----------------------------------------------------------------------------
(* What an action, or the caller that resumes, may return: an update, with *)
(* or without content; a command, which controls the flow when it names a  *)
(* target; sends, which always do, also when there are none.               *)
normalize_action_result ==
    [update : BOOLEAN, controls_flow : {FALSE}, targets : {<<>>}] \cup
    [update : BOOLEAN, controls_flow : {TRUE}, targets : Goto \ {<<>>}] \cup
    [update : {FALSE}, controls_flow : {TRUE}, targets : Goto]

(* The successors a plan gives a node; the subgraph's nodes have none.     *)
EdgesOf(node) == IF node \in Node THEN Edge[node] ELSE <<>>

ConditionalTargets(node) == IF node \in Router THEN Route ELSE {<<>>}

next_targets(node, outcome) ==
    IF outcome.controls_flow
    THEN {outcome.targets}
    ELSE {EdgesOf(node) \o targets : targets \in ConditionalTargets(node)}

merge_state(c, outcome) ==
    IF outcome.update THEN [c EXCEPT !.state = Append(@, c.step)] ELSE c

(* Fault: successors are put before what was already waiting. *)
finish_node_depth_first(c, node, outcome, targets, kind) ==
    publish([merge_state(c, outcome) EXCEPT
                 !.pending = targets \o @, !.queued = @ \o targets],
            kind, node, outcome.update)

finish_node(c, node, outcome, targets, kind) ==
    publish([merge_state(c, outcome) EXCEPT
                 !.pending = @ \o targets, !.queued = @ \o targets],
            kind, node, outcome.update)

-----------------------------------------------------------------------------
(* The run. *)

invoke ==
    /\ status = "idle"
    /\ context' = publish_start(from_initial)
    /\ status' = "ready"
    /\ UNCHANGED <<raised, resumes>>

(* END is dropped, and costs no step.                                      *)
skip_end ==
    /\ status = "ready" /\ context.pending # <<>>
    /\ Head(context.pending) = END
    /\ context' = [context EXCEPT !.pending = Tail(@)]
    /\ UNCHANGED <<status, raised, resumes>>

(* The context when the action of the next node is called.                 *)
Started ==
    LET node == Head(context.pending)
    IN  publish([context EXCEPT !.pending = Tail(@), !.step = @ + 1, !.trace = Append(@, node)],
                "node-start", node, FALSE)

(* A node that the plan does not have is traced and published before the   *)
(* lookup of its action fails.                                             *)
start_node ==
    /\ status = "ready" /\ context.pending # <<>>
    /\ Head(context.pending) # END
    /\ IF context.step + 1 > step_limit
       THEN /\ context' = [context EXCEPT !.pending = Tail(@), !.step = @ + 1]
            /\ status' = "failed"
       ELSE /\ context' = Started
            /\ status' = IF Head(context.pending) \in Node THEN "acting" ELSE "failed"
    /\ UNCHANGED <<raised, resumes>>

CurrentNode == Last(context.trace)

action_returns(outcome) ==
    /\ status = "acting"
    /\ \E targets \in next_targets(CurrentNode, outcome) :
           context' = finish_node(context, CurrentNode, outcome, targets, "node-end")
    /\ status' = "ready"
    /\ UNCHANGED <<raised, resumes>>

(* The action raises, or a router does or returns no route of the plan.    *)
(* The router runs after the merge, before anything is queued.             *)
action_fails(outcome) ==
    /\ status = "acting"
    /\ \/ UNCHANGED context
       \/ /\ CurrentNode \in Router /\ ~outcome.controls_flow
          /\ context' = merge_state(context, outcome)
    /\ status' = "failed"
    /\ UNCHANGED <<raised, resumes>>

action_interrupts ==
    /\ status = "acting"
    /\ context' = publish(context, "interrupt", CurrentNode, FALSE)
    /\ raised' = raised \cup {[node |-> CurrentNode, context |-> context']}
    /\ status' = "interrupted"
    /\ UNCHANGED resumes

(* The subgraph's own snapshot goes through the parent's executor: no code *)
(* of the parent sees it, and what the parent had queued is not in it.     *)
ChildContext ==
    [state |-> <<>>, pending |-> <<>>, trace |-> <<ChildNode>>, step |-> 1,
     events |-> <<Event("start", NoNode, 0, FALSE), Event("node-start", ChildNode, 1, FALSE),
                  Event("interrupt", ChildNode, 1, FALSE)>>,
     queued |-> context.queued]

subgraph_interrupts ==
    /\ status = "acting" /\ CurrentNode \in Nested
    /\ context' = ChildContext
    /\ raised' = raised \cup {[node |-> ChildNode, context |-> ChildContext]}
    /\ status' = "interrupted"
    /\ UNCHANGED resumes

complete ==
    /\ status = "ready" /\ context.pending = <<>>
    /\ context' = publish(context, "complete", NoNode, FALSE)
    /\ status' = "complete"
    /\ UNCHANGED <<raised, resumes>>

(* The result given to resume takes the place of the interrupted action's. *)
(* An interrupt given as the result counts as sends to nobody.             *)
resume_interrupted(i, outcome) ==
    /\ status \notin {"ready", "acting"} /\ resumes < MaxResumes
    /\ \E targets \in next_targets(i.node, outcome) :
           context' = publish_start(
                          finish_node(from_interrupted(i), i.node, outcome, targets, "resume"))
    /\ status' = "ready"
    /\ resumes' = resumes + 1
    /\ UNCHANGED raised

(* A router fails during a resume: the snapshot is as good as before.      *)
resume_fails(i, outcome) ==
    /\ status \notin {"ready", "acting"} /\ resumes < MaxResumes
    /\ i.node \in Router /\ ~outcome.controls_flow
    /\ context' = merge_state(from_interrupted(i), outcome)
    /\ status' = "failed"
    /\ resumes' = resumes + 1
    /\ UNCHANGED raised

-----------------------------------------------------------------------------
Init ==
    /\ context = from_initial
    /\ status = "idle"
    /\ raised = {}
    /\ resumes = 0

Run ==
    \/ skip_end \/ start_node \/ complete
    \/ action_interrupts \/ subgraph_interrupts
    \/ \E outcome \in normalize_action_result : action_returns(outcome) \/ action_fails(outcome)

Next ==
    \/ invoke
    \/ Run
    \/ \E i \in raised, outcome \in normalize_action_result :
           resume_interrupted(i, outcome) \/ resume_fails(i, outcome)

Spec == Init /\ [][Next]_vars

(* invoke and resume_interrupted run to their end once called; actions     *)
(* return, fail or interrupt.                                              *)
FairSpec == Spec /\ WF_vars(Run)

-----------------------------------------------------------------------------
(* Properties. *)

Snapshots == {i.context : i \in raised}

(* The context of a run that has not failed, and every snapshot.           *)
Contexts == Snapshots \cup (IF status = "failed" THEN {} ELSE {context})

(* The place of position i among the positions I of a sequence.            *)
Rank(I, i) == Cardinality({j \in I : j <= i})

Drained(c) == Len(c.queued) - Len(c.pending)

(* The positions of what was taken off the queue to be run.                *)
Ran(c) == {i \in 1..Drained(c) : c.queued[i] # END}

(* Not a subgraph's context, nor resumed from one: NothingSkipped is about those. *)
OfThePlan(c) == c.trace = <<>> \/ Head(c.trace) # ChildNode

(* Nothing queued is lost, repeated or overtaken, through any number of    *)
(* interrupts and resumes: what was queued is what was run, in the order   *)
(* of queuing, followed by what is still pending.                          *)
WorkConserved ==
    \A c \in Contexts :
        OfThePlan(c) =>
            /\ c.pending = SubSeq(c.queued, Drained(c) + 1, Len(c.queued))
            /\ Len(c.trace) = Cardinality(Ran(c))
            /\ \A i \in Ran(c) : c.trace[Rank(Ran(c), i)] = c.queued[i]

Opens(event) == event.kind = "node-start"
Closes(event) == event.kind \in {"node-end", "resume"}
OfNodes(event) == event.kind \notin {"start", "complete"}

Opened(c) == {i \in DOMAIN c.events : Opens(c.events[i])}
Log(c) == {i \in DOMAIN c.events : OfNodes(c.events[i])}

(* The event of a node that comes right before event i, if there is one.   *)
Before(c, i) == {j \in Log(c) : j < i /\ \A k \in Log(c) : k <= j \/ i <= k}

(* The event log, whoever reads it and wherever it was cut by an interrupt, *)
(* tells the run: the k-th node started is the k-th of the trace, at step  *)
(* k, within the plan's limit; a node starts when the one before is closed; *)
(* a resume follows the interrupt of the same node and step.               *)
LogTellsRun ==
    \A c \in Contexts :
        /\ c.step = Len(c.trace) /\ c.step <= step_limit /\ c.step = Cardinality(Opened(c))
        /\ \A i \in Opened(c) :
               /\ c.events[i].step = Rank(Opened(c), i)
               /\ c.events[i].node = c.trace[c.events[i].step]
        /\ \A i \in Log(c) :
               IF Opens(c.events[i])
               THEN \A j \in Before(c, i) : Closes(c.events[j])
               ELSE \E j \in Before(c, i) :
                        /\ c.events[j].step = c.events[i].step
                        /\ c.events[j].node = c.events[i].node
                        /\ c.events[j].kind =
                               IF c.events[i].kind = "resume" THEN "interrupt" ELSE "node-start"

Merges(c) == {i \in DOMAIN c.events : c.events[i].merged}

(* The state holds the update of every step whose closing event reports    *)
(* one, once, in the order of the steps.                                   *)
StateFromLog ==
    \A c \in Contexts :
        /\ Len(c.state) = Cardinality(Merges(c))
        /\ \A i \in Merges(c) : c.state[Rank(Merges(c), i)] = c.events[i].step
        /\ \A j, k \in DOMAIN c.state : j < k => c.state[j] < c.state[k]

(* The log is enough to know the run and its state, also when it was cut   *)
(* by an interrupt and continued by a resume.                              *)
LogExact == LogTellsRun /\ StateFromLog

(* A call that was made returns or raises: cycles in the plan, routers and *)
(* commands cannot keep a run going.                                       *)
Terminates == (status \in {"ready", "acting"}) ~> (status \notin {"ready", "acting"})

(* A run that completes has run every node queued in it.                   *)
NothingSkipped == status = "complete" => context.trace = SelectSeq(context.queued, LAMBDA n : n # END)
=============================================================================
