----------------------------- MODULE OrderedMap -----------------------------
(***************************************************************************)
(* map_ordered_blocking and map_ordered_async (_anyio_runtime.py): without *)
(* a limit one task per input, with one a pool of workers over one shared  *)
(* iterator; results are stored by index; the first failing call cancels   *)
(* the task group.  A step is what runs between two awaits of the loop.    *)
(***************************************************************************)
EXTENDS Naturals, FiniteSets

CONSTANTS MaxInputs, MaxLimit

ASSUME MapAssumption == MaxInputs \in Nat /\ MaxLimit \in Nat

VARIABLES
    inputs,    \* how many inputs there are
    limit,     \* max_concurrency, 0 for None
    blocking,  \* do calls run in threads, which cannot be cancelled?
    taken,     \* inputs taken from the shared iterator
    task,      \* each task: "ready", "call", "done", "cancelled"
    input,     \* the input a task works on
    results,   \* 0 stands for _MISSING; the result of input i is i
    failed,    \* has a call failed, and the group been cancelled?
    outcome,   \* "running", "returned", "raised", "incomplete"
    called     \* ghost: how often each input was given to the call

mapping == <<inputs, limit, blocking, taken, task, input, results, failed, outcome, called>>

Index == 1..MaxInputs

Tasks == 1..(IF limit = 0 \/ inputs < limit THEN inputs ELSE limit)

MapInit ==
    /\ inputs \in 0..MaxInputs /\ limit \in 0..MaxLimit /\ blocking \in BOOLEAN
    /\ taken = 0
    /\ task = [t \in Index |-> "ready"] /\ input = [t \in Index |-> 0]
    /\ results = [i \in Index |-> 0] /\ called = [i \in Index |-> 0]
    /\ failed = FALSE /\ outcome = "running"

(* Fault: workers count the finished results instead of taking from the    *)
(* iterator. *)
next_input_done(t) ==
    IF limit = 0 THEN t ELSE 1 + Cardinality({i \in Index : results[i] # 0})

(* The input a task works on: its own without a limit, else the next one.  *)
next_input(t) == IF limit = 0 THEN t ELSE taken + 1

(* A cancelled task stops at its next await; a call in a thread begins     *)
(* with one, the coroutine of an async call may still run up to its own.   *)
task_calls(t) ==
    /\ outcome = "running" /\ task[t] = "ready"
    /\ failed => ~blocking
    /\ next_input(t) <= inputs
    /\ input' = [input EXCEPT ![t] = next_input(t)]
    /\ taken' = taken + 1
    /\ called' = [called EXCEPT ![next_input(t)] = @ + 1]
    /\ task' = [task EXCEPT ![t] = "call"]
    /\ UNCHANGED <<inputs, limit, blocking, results, failed, outcome>>

(* The shared iterator is exhausted.                                       *)
worker_ends(t) ==
    /\ outcome = "running" /\ task[t] = "ready" /\ next_input(t) > inputs
    /\ task' = [task EXCEPT ![t] = "done"]
    /\ UNCHANGED <<inputs, limit, blocking, taken, input, results, failed, outcome, called>>

call_returns(t) ==
    /\ task[t] = "call"
    /\ results' = [results EXCEPT ![input[t]] = input[t]]
    /\ task' = [task EXCEPT ![t] = IF limit = 0 THEN "done" ELSE "ready"]
    /\ UNCHANGED <<inputs, limit, blocking, taken, input, failed, outcome, called>>

call_fails(t) ==
    /\ task[t] = "call"
    /\ failed' = TRUE
    /\ task' = [task EXCEPT ![t] = "done"]
    /\ UNCHANGED <<inputs, limit, blocking, taken, input, results, outcome, called>>

(* Cancellation reaches a task between calls, or inside an async call.     *)
task_cancelled(t) ==
    /\ failed
    /\ task[t] = "ready" \/ (task[t] = "call" /\ ~blocking)
    /\ task' = [task EXCEPT ![t] = "cancelled"]
    /\ UNCHANGED <<inputs, limit, blocking, taken, input, results, failed, outcome, called>>

(* Fault: a cancelled task is waited for as if it could still finish. *)
group_ends_done ==
    /\ outcome = "running"
    /\ \A t \in Tasks : task[t] = "done"
    /\ outcome' = IF failed THEN "raised"
                  ELSE IF \E i \in 1..inputs : results[i] = 0 THEN "incomplete"
                  ELSE "returned"
    /\ UNCHANGED <<inputs, limit, blocking, taken, task, input, results, failed, called>>

(* The task group ends when its tasks have; then the results are checked.  *)
group_ends ==
    /\ outcome = "running"
    /\ \A t \in Tasks : task[t] \in {"done", "cancelled"}
    /\ outcome' = IF failed THEN "raised"
                  ELSE IF \E i \in 1..inputs : results[i] = 0 THEN "incomplete"
                  ELSE "returned"
    /\ UNCHANGED <<inputs, limit, blocking, taken, task, input, results, failed, called>>

TaskNext(t) ==
    \/ task_calls(t) \/ worker_ends(t)
    \/ call_returns(t) \/ call_fails(t) \/ task_cancelled(t)

MapNext == (\E t \in Tasks : TaskNext(t)) \/ group_ends

MapSpec == MapInit /\ [][MapNext]_mapping

(* The event loop runs every task that can run, and calls end.             *)
MapFair == WF_mapping(group_ends) /\ \A t \in Index : WF_mapping(t \in Tasks /\ TaskNext(t))

-----------------------------------------------------------------------------
(* Properties. *)

(* No interleaving of tasks hands an input to the call twice, exceeds the  *)
(* limit or leaves a gap in the results: a map that returns has every      *)
(* result at the index of its input, and one that ends, either way, leaves *)
(* no call running.                                                        *)
MapExact ==
    /\ \A i \in Index : called[i] <= 1
    /\ limit > 0 => Cardinality({t \in Tasks : task[t] = "call"}) <= limit
    /\ outcome # "incomplete"
    /\ outcome = "returned" => \A i \in 1..inputs : results[i] = i /\ called[i] = 1
    /\ outcome # "running" => \A t \in Tasks : task[t] # "call"

=============================================================================
