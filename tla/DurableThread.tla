---------------------------- MODULE DurableThread ----------------------------
(***************************************************************************)
(* A durable thread: invoke_thread and resume_thread of the program        *)
(* (_program_runtime.py) over the Turso checkpointer (durable.py), called  *)
(* by workers that may stop at any point.  What the executor does is cut   *)
(* down to a plan 1, 2, ..., Length, some nodes of which may interrupt: a run  *)
(* is at the last node that is done, and a checkpoint holds that node, the *)
(* interrupt, if any, and the edits made to the state.                     *)
(*                                                                         *)
(* A save reads the clock, commits row and head in one transaction, and    *)
(* then prunes the history in another.  The plan does not change, so the   *)
(* comparison of plan digests in a resume always succeeds.                 *)
(***************************************************************************)
EXTENDS Integers, FiniteSets

CONSTANTS
    Worker,
    Length,       \* nodes of the plan
    Interrupting, \* the nodes whose action may interrupt
    RetentionLimit,
    Edit,         \* edits that update_state makes
    MaxClock      \* bound on saves

ASSUME ThreadAssumption ==
    /\ Length \in Nat \ {0} /\ Interrupting \subseteq 1..Length
    /\ RetentionLimit \in Nat \ {0} /\ MaxClock \in Nat
    /\ \A edit \in Edit : edit \notin 0..Length   \* an edit is not taken for a node

VARIABLES
    rows,    \* runtime_checkpoints of the thread, by checkpoint_id
    head,    \* runtime_checkpoint_heads: an id, or 0
    clock,   \* time_ns readings so far
    worker,  \* what each worker is doing
    asked,   \* ghost: the interrupt a caller was last shown and has to answer, or 0
    edited,  \* ghost: the edits that update_state has returned from
    ran      \* ghost: how often the thread's current invocation ran each node: 0, 1, or 2 for more

vars == <<rows, head, clock, worker, asked, edited, ran>>

Idle == [pc |-> "idle"]

Checkpoint(at, interrupt, edits) == [at |-> at, interrupt |-> interrupt, edits |-> edits]

NoRuns == [n \in 1..Length |-> 0]

RanAgain(n) == [ran EXCEPT ![n] = IF @ = 0 THEN 1 ELSE 2]

-----------------------------------------------------------------------------
(* The checkpointer. *)

HasHead == head \in DOMAIN rows

(* save, up to the reading of the clock: the row that is to be written.    *)
Saving(checkpoint, then) ==
    [pc |-> "saving", id |-> clock + 1, row |-> checkpoint, then |-> then]

ReadClock ==
    /\ clock < MaxClock
    /\ clock' = clock + 1

save_commit(w) ==
    /\ worker[w].pc = "saving"
    /\ LET id == worker[w].id
       IN  /\ rows' = [i \in DOMAIN rows \cup {id} |-> IF i = id THEN worker[w].row ELSE rows[i]]
           /\ head' = id
    /\ worker' = [worker EXCEPT ![w] = [pc |-> "retaining", then |-> @.then]]
    /\ UNCHANGED <<clock, asked, edited, ran>>

(* Fault: the oldest rows are kept. *)
Expired_newest == {i \in DOMAIN rows : Cardinality({j \in DOMAIN rows : j < i}) >= RetentionLimit}

(* created_at is read together with the id, and orders the same way.       *)
Expired == {i \in DOMAIN rows : Cardinality({j \in DOMAIN rows : j > i}) >= RetentionLimit}

retention_select(w) ==
    /\ worker[w].pc = "retaining"
    /\ worker' = [worker EXCEPT ![w] = [pc |-> "pruning", expired |-> Expired, then |-> @.then]]
    /\ UNCHANGED <<rows, head, clock, asked, edited, ran>>

(* The save is over: the caller gets the interrupt (then is its node), the *)
(* execution (0) or the edited checkpoint (an edit).                       *)
retention_delete(w) ==
    /\ worker[w].pc = "pruning"
    /\ rows' = [i \in DOMAIN rows \ worker[w].expired |-> rows[i]]
    /\ asked' = IF worker[w].then \in Interrupting THEN worker[w].then ELSE asked
    /\ edited' = IF worker[w].then \in Edit THEN edited \cup {worker[w].then} ELSE edited
    /\ worker' = [worker EXCEPT ![w] = Idle]
    /\ UNCHANGED <<head, clock, ran>>

Cleared == rows' = << >> /\ head' = 0

clear(w) ==
    /\ worker[w].pc = "idle"
    /\ Cleared
    /\ asked' = 0 /\ edited' = {}
    /\ UNCHANGED <<clock, worker, ran>>

(* Reads the head, and saves what it read with the edit in it.             *)
update_state(w, edit) ==
    /\ worker[w].pc = "idle" /\ HasHead
    /\ ReadClock
    /\ worker' = [worker EXCEPT ![w] =
           Saving([rows[head] EXCEPT !.edits = @ \cup {edit}], edit)]
    /\ UNCHANGED <<rows, head, asked, edited, ran>>

-----------------------------------------------------------------------------
(* The program. *)

Running(mode, at, edits) == [pc |-> "running", mode |-> mode, at |-> at, edits |-> edits]

(* A new invocation of the thread: an open question is given up.           *)
invoke_thread(w) ==
    /\ worker[w].pc = "idle"
    /\ worker' = [worker EXCEPT ![w] = Running("invoke", 0, {})]
    /\ asked' = 0 /\ edited' = {} /\ ran' = NoRuns
    /\ UNCHANGED <<rows, head, clock>>

(* Faults: the interrupted node is run again; the edits are left out.      *)
resume_thread_reruns(w) ==
    /\ worker[w].pc = "idle" /\ HasHead /\ rows[head].interrupt
    /\ worker' = [worker EXCEPT ![w] = Running("resume", rows[head].at - 1, rows[head].edits)]
    /\ asked' = 0
    /\ UNCHANGED <<rows, head, clock, edited, ran>>

resume_thread_unedited(w) ==
    /\ worker[w].pc = "idle" /\ HasHead /\ rows[head].interrupt
    /\ worker' = [worker EXCEPT ![w] = Running("resume", rows[head].at, {})]
    /\ asked' = 0
    /\ UNCHANGED <<rows, head, clock, edited, ran>>

(* The answer takes the place of the interrupted node's result.  The       *)
(* checkpoint stays where it is.                                           *)
resume_thread(w) ==
    /\ worker[w].pc = "idle" /\ HasHead /\ rows[head].interrupt
    /\ worker' = [worker EXCEPT ![w] = Running("resume", rows[head].at, rows[head].edits)]
    /\ asked' = 0
    /\ UNCHANGED <<rows, head, clock, edited, ran>>

NextNode(w) == worker[w].at + 1

run_node(w) ==
    /\ worker[w].pc = "running" /\ worker[w].at < Length
    /\ ran' = RanAgain(NextNode(w))
    /\ worker' = [worker EXCEPT ![w].at = @ + 1]
    /\ UNCHANGED <<rows, head, clock, asked, edited>>

(* RuntimeGraphInterrupted leaves invoke_thread through a save; it leaves  *)
(* resume_thread at once.                                                  *)
interrupt(w) ==
    /\ worker[w].pc = "running" /\ worker[w].at < Length
    /\ NextNode(w) \in Interrupting
    /\ ran' = RanAgain(NextNode(w))
    /\ IF worker[w].mode = "invoke"
       THEN /\ ReadClock
            /\ worker' = [worker EXCEPT ![w] =
                   Saving(Checkpoint(NextNode(w), TRUE, worker[w].edits), NextNode(w))]
            /\ UNCHANGED asked
       ELSE /\ worker' = [worker EXCEPT ![w] = Idle]
            /\ asked' = NextNode(w)
            /\ UNCHANGED clock
    /\ UNCHANGED <<rows, head, edited>>

(* invoke_thread saves a checkpoint without an interrupt, which cannot be  *)
(* resumed.                                                                *)
finish_invoke(w) ==
    /\ worker[w].pc = "running" /\ worker[w].at = Length /\ worker[w].mode = "invoke"
    /\ ReadClock
    /\ worker' = [worker EXCEPT ![w] = Saving(Checkpoint(Length, FALSE, worker[w].edits), 0)]
    /\ UNCHANGED <<rows, head, asked, edited, ran>>

finish_resume(w, clears) ==
    /\ worker[w].pc = "running" /\ worker[w].at = Length /\ worker[w].mode = "resume"
    /\ IF clears THEN Cleared /\ edited' = {} ELSE UNCHANGED <<rows, head, edited>>
    /\ worker' = [worker EXCEPT ![w] = Idle]
    /\ UNCHANGED <<clock, asked, ran>>

(* The process ends, or an action or the database raises.                  *)
stop(w) ==
    /\ worker[w].pc # "idle"
    /\ worker' = [worker EXCEPT ![w] = Idle]
    /\ UNCHANGED <<rows, head, clock, asked, edited, ran>>

-----------------------------------------------------------------------------
Init ==
    /\ rows = << >>
    /\ head = 0
    /\ clock = 0
    /\ worker = [w \in Worker |-> Idle]
    /\ asked = 0
    /\ edited = {}
    /\ ran = NoRuns

Next ==
    \E w \in Worker :
        \/ invoke_thread(w) \/ resume_thread(w) \/ clear(w)
        \/ run_node(w) \/ interrupt(w) \/ finish_invoke(w)
        \/ save_commit(w) \/ retention_select(w) \/ retention_delete(w)
        \/ stop(w)
        \/ \E edit \in Edit : update_state(w, edit)
        \/ \E clears \in BOOLEAN : finish_resume(w, clears)

Spec == Init /\ [][Next]_vars

-----------------------------------------------------------------------------
(* Properties. *)

(* The thread's head can be loaded: pruning the history never takes the    *)
(* checkpoint the head names, wherever a save stops.                       *)
HeadResolves == head # 0 => HasHead

(* An interrupt that a caller was shown can be answered: the next          *)
(* resume_thread gives the answer to the node that asked.                  *)
Answerable == asked # 0 => HasHead /\ rows[head].interrupt /\ rows[head].at = asked

(* Wherever a worker stops, the thread has a head that can be resumed, and *)
(* it is the one the caller was shown.                                     *)
ThreadResumable == HeadResolves /\ Answerable

(* What a checkpoint holds is not done again: a node up to the one where   *)
(* the thread's head stands was run once in this invocation.               *)
SavedNotRepeated ==
    HasHead /\ asked # 0 => \A n \in 1..rows[head].at : ran[n] = 1

(* An edit that update_state returned from is in the state that is resumed. *)
EditsKept ==
    \A w \in Worker :
        worker[w].pc = "running" /\ worker[w].mode = "resume" => edited \subseteq worker[w].edits

=============================================================================
