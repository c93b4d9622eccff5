------------------------ MODULE DurableThreadProofs ------------------------
(***************************************************************************)
(* Proofs about DurableThread: for a plan of any length, any retention     *)
(* limit and any edits, with one worker that may stop anywhere.            *)
(***************************************************************************)
EXTENDS DurableThread, FiniteSetTheorems, TLAPS

(* One worker at a time has the thread.  With two whose saves cross, the   *)
(* retention of one deletes the row the head of the other names.           *)
Alone == \A v, w \in Worker : v = w

(* Only one node of the plan interrupts.  With two, an interrupt met while *)
(* resuming is shown to the caller and not saved.                          *)
AsksOnce == \A m, n \in Interrupting : m = n

Ckpt == [at : 1..Length, interrupt : BOOLEAN, edits : SUBSET Edit]
Then == {0} \cup Interrupting \cup Edit

At(w, step) == worker[w].pc = step

(* What a worker has in hand. *)
InHand(w) ==
    \/ worker[w] \in [pc : {"idle"}]
    \/ worker[w] \in [pc : {"running"}, mode : {"invoke", "resume"}, at : 0..Length,
                      edits : SUBSET Edit]
    \/ worker[w] \in [pc : {"saving"}, id : Nat, row : Ckpt, then : Then]
    \/ worker[w] \in [pc : {"retaining"}, then : Then]
    \/ worker[w] \in [pc : {"pruning"}, expired : SUBSET Nat, then : Then]

ThreadType ==
    /\ rows \in [DOMAIN rows -> Ckpt] /\ DOMAIN rows \subseteq 1..clock
    /\ head \in Nat /\ clock \in Nat
    /\ worker = [w \in Worker |-> worker[w]] /\ \A w \in Worker : InHand(w)
    /\ asked \in {0} \cup Interrupting /\ edited \in SUBSET Edit
    /\ ran \in [1..Length -> {0, 1, 2}]

(* The head is the newest row, a row that is to be written will be, and    *)
(* what retention has selected does not hold it.                           *)
HeadNewest ==
    /\ head # 0 => HasHead /\ \A i \in DOMAIN rows : i <= head
    /\ \A w \in Worker :
           /\ At(w, "saving") =>
                  worker[w].id \in 1..clock /\ \A i \in DOMAIN rows : i < worker[w].id
           /\ At(w, "retaining") => head # 0
           /\ At(w, "pruning") => head # 0 /\ head \notin worker[w].expired

(* The edits returned from are in the head, and in what will be the head.  *)
EditsHeld ==
    /\ edited # {} => HasHead /\ edited \subseteq rows[head].edits
    /\ \A w \in Worker :
           /\ At(w, "running") =>
                  edited \subseteq worker[w].edits /\ (worker[w].mode = "invoke" => edited = {})
           /\ At(w, "saving") =>
                  /\ edited \subseteq worker[w].row.edits
                  /\ worker[w].then \in Edit => worker[w].then \in worker[w].row.edits
           /\ At(w, "retaining") \/ At(w, "pruning") =>
                  (worker[w].then \in Edit => worker[w].then \in rows[head].edits)

HeadInv == ThreadType /\ HeadNewest /\ EditsHeld

(* Every node up to n ran once.                                            *)
RanOnce(n) == \A m \in 1..n : ran[m] = 1

(* A checkpoint is of an interrupt of node n in the current invocation.    *)
Asks(row, n) == row.interrupt = TRUE /\ row.at = n

(* The question open, and the one that a save under way will open, is that *)
(* of the newest row; a run is past every question that was asked.         *)
QuestionHeld ==
    /\ \A i \in DOMAIN rows : rows[i].interrupt = TRUE => rows[i].at \in Interrupting
    /\ asked # 0 => HasHead /\ Asks(rows[head], asked) /\ RanOnce(asked)
    /\ \A w \in Worker :
           /\ At(w, "running") =>
                  /\ asked = 0
                  /\ worker[w].mode = "invoke" =>
                         RanOnce(worker[w].at) /\ \A n \in (worker[w].at + 1)..Length : ran[n] = 0
                  /\ worker[w].mode = "resume" => \A n \in Interrupting : n <= worker[w].at
           /\ At(w, "saving") =>
                  /\ worker[w].row.interrupt = TRUE => worker[w].row.at \in Interrupting
                  /\ asked # 0 => Asks(worker[w].row, asked) /\ worker[w].then \in Edit
                  /\ worker[w].then \in Interrupting =>
                         Asks(worker[w].row, worker[w].then) /\ RanOnce(worker[w].then)
           /\ At(w, "retaining") \/ At(w, "pruning") =>
                  (worker[w].then \in Interrupting =>
                      Asks(rows[head], worker[w].then) /\ RanOnce(worker[w].then))

AnswerInv == HeadInv /\ QuestionHeld

-----------------------------------------------------------------------------
(* What retention selects is older than RetentionLimit rows, so it never   *)
(* holds the newest one.                                                   *)
LEMMA NewestKept ==
    ASSUME DOMAIN rows \subseteq Nat, head \in Nat, \A i \in DOMAIN rows : i <= head
    PROVE  head \notin Expired
<1>1. {j \in DOMAIN rows : j > head} = {}
      OBVIOUS
<1>2. Cardinality({j \in DOMAIN rows : j > head}) = 0
      BY <1>1, FS_EmptySet
<1> QED
    BY <1>2, ThreadAssumption DEF Expired

(* A node is not an edit.                                                  *)
LEMMA NodesNotEdits == ASSUME NEW n \in Interrupting PROVE n \notin Edit
<1>1. n \in 0..Length
      BY ThreadAssumption
<1> QED
    BY <1>1, ThreadAssumption

(* A thread starts without rows and without head.                          *)
LEMMA HeadInitInv == Init => HeadInv
<1> SUFFICES ASSUME Init PROVE HeadInv
    OBVIOUS
<1>1. rows \in [DOMAIN rows -> Ckpt] /\ DOMAIN rows = {}
      BY DEF Init
<1> QED
    BY <1>1, ThreadAssumption
       DEF Init, HeadInv, ThreadType, InHand, Idle, NoRuns, HeadNewest, EditsHeld, At

(* A thread starts without a question.                                     *)
LEMMA AnswerInitInv == Init => QuestionHeld
<1> SUFFICES ASSUME Init PROVE QuestionHeld
    OBVIOUS
<1>1. DOMAIN rows = {}
      BY DEF Init
<1> QED
    BY <1>1 DEF Init, QuestionHeld, Idle, At

-----------------------------------------------------------------------------
(* One lemma per call: the thread stays loadable and keeps its edits.      *)

(* A worker that begins, runs or ends without a save leaves the rows alone. *)
LEMMA RunHead ==
    ASSUME HeadInv, Alone, NEW w \in Worker,
           \/ invoke_thread(w) \/ resume_thread(w) \/ run_node(w) \/ stop(w)
           \/ interrupt(w) /\ worker[w].mode = "resume"
           \/ finish_resume(w, FALSE)
    PROVE  HeadInv'
<1> USE ThreadAssumption DEF HeadInv, ThreadType, InHand, HeadNewest, EditsHeld, At, HasHead, Idle,
        Running, RanAgain, NoRuns, NextNode
<1>1. CASE invoke_thread(w)
  <2>0. worker'[w] \in [pc : {"running"}, mode : {"invoke", "resume"}, at : 0..Length,
                         edits : SUBSET Edit]
        BY <1>1 DEF invoke_thread
  <2>1. ThreadType'
        BY <1>1, <2>0 DEF invoke_thread
  <2>2. HeadNewest'
        BY <1>1 DEF invoke_thread, Alone
  <2>3. EditsHeld'
        BY <1>1 DEF invoke_thread, Alone
  <2> QED
      BY <2>1, <2>2, <2>3
<1>2. CASE resume_thread(w)
  <2>1. rows[head] \in Ckpt
        BY <1>2 DEF resume_thread
  <2> QED
      BY <1>2, <2>1 DEF resume_thread, Alone, Ckpt
<1>3. CASE run_node(w)
  <2>0. worker'[w] \in [pc : {"running"}, mode : {"invoke", "resume"}, at : 0..Length,
                         edits : SUBSET Edit]
        BY <1>3 DEF run_node
  <2>4. ran' \in [1..Length -> {0, 1, 2}]
        BY <1>3 DEF run_node
  <2>1. ThreadType'
        BY <1>3, <2>0, <2>4 DEF run_node
  <2>2. HeadNewest'
        BY <1>3 DEF run_node, Alone
  <2>3. EditsHeld'
        BY <1>3 DEF run_node, Alone
  <2> QED
      BY <2>1, <2>2, <2>3
<1>4. CASE stop(w)
      BY <1>4 DEF stop
<1>5. CASE interrupt(w) /\ worker[w].mode = "resume"
  <2>0. /\ worker' = [worker EXCEPT ![w] = Idle] /\ asked' \in Interrupting
        /\ UNCHANGED <<rows, head, clock, edited>>
        BY <1>5 DEF interrupt
  <2>4. ran' \in [1..Length -> {0, 1, 2}]
        BY <1>5 DEF interrupt
  <2>1. ThreadType'
        BY <2>0, <2>4
  <2>2. HeadNewest'
        BY <2>0 DEF Alone
  <2>3. EditsHeld'
        BY <2>0 DEF Alone
  <2> QED
      BY <2>1, <2>2, <2>3
<1>6. CASE finish_resume(w, FALSE)
      BY <1>6 DEF finish_resume, Alone
<1> QED
    BY <1>1, <1>2, <1>3, <1>4, <1>5, <1>6

(* The two ways to an empty thread.                                        *)
LEMMA ClearHead ==
    ASSUME HeadInv, Alone, NEW w \in Worker, clear(w) \/ finish_resume(w, TRUE)
    PROVE  HeadInv'
<1> USE DEF HeadInv, ThreadType, InHand, HeadNewest, EditsHeld, At, HasHead, Idle
<1>1. rows' = << >> /\ head' = 0
      BY DEF clear, finish_resume, Cleared
<1>2. rows' \in [DOMAIN rows' -> Ckpt] /\ DOMAIN rows' = {}
      BY <1>1
<1>3. CASE clear(w)
      BY <1>1, <1>2, <1>3 DEF clear, Alone
<1>4. CASE finish_resume(w, TRUE)
      BY <1>1, <1>2, <1>4 DEF finish_resume, Alone
<1> QED
    BY <1>3, <1>4

(* The beginnings of a save: the clock gives an id above every row.        *)
LEMMA BeginSaveHead ==
    ASSUME HeadInv, Alone, NEW w \in Worker,
           NEW row \in Ckpt, NEW then \in Then,
           ReadClock, worker' = [worker EXCEPT ![w] = Saving(row, then)],
           edited \subseteq row.edits, then \in Edit => then \in row.edits,
           ran' \in [1..Length -> {0, 1, 2}],
           UNCHANGED <<rows, head, asked, edited>>
    PROVE  HeadInv'
BY DEF HeadInv, ThreadType, InHand, HeadNewest, EditsHeld, At, HasHead, Saving, ReadClock, Alone

(* update_state commits an edited row.                                     *)
LEMMA UpdateHead ==
    ASSUME HeadInv, Alone, NEW w \in Worker, NEW edit \in Edit, update_state(w, edit)
    PROVE  HeadInv'
<1>1. rows[head] \in Ckpt
      BY DEF HeadInv, ThreadType, update_state, HasHead
<1> DEFINE row == [rows[head] EXCEPT !.edits = @ \cup {edit}]
<1>2. row \in Ckpt /\ row.edits = rows[head].edits \cup {edit}
      BY <1>1 DEF Ckpt
<1>3. edited \subseteq row.edits
      BY <1>2 DEF HeadInv, EditsHeld, update_state
<1>4. ran' \in [1..Length -> {0, 1, 2}] /\ edit \in Then
      BY DEF HeadInv, ThreadType, update_state, Then
<1> HIDE DEF row
<1>5. /\ ReadClock /\ worker' = [worker EXCEPT ![w] = Saving(row, edit)]
      /\ UNCHANGED <<rows, head, asked, edited>>
      BY DEF update_state, row
<1> QED
    BY <1>2, <1>3, <1>4, <1>5, BeginSaveHead

(* A run stops at an interrupt.                                            *)
LEMMA InterruptHead ==
    ASSUME HeadInv, Alone, NEW w \in Worker, interrupt(w), worker[w].mode = "invoke"
    PROVE  HeadInv'
<1> DEFINE row == Checkpoint(NextNode(w), TRUE, worker[w].edits)
<1>1. row \in Ckpt /\ row.edits = worker[w].edits /\ NextNode(w) \in Then
      BY ThreadAssumption
      DEF HeadInv, ThreadType, InHand, interrupt, NextNode, Checkpoint, Ckpt, Then
<1>2. edited \subseteq row.edits
      BY <1>1 DEF HeadInv, EditsHeld, interrupt, At
<1>5. NextNode(w) \in Interrupting
      BY DEF interrupt
<1>6. NextNode(w) \notin Edit
      BY <1>5, NodesNotEdits
<1>3. ran' \in [1..Length -> {0, 1, 2}]
      BY DEF HeadInv, ThreadType, interrupt, RanAgain
<1> HIDE DEF row
<1>4. /\ ReadClock /\ worker' = [worker EXCEPT ![w] = Saving(row, NextNode(w))]
      /\ UNCHANGED <<rows, head, asked, edited>>
      BY DEF interrupt, row
<1> QED
    BY <1>1, <1>2, <1>3, <1>4, <1>6, BeginSaveHead

(* A run ends.                                                             *)
LEMMA FinishHead ==
    ASSUME HeadInv, Alone, NEW w \in Worker, finish_invoke(w)
    PROVE  HeadInv'
<1> DEFINE row == Checkpoint(Length, FALSE, worker[w].edits)
<1>1. row \in Ckpt /\ row.edits = worker[w].edits /\ 0 \in Then /\ 0 \notin Edit
      BY ThreadAssumption
      DEF HeadInv, ThreadType, InHand, finish_invoke, Checkpoint, Ckpt, Then
<1>2. edited \subseteq row.edits
      BY <1>1 DEF HeadInv, EditsHeld, finish_invoke, At
<1>3. ran' \in [1..Length -> {0, 1, 2}]
      BY DEF HeadInv, ThreadType, finish_invoke
<1> HIDE DEF row
<1>4. /\ ReadClock /\ worker' = [worker EXCEPT ![w] = Saving(row, 0)]
      /\ UNCHANGED <<rows, head, asked, edited>>
      BY DEF finish_invoke, row
<1> QED
    BY <1>1, <1>2, <1>3, <1>4, BeginSaveHead

(* The steps of a save.                                                    *)
LEMMA CommitHead ==
    ASSUME HeadInv, Alone, NEW w \in Worker, save_commit(w)
    PROVE  /\ HeadInv'
           /\ rows'[head'] = worker[w].row /\ head' \in DOMAIN rows' /\ head' # 0
           /\ \A i \in DOMAIN rows' : i # head' => i \in DOMAIN rows /\ rows'[i] = rows[i]
<1> DEFINE id == worker[w].id
           row == worker[w].row
           then == worker[w].then
<1>1. /\ id \in 1..clock /\ row \in Ckpt /\ then \in Then
      /\ \A i \in DOMAIN rows : i < id
      BY DEF HeadInv, ThreadType, InHand, HeadNewest, save_commit, At
<1>2. /\ edited \subseteq row.edits /\ (then \in Edit => then \in row.edits)
      BY DEF HeadInv, EditsHeld, save_commit, At
<1>3. /\ rows' = [i \in DOMAIN rows \cup {id} |-> IF i = id THEN row ELSE rows[i]]
      /\ head' = id /\ UNCHANGED <<clock, asked, edited, ran>>
      /\ worker' = [worker EXCEPT ![w] = [pc |-> "retaining", then |-> then]]
      BY DEF save_commit, HeadInv, ThreadType
<1> HIDE DEF id, row, then
<1>4. /\ rows' \in [DOMAIN rows' -> Ckpt] /\ DOMAIN rows' = DOMAIN rows \cup {id}
      /\ rows'[head'] = row
      BY <1>1, <1>3 DEF HeadInv, ThreadType
<1>5. ThreadType'
      BY <1>1, <1>3, <1>4 DEF HeadInv, ThreadType, InHand
<1>6. HeadNewest'
      BY <1>1, <1>3, <1>4 DEF HeadInv, ThreadType, HeadNewest, At, HasHead, Alone
<1>7. EditsHeld'
      BY <1>1, <1>2, <1>3, <1>4 DEF HeadInv, ThreadType, EditsHeld, At, HasHead, Alone
<1> QED
    BY <1>1, <1>3, <1>4, <1>5, <1>6, <1>7 DEF HeadInv, row

(* Retention selects what is expired, never the head.                      *)
LEMMA SelectHead ==
    ASSUME HeadInv, Alone, NEW w \in Worker, retention_select(w)
    PROVE  HeadInv'
<1>1. head # 0 /\ worker[w].then \in Then /\ DOMAIN rows \subseteq Nat
      BY DEF HeadInv, ThreadType, InHand, HeadNewest, retention_select, At
<1>2. head \notin Expired
      BY <1>1, NewestKept DEF HeadInv, ThreadType, HeadNewest
<1>3. Expired \subseteq Nat
      BY <1>1 DEF Expired
<1> QED
    BY <1>1, <1>2, <1>3
       DEF HeadInv, ThreadType, InHand, HeadNewest, EditsHeld, At, HasHead, Alone, retention_select

(* Retention deletes what it selected.                                     *)
LEMMA DeleteHead ==
    ASSUME HeadInv, Alone, NEW w \in Worker, retention_delete(w)
    PROVE  /\ HeadInv'
           /\ head' \in DOMAIN rows' /\ head' # 0
           /\ \A i \in DOMAIN rows' : i \in DOMAIN rows /\ rows'[i] = rows[i]
<1>1. head # 0 /\ head \in DOMAIN rows /\ head \notin worker[w].expired /\ worker[w].then \in Then
      BY DEF HeadInv, ThreadType, InHand, HeadNewest, HasHead, retention_delete, At
<1>2. /\ DOMAIN rows' = DOMAIN rows \ worker[w].expired
      /\ \A i \in DOMAIN rows' : i \in DOMAIN rows /\ rows'[i] = rows[i]
      /\ rows' \in [DOMAIN rows' -> Ckpt]
      BY DEF retention_delete, HeadInv, ThreadType
<1>3. head \in DOMAIN rows' /\ rows'[head] = rows[head]
      BY <1>1, <1>2
<1>4. ThreadType'
      BY <1>1, <1>2 DEF HeadInv, ThreadType, InHand, Idle, retention_delete
<1>5. HeadNewest'
      BY <1>1, <1>2, <1>3 DEF HeadInv, ThreadType, HeadNewest, HasHead, At, Idle, Alone, retention_delete
<1>6. worker[w].then \in Edit => worker[w].then \in rows[head].edits
      BY DEF HeadInv, EditsHeld, At, retention_delete
<1>7. edited # {} => edited \subseteq rows[head].edits
      BY DEF HeadInv, EditsHeld
<1>8. edited' \subseteq rows'[head].edits
      BY <1>3, <1>6, <1>7 DEF retention_delete
<1>9. EditsHeld'
      BY <1>3, <1>8 DEF HeadInv, ThreadType, EditsHeld, HasHead, At, Idle, Alone, retention_delete
<1> QED
    BY <1>1, <1>2, <1>3, <1>4, <1>5, <1>9 DEF HeadInv, retention_delete

(* Nothing happens.                                                        *)
LEMMA StutterHead == ASSUME HeadInv, UNCHANGED vars PROVE HeadInv'
BY DEF HeadInv, ThreadType, InHand, HeadNewest, EditsHeld, At, HasHead, vars

(* Every step of a lone worker keeps the head loadable.                    *)
LEMMA HeadStepInv == ASSUME Alone PROVE HeadInv /\ [Next]_vars => HeadInv'
<1> SUFFICES ASSUME HeadInv, [Next]_vars PROVE HeadInv'
    OBVIOUS
<1>1. ASSUME NEW w \in Worker,
             invoke_thread(w) \/ resume_thread(w) \/ run_node(w) \/ stop(w)
      PROVE  HeadInv'
      BY <1>1, RunHead
<1>2. ASSUME NEW w \in Worker, interrupt(w) PROVE HeadInv'
      BY <1>2, RunHead, InterruptHead DEF interrupt, HeadInv, ThreadType, InHand
<1>3. ASSUME NEW w \in Worker, NEW clears \in BOOLEAN, finish_resume(w, clears) PROVE HeadInv'
      BY <1>3, RunHead, ClearHead
<1>4. ASSUME NEW w \in Worker, clear(w) PROVE HeadInv'
      BY <1>4, ClearHead
<1>5. ASSUME NEW w \in Worker, finish_invoke(w) PROVE HeadInv'
      BY <1>5, FinishHead
<1>6. ASSUME NEW w \in Worker, NEW edit \in Edit, update_state(w, edit) PROVE HeadInv'
      BY <1>6, UpdateHead
<1>7. ASSUME NEW w \in Worker, save_commit(w) \/ retention_select(w) \/ retention_delete(w)
      PROVE  HeadInv'
      BY <1>7, CommitHead, SelectHead, DeleteHead
<1> QED
    BY <1>1, <1>2, <1>3, <1>4, <1>5, <1>6, <1>7, StutterHead DEF Next

(* Wherever the worker stops, in a run, in a save or between the two       *)
(* transactions of a save, the head of the thread can be loaded, for any   *)
(* number of saves and any retention limit above zero.                     *)
THEOREM HeadLoads == ASSUME Alone PROVE Spec => []HeadResolves
<1>1. HeadInv => HeadResolves
      BY DEF HeadInv, HeadNewest, HeadResolves
<1> QED
    BY HeadInitInv, HeadStepInv, <1>1, PTL DEF Spec

(* An edit that update_state returned from is in every state that is       *)
(* resumed after it, until the thread is cleared or invoked again.         *)
THEOREM EditsResumed == ASSUME Alone PROVE Spec => []EditsKept
<1>1. HeadInv => EditsKept
      BY DEF HeadInv, EditsHeld, EditsKept, At
<1> QED
    BY HeadInitInv, HeadStepInv, <1>1, PTL DEF Spec

-----------------------------------------------------------------------------
(* The question a caller was shown is the one the head holds.              *)
LEMMA QuestionStep ==
    ASSUME Alone, AsksOnce, AnswerInv, [Next]_vars
    PROVE  QuestionHeld'
<1> USE ThreadAssumption DEF AnswerInv, HeadInv, ThreadType, InHand, QuestionHeld, Asks, RanOnce, At, HasHead, Idle
<1>1. ASSUME NEW w \in Worker, invoke_thread(w) PROVE QuestionHeld'
      BY <1>1 DEF invoke_thread, Running, NoRuns, Alone
<1>2. ASSUME NEW w \in Worker, resume_thread(w) PROVE QuestionHeld'
  <2>1. rows[head] \in Ckpt /\ rows[head].interrupt = TRUE
        BY <1>2 DEF resume_thread, Ckpt
  <2> QED
      BY <1>2, <2>1 DEF resume_thread, Running, Alone, AsksOnce, Ckpt
<1>3. ASSUME NEW w \in Worker, run_node(w) PROVE QuestionHeld'
      BY <1>3 DEF run_node, RanAgain, NextNode, Alone
<1>4. ASSUME NEW w \in Worker, stop(w) PROVE QuestionHeld'
      BY <1>4 DEF stop
<1>5. ASSUME NEW w \in Worker, interrupt(w) PROVE QuestionHeld'
      BY <1>5 DEF interrupt, RanAgain, NextNode, Saving, Checkpoint, Alone
<1>6. ASSUME NEW w \in Worker, NEW clears \in BOOLEAN, finish_resume(w, clears)
      PROVE  QuestionHeld'
      BY <1>6 DEF finish_resume, Cleared, Alone
<1>7. ASSUME NEW w \in Worker, clear(w) PROVE QuestionHeld'
      BY <1>7 DEF clear, Cleared, Alone
<1>8. ASSUME NEW w \in Worker, finish_invoke(w) PROVE QuestionHeld'
      BY <1>8 DEF finish_invoke, Saving, Checkpoint, Alone
<1>9. ASSUME NEW w \in Worker, NEW edit \in Edit, update_state(w, edit) PROVE QuestionHeld'
      BY <1>9 DEF update_state, Saving, Ckpt, Alone
<1>10. ASSUME NEW w \in Worker, save_commit(w) PROVE QuestionHeld'
      BY <1>10, CommitHead DEF save_commit, Alone
<1>11. ASSUME NEW w \in Worker, retention_select(w) PROVE QuestionHeld'
      BY <1>11 DEF retention_select, Alone
<1>12. ASSUME NEW w \in Worker, retention_delete(w) PROVE QuestionHeld'
  <2>1. /\ HasHead' /\ rows'[head'] = rows[head] /\ head' = head
        /\ \A i \in DOMAIN rows' : i \in DOMAIN rows /\ rows'[i] = rows[i]
        BY <1>12, DeleteHead DEF retention_delete
  <2>2. worker[w].then \in Interrupting =>
            Asks(rows[head], worker[w].then) /\ RanOnce(worker[w].then)
        BY <1>12 DEF retention_delete
  <2> QED
      BY <1>12, <2>1, <2>2 DEF retention_delete, Alone
<1>13. CASE UNCHANGED vars
      BY <1>13 DEF vars
<1> HIDE DEF AnswerInv, HeadInv, ThreadType, InHand, QuestionHeld, Asks, RanOnce, At, HasHead, Idle
<1> QED
    BY <1>1, <1>2, <1>3, <1>4, <1>5, <1>6, <1>7, <1>8, <1>9, <1>10, <1>11, <1>12, <1>13 DEF Next

(* Every step of a lone worker that asks once keeps its question           *)
(* answerable.                                                             *)
LEMMA AnswerStepInv == ASSUME Alone, AsksOnce PROVE AnswerInv /\ [Next]_vars => AnswerInv'
BY HeadStepInv, QuestionStep DEF AnswerInv

(* An interrupt that a caller was shown can be answered: the head is the   *)
(* checkpoint of the node that asked, whatever edits were made and         *)
(* wherever the worker stopped meanwhile.                                  *)
THEOREM QuestionsAnswerable == ASSUME Alone, AsksOnce PROVE Spec => []ThreadResumable
<1>1. Init => AnswerInv
      BY HeadInitInv, AnswerInitInv DEF AnswerInv
<1>2. AnswerInv => ThreadResumable
      BY DEF AnswerInv, HeadInv, HeadNewest, QuestionHeld, Asks, ThreadResumable, HeadResolves, Answerable
<1> QED
    BY <1>1, AnswerStepInv, <1>2, PTL DEF Spec

(* While the question stands, every node up to the one that asked has run  *)
(* exactly once in this invocation.                                        *)
THEOREM NothingRepeated == ASSUME Alone, AsksOnce PROVE Spec => []SavedNotRepeated
<1>1. Init => AnswerInv
      BY HeadInitInv, AnswerInitInv DEF AnswerInv
<1>2. AnswerInv => SavedNotRepeated
      BY DEF AnswerInv, QuestionHeld, Asks, RanOnce, SavedNotRepeated
<1> QED
    BY <1>1, AnswerStepInv, <1>2, PTL DEF Spec
=============================================================================
