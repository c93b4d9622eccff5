------------------------- MODULE GraphRuntimeProofs -------------------------
(***************************************************************************)
(* The graph runtime.  A run of the executor conserves its work and is     *)
(* told exactly by its log, for every plan and through any number of       *)
(* interrupts and resumes; custom streams that nest stay apart; the        *)
(* ordered maps are exact, for any number of streams, inputs and workers,  *)
(* whatever the order in which tasks run, calls return or fail, and        *)
(* cancellation arrives.                                                   *)
(***************************************************************************)
EXTENDS GraphExecutor, StreamSink, OrderedMap, SequenceTheorems, FiniteSetTheorems, TLAPS

-----------------------------------------------------------------------------
(* The graph executor: what holds of one context. *)

(* What a queue may hold: targets of the plan, and whatever an action names. *)
Item == Endpoint \cup {ChildNode} \cup UNION {Range(targets) : targets \in Goto}

EventKind == {"start", "complete", "node-start", "node-end", "interrupt", "resume"}
EventType == [kind : EventKind, node : Item \cup {NoNode}, step : Nat, merged : BOOLEAN]

Context ==
    [state : Seq(Nat), pending : Seq(Item), trace : Seq(Item), events : Seq(EventType),
     step : Nat, queued : Seq(Item)]

(* LogTellsRun, StateFromLog and WorkConserved of one context.             *)
LogHeld(c) ==
    /\ c.step = Len(c.trace) /\ c.step <= step_limit /\ c.step = Cardinality(Opened(c))
    /\ \A i \in Opened(c) :
           /\ c.events[i].step = Rank(Opened(c), i)
           /\ c.events[i].node = c.trace[c.events[i].step]
    /\ \A i \in Log(c) :
           IF Opens(c.events[i])
           THEN \A j \in Before(c, i) : Closes(c.events[j])
           ELSE \E j \in Before(c, i) :
                    /\ c.events[j].step = c.events[i].step
                    /\ c.events[j].node = c.events[i].node
                    /\ c.events[j].kind =
                           IF c.events[i].kind = "resume" THEN "interrupt" ELSE "node-start"

StateHeld(c) ==
    /\ Len(c.state) = Cardinality(Merges(c))
    /\ \A i \in Merges(c) : c.state[Rank(Merges(c), i)] = c.events[i].step
    /\ \A j, k \in DOMAIN c.state : j < k => c.state[j] < c.state[k]

WorkHeld(c) ==
    OfThePlan(c) =>
        /\ Len(c.pending) <= Len(c.queued)
        /\ \A i \in 1..Len(c.pending) : c.pending[i] = c.queued[Drained(c) + i]
        /\ Len(c.trace) = Cardinality(Ran(c))
        /\ \A i \in Ran(c) : c.trace[Rank(Ran(c), i)] = c.queued[i]

Whole(c) == LogHeld(c) /\ StateHeld(c) /\ WorkHeld(c)

(* The last event of a node.                                               *)
LastLog(c, k) == k \in Log(c) /\ \A j \in Log(c) : j <= k

(* Between nodes the last one is closed, and no update is of a later step. *)
ClosedAt(c) ==
    /\ \A k \in Log(c) : LastLog(c, k) => Closes(c.events[k])
    /\ \A j \in DOMAIN c.state : c.state[j] <= c.step

(* In a node, running or interrupted, the last event is of this node and   *)
(* step, whose update is not merged yet.                                   *)
InNode(c, kind, node) ==
    /\ \E k \in Log(c) :
           /\ LastLog(c, k) /\ c.events[k].kind = kind
           /\ c.events[k].node = node /\ c.events[k].step = c.step
    /\ \A j \in DOMAIN c.state : c.state[j] < c.step

GraphInv ==
    /\ status \in {"idle", "ready", "acting", "interrupted", "failed", "complete"}
    /\ status # "failed" => context \in Context /\ Whole(context)
    /\ status \in {"idle", "ready", "complete"} => ClosedAt(context)
    /\ status = "acting" =>
           /\ context.trace # <<>> /\ CurrentNode \in Node
           /\ InNode(context, "node-start", CurrentNode)
    /\ \A i \in raised :
           /\ i.context \in Context /\ Whole(i.context)
           /\ i.node \in Item /\ InNode(i.context, "interrupt", i.node)

-----------------------------------------------------------------------------
(* Positions. *)

(* One more position, behind the others, has the next rank and leaves      *)
(* those of the others.                                                    *)
LEMMA RankNext ==
    ASSUME NEW n \in Nat, NEW I, I \subseteq 1..n
    PROVE  /\ IsFiniteSet(I) /\ Cardinality(I) \in Nat
           /\ \A i \in I : Rank(I, i) \in 1..Cardinality(I)
           /\ Cardinality(I \cup {n + 1}) = Cardinality(I) + 1
           /\ Rank(I \cup {n + 1}, n + 1) = Cardinality(I) + 1
           /\ \A i \in I : Rank(I \cup {n + 1}, i) = Rank(I, i)
<1>1. IsFiniteSet(1..n)
      BY FS_Interval
<1>2. IsFiniteSet(I) /\ Cardinality(I) \in Nat
      BY <1>1, FS_Subset, FS_CardinalityType
<1>3. n + 1 \notin I
      OBVIOUS
<1>4. Cardinality(I \cup {n + 1}) = Cardinality(I) + 1
      BY <1>2, <1>3, FS_AddElement
<1>5. {j \in I \cup {n + 1} : j <= n + 1} = I \cup {n + 1}
  <2>1. \A j \in I : j <= n + 1
        OBVIOUS
  <2>2. n + 1 <= n + 1
        OBVIOUS
  <2> QED
      BY <2>1, <2>2
<1>6. \A i \in I : {j \in I \cup {n + 1} : j <= i} = {j \in I : j <= i}
      OBVIOUS
<1>7. ASSUME NEW i \in I PROVE Rank(I, i) \in 1..Cardinality(I)
  <2> DEFINE J == {j \in I : j <= i}
  <2>1. J \subseteq I /\ i \in J
        OBVIOUS
  <2>2. IsFiniteSet(J) /\ Cardinality(J) <= Cardinality(I) /\ Cardinality(J) \in Nat
        BY <1>2, <2>1, FS_Subset, FS_CardinalityType
  <2>3. Cardinality(J) # 0
        BY <2>1, <2>2, FS_EmptySet
  <2> QED
      BY <1>2, <2>2, <2>3 DEF Rank
<1> QED
    BY <1>2, <1>4, <1>5, <1>6, <1>7 DEF Rank

-----------------------------------------------------------------------------
(* Events. *)

(* What one more event changes of the positions of events.                 *)
LEMMA EventAdded ==
    ASSUME NEW c \in Context, NEW d \in Context, NEW e \in EventType, d.events = Append(c.events, e)
    PROVE  /\ Len(c.events) \in Nat /\ DOMAIN d.events = 1..(Len(c.events) + 1)
           /\ DOMAIN c.events = 1..Len(c.events)
           /\ d.events[Len(c.events) + 1] = e
           /\ \A i \in 1..Len(c.events) : d.events[i] = c.events[i]
<1>1. c.events \in Seq(EventType)
      BY DEF Context
<1> QED
    BY <1>1

(* What one more event changes of the places of events in the log.         *)
LEMMA Positions ==
    ASSUME NEW c \in Context, NEW d \in Context, NEW e \in EventType, d.events = Append(c.events, e)
    PROVE  /\ Opened(c) \subseteq 1..Len(c.events) /\ Log(c) \subseteq 1..Len(c.events)
           /\ Opened(d) = IF Opens(e) THEN Opened(c) \cup {Len(c.events) + 1} ELSE Opened(c)
           /\ Log(d) = IF OfNodes(e) THEN Log(c) \cup {Len(c.events) + 1} ELSE Log(c)
           /\ \A i \in Log(c) : Before(d, i) = Before(c, i)
           /\ OfNodes(e) => Before(d, Len(c.events) + 1) = {k \in Log(c) : LastLog(c, k)}
<1> DEFINE n == Len(c.events)
<1>1. /\ n \in Nat /\ DOMAIN d.events = 1..(n + 1) /\ DOMAIN c.events = 1..n
      /\ d.events[n + 1] = e /\ \A i \in 1..n : d.events[i] = c.events[i]
      BY EventAdded
<1> HIDE DEF n
<1>2. Opened(c) \subseteq 1..n /\ Log(c) \subseteq 1..n
      BY <1>1 DEF Opened, Log
<1>3. Opened(d) = IF Opens(e) THEN Opened(c) \cup {n + 1} ELSE Opened(c)
  <2>1. \A i \in 1..(n + 1) : i \in 1..n \/ i = n + 1
        BY <1>1
  <2>2. n + 1 \notin 1..n /\ \A i \in 1..n : i \in 1..(n + 1)
        BY <1>1
  <2>3. n + 1 \in 1..(n + 1)
        BY <1>1
  <2> QED
      BY <1>1, <2>1, <2>2, <2>3 DEF Opened
<1>4. Log(d) = IF OfNodes(e) THEN Log(c) \cup {n + 1} ELSE Log(c)
  <2>1. \A i \in 1..(n + 1) : i \in 1..n \/ i = n + 1
        BY <1>1
  <2>2. n + 1 \notin 1..n /\ \A i \in 1..n : i \in 1..(n + 1)
        BY <1>1
  <2>3. n + 1 \in 1..(n + 1)
        BY <1>1
  <2> QED
      BY <1>1, <2>1, <2>2, <2>3 DEF Log
<1>5. \A i \in Log(c) : Before(d, i) = Before(c, i)
      BY <1>1, <1>2, <1>4 DEF Before
<1>6. OfNodes(e) => Before(d, n + 1) = {k \in Log(c) : LastLog(c, k)}
      BY <1>1, <1>2, <1>4 DEF Before, LastLog
<1> QED
    BY <1>2, <1>3, <1>4, <1>5, <1>6 DEF n

(* An event that starts no node follows in the log of a run that goes on.  *)
LEMMA LogGoesOn ==
    ASSUME NEW c \in Context, NEW d \in Context, NEW e \in EventType, d.events = Append(c.events, e),
           LogHeld(c), d.step = c.step, d.trace = c.trace, ~Opens(e),
           OfNodes(e) =>
               \E k \in Log(c) :
                   /\ LastLog(c, k) /\ c.events[k].step = e.step /\ c.events[k].node = e.node
                   /\ c.events[k].kind = IF e.kind = "resume" THEN "interrupt" ELSE "node-start"
    PROVE  LogHeld(d)
<1> DEFINE n == Len(c.events)
<1>1. /\ n \in Nat /\ d.events[n + 1] = e /\ \A i \in 1..n : d.events[i] = c.events[i]
      BY EventAdded
<1>2. /\ Opened(c) \subseteq 1..n /\ Log(c) \subseteq 1..n /\ Opened(d) = Opened(c)
      /\ Log(d) = IF OfNodes(e) THEN Log(c) \cup {n + 1} ELSE Log(c)
      /\ \A i \in Log(c) : Before(d, i) = Before(c, i)
      /\ OfNodes(e) => Before(d, n + 1) = {k \in Log(c) : LastLog(c, k)}
      BY Positions
<1> HIDE DEF n
<1>3. \A i \in Opened(d) :
          d.events[i].step = Rank(Opened(d), i) /\ d.events[i].node = d.trace[d.events[i].step]
      BY <1>1, <1>2 DEF LogHeld
<1>4. ASSUME NEW i \in Log(d)
      PROVE  IF Opens(d.events[i])
             THEN \A j \in Before(d, i) : Closes(d.events[j])
             ELSE \E j \in Before(d, i) :
                      /\ d.events[j].step = d.events[i].step
                      /\ d.events[j].node = d.events[i].node
                      /\ d.events[j].kind =
                             IF d.events[i].kind = "resume" THEN "interrupt" ELSE "node-start"
  <2>1. CASE i \in Log(c)
    <3>1. d.events[i] = c.events[i] /\ Before(d, i) = Before(c, i)
          BY <1>1, <1>2, <2>1
    <3>2. \A j \in Before(c, i) : d.events[j] = c.events[j]
          BY <1>1, <1>2 DEF Before
    <3>3. IF Opens(c.events[i])
          THEN \A j \in Before(c, i) : Closes(c.events[j])
          ELSE \E j \in Before(c, i) :
                   /\ c.events[j].step = c.events[i].step
                   /\ c.events[j].node = c.events[i].node
                   /\ c.events[j].kind =
                          IF c.events[i].kind = "resume" THEN "interrupt" ELSE "node-start"
          BY <2>1 DEF LogHeld
    <3> QED
        BY <3>1, <3>2, <3>3
  <2>2. CASE i = n + 1 /\ OfNodes(e)
    <3>1. d.events[i] = e /\ Before(d, i) = {k \in Log(c) : LastLog(c, k)}
          BY <1>1, <1>2, <2>2
    <3>2. \A j \in Log(c) : d.events[j] = c.events[j]
          BY <1>1, <1>2
    <3> QED
        BY <2>2, <3>1, <3>2
  <2> QED
      BY <1>2, <2>1, <2>2
<1> QED
    BY <1>2, <1>3, <1>4 DEF LogHeld

(* A node starts after the one before was closed.                          *)
LEMMA LogOpens ==
    ASSUME NEW c \in Context, NEW d \in Context, NEW e \in EventType, d.events = Append(c.events, e),
           LogHeld(c), ClosedAt(c), Opens(e), e.step = c.step + 1, c.step + 1 <= step_limit,
           d.step = c.step + 1, d.trace = Append(c.trace, e.node), e.node \in Item
    PROVE  LogHeld(d)
<1> DEFINE n == Len(c.events)
           O == Opened(c)
<1>1. /\ n \in Nat /\ d.events[n + 1] = e /\ \A i \in 1..n : d.events[i] = c.events[i]
      BY EventAdded
<1>2. /\ OfNodes(e) /\ O \subseteq 1..n /\ Log(c) \subseteq 1..n /\ Opened(d) = O \cup {n + 1}
      /\ Log(d) = Log(c) \cup {n + 1}
      /\ \A i \in Log(c) : Before(d, i) = Before(c, i)
      /\ Before(d, n + 1) = {k \in Log(c) : LastLog(c, k)}
  <2>1. OfNodes(e)
        BY DEF Opens, OfNodes
  <2> QED
      BY <2>1, Positions
<1> HIDE DEF n
<1>3. /\ Cardinality(O) \in Nat /\ \A i \in O : Rank(O, i) \in 1..Cardinality(O)
      /\ Cardinality(O \cup {n + 1}) = Cardinality(O) + 1
      /\ Rank(O \cup {n + 1}, n + 1) = Cardinality(O) + 1
      /\ \A i \in O : Rank(O \cup {n + 1}, i) = Rank(O, i)
      BY <1>1, <1>2, RankNext
<1>4. c.step = Len(c.trace) /\ c.step = Cardinality(O) /\ c.step \in Nat
      /\ \A i \in O : c.events[i].step = Rank(O, i) /\ c.events[i].node = c.trace[c.events[i].step]
      BY DEF LogHeld, Context
<1> HIDE DEF O
<1>5. /\ Len(d.trace) = c.step + 1 /\ d.trace[c.step + 1] = e.node
      /\ \A k \in 1..c.step : d.trace[k] = c.trace[k]
  <2>1. c.trace \in Seq(Item)
        BY DEF Context
  <2>2. /\ Len(d.trace) = Len(c.trace) + 1
        /\ \A k \in 1..Len(c.trace) : d.trace[k] = c.trace[k]
        /\ d.trace[Len(c.trace) + 1] = e.node
        BY <2>1, AppendProperties
  <2> QED
      BY <1>4, <2>2
<1>6. ASSUME NEW i \in Opened(d)
      PROVE  d.events[i].step = Rank(Opened(d), i) /\ d.events[i].node = d.trace[d.events[i].step]
  <2>1. CASE i \in O
    <3>1. d.events[i] = c.events[i] /\ c.events[i].step \in 1..c.step
          BY <1>1, <1>2, <1>3, <1>4, <2>1
    <3> QED
        BY <1>2, <1>3, <1>4, <1>5, <2>1, <3>1
  <2>2. CASE i = n + 1
        BY <1>1, <1>2, <1>3, <1>4, <1>5, <2>2
  <2> QED
      BY <1>2, <2>1, <2>2
<1>7. ASSUME NEW i \in Log(d)
      PROVE  IF Opens(d.events[i])
             THEN \A j \in Before(d, i) : Closes(d.events[j])
             ELSE \E j \in Before(d, i) :
                      /\ d.events[j].step = d.events[i].step
                      /\ d.events[j].node = d.events[i].node
                      /\ d.events[j].kind =
                             IF d.events[i].kind = "resume" THEN "interrupt" ELSE "node-start"
  <2>1. CASE i \in Log(c)
    <3>1. d.events[i] = c.events[i] /\ Before(d, i) = Before(c, i)
          BY <1>1, <1>2, <2>1
    <3>2. \A j \in Before(c, i) : d.events[j] = c.events[j]
          BY <1>1, <1>2 DEF Before
    <3>3. IF Opens(c.events[i])
          THEN \A j \in Before(c, i) : Closes(c.events[j])
          ELSE \E j \in Before(c, i) :
                   /\ c.events[j].step = c.events[i].step
                   /\ c.events[j].node = c.events[i].node
                   /\ c.events[j].kind =
                          IF c.events[i].kind = "resume" THEN "interrupt" ELSE "node-start"
          BY <2>1 DEF LogHeld
    <3> QED
        BY <3>1, <3>2, <3>3
  <2>2. CASE i = n + 1
    <3>1. d.events[i] = e /\ Before(d, i) = {k \in Log(c) : LastLog(c, k)}
          BY <1>1, <1>2, <2>2
    <3>2. \A j \in Log(c) : d.events[j] = c.events[j]
          BY <1>1, <1>2
    <3> QED
        BY <3>1, <3>2 DEF ClosedAt
  <2> QED
      BY <1>2, <2>1, <2>2
<1>8. d.step = Len(d.trace) /\ d.step <= step_limit /\ d.step = Cardinality(Opened(d))
      BY <1>2, <1>3, <1>4, <1>5
<1> QED
    BY <1>6, <1>7, <1>8 DEF LogHeld
(* A closing event that reports an update comes with one more step in the  *)
(* state, any other leaves the state.                                      *)
LEMMA StateGoesOn ==
    ASSUME NEW c \in Context, NEW d \in Context, NEW e \in EventType, d.events = Append(c.events, e),
           StateHeld(c),
           e.merged => d.state = Append(c.state, e.step) /\ \A j \in DOMAIN c.state : c.state[j] < e.step,
           ~e.merged => d.state = c.state
    PROVE  StateHeld(d)
<1> DEFINE n == Len(c.events)
           M == Merges(c)
<1>1. /\ n \in Nat /\ d.events[n + 1] = e /\ \A i \in 1..n : d.events[i] = c.events[i]
      /\ DOMAIN d.events = 1..(n + 1) /\ DOMAIN c.events = 1..n
      BY EventAdded
<1>2. \A i : i \in 1..(n + 1) <=> i \in 1..n \/ i = n + 1
      BY <1>1
<1>3. n + 1 \notin 1..n
      BY <1>1
<1> HIDE DEF n
<1>4. M \subseteq 1..n
      BY <1>1 DEF Merges
<1>5. e.merged => Merges(d) = M \cup {n + 1}
      BY <1>1, <1>2, <1>3 DEF Merges
<1>6. ~e.merged => Merges(d) = M
      BY <1>1, <1>2, <1>3 DEF Merges
<1>7. /\ Len(c.state) = Cardinality(M) /\ \A i \in M : c.state[Rank(M, i)] = c.events[i].step
      /\ \A j, k \in DOMAIN c.state : j < k => c.state[j] < c.state[k]
      /\ c.state \in Seq(Nat)
      BY DEF StateHeld, Context
<1> HIDE DEF M
<1>8. CASE ~e.merged
  <2>1. \A i \in M : d.events[i] = c.events[i]
        BY <1>1, <1>4
  <2> QED
      BY <1>6, <1>7, <1>8, <2>1 DEF StateHeld
<1>9. CASE e.merged
  <2> DEFINE m == Len(c.state)
  <2>1. /\ d.state \in Seq(Nat) /\ Len(d.state) = m + 1 /\ m \in Nat
        /\ \A k \in 1..m : d.state[k] = c.state[k]
        /\ d.state[m + 1] = e.step
    <3>1. e.step \in Nat
          BY DEF EventType
    <3>2. d.state = Append(c.state, e.step)
          BY <1>9
    <3> QED
        BY <1>7, <3>1, <3>2, AppendProperties
  <2>2. DOMAIN c.state = 1..m /\ DOMAIN d.state = 1..(m + 1)
        BY <1>7, <2>1
  <2>3. /\ \A i \in M : Rank(M, i) \in 1..Cardinality(M)
        /\ Cardinality(M \cup {n + 1}) = Cardinality(M) + 1
        /\ Rank(M \cup {n + 1}, n + 1) = Cardinality(M) + 1
        /\ \A i \in M : Rank(M \cup {n + 1}, i) = Rank(M, i)
        BY <1>1, <1>4, RankNext
  <2>4. m = Cardinality(M)
        BY <1>7
  <2> HIDE DEF m
  <2>5. Merges(d) = M \cup {n + 1}
        BY <1>5, <1>9
  <2>6. ASSUME NEW i \in Merges(d) PROVE d.state[Rank(Merges(d), i)] = d.events[i].step
    <3>1. CASE i \in M
      <4>1. d.events[i] = c.events[i] /\ Rank(M, i) \in 1..m
            BY <1>1, <1>4, <2>3, <2>4, <3>1
      <4>2. Rank(Merges(d), i) = Rank(M, i) /\ c.state[Rank(M, i)] = c.events[i].step
            BY <1>7, <2>3, <2>5, <3>1
      <4>3. d.state[Rank(M, i)] = c.state[Rank(M, i)]
            BY <2>1, <4>1
      <4> QED
          BY <4>1, <4>2, <4>3
    <3>2. CASE i = n + 1
          BY <1>1, <2>1, <2>3, <2>4, <2>5, <3>2
    <3> QED
        BY <2>5, <3>1, <3>2
  <2>7. ASSUME NEW j \in DOMAIN d.state, NEW k \in DOMAIN d.state, j < k
        PROVE  d.state[j] < d.state[k]
    <3>1. j \in 1..m /\ (k \in 1..m \/ k = m + 1)
          BY <2>1, <2>2, <2>7
    <3> QED
        BY <1>7, <1>9, <2>1, <2>2, <2>7, <3>1
  <2> QED
      BY <2>1, <2>3, <2>4, <2>5, <2>6, <2>7 DEF StateHeld
<1> QED
    BY <1>8, <1>9

(* An event of the whole run changes nothing for the nodes.                *)
LEMMA StaysClosed ==
    ASSUME NEW c \in Context, NEW d \in Context, NEW e \in EventType, d.events = Append(c.events, e),
           ClosedAt(c), ~OfNodes(e), d.state = c.state, d.step = c.step
    PROVE  ClosedAt(d)
<1>1. /\ Log(d) = Log(c) /\ Log(c) \subseteq 1..Len(c.events)
      /\ \A i \in 1..Len(c.events) : d.events[i] = c.events[i]
      BY Positions, EventAdded
<1> QED
    BY <1>1 DEF ClosedAt, LastLog

Adds(c, d, e) == d.events = Append(c.events, e)

LastIs(d, e) ==
    /\ \E k \in Log(d) : LastLog(d, k) /\ d.events[k] = e
    /\ \A k \in Log(d) : LastLog(d, k) => d.events[k] = e

(* An event of a node is the last of the log once it is published.         *)
LEMMA IsLast ==
    ASSUME NEW c \in Context, NEW d \in Context, NEW e \in EventType, Adds(c, d, e), OfNodes(e)
    PROVE  LastIs(d, e)
<1>0. d.events = Append(c.events, e)
      BY DEF Adds
<1> DEFINE n == Len(c.events)
<1>1. n \in Nat /\ d.events[n + 1] = e
      BY <1>0, EventAdded
<1>2. Log(d) = Log(c) \cup {n + 1} /\ Log(c) \subseteq 1..n
      BY <1>0, Positions
<1> HIDE DEF n
<1>3. LastLog(d, n + 1)
      BY <1>1, <1>2 DEF LastLog
<1>4. \A k \in Log(d) : LastLog(d, k) => k = n + 1
      BY <1>1, <1>2 DEF LastLog
<1> QED
    BY <1>1, <1>3, <1>4 DEF LastIs, LastLog

-----------------------------------------------------------------------------
(* The queue. *)

(* A step that leaves queue and trace conserves the work.                  *)
LEMMA WorkSame ==
    ASSUME NEW c, NEW d, WorkHeld(c), d.pending = c.pending, d.queued = c.queued, d.trace = c.trace
    PROVE  WorkHeld(d)
<1>1. Drained(d) = Drained(c) /\ (OfThePlan(d) <=> OfThePlan(c))
      BY DEF Drained, OfThePlan
<1>2. Ran(d) = Ran(c)
      BY <1>1 DEF Ran
<1> QED
    BY <1>1, <1>2 DEF WorkHeld

(* What a node adds to the queue comes after what is pending.              *)
LEMMA WorkQueues ==
    ASSUME NEW c \in Context, NEW d \in Context, NEW targets \in Seq(Item), WorkHeld(c),
           d.pending = c.pending \o targets, d.queued = c.queued \o targets, d.trace = c.trace
    PROVE  WorkHeld(d)
<1> SUFFICES ASSUME OfThePlan(d)
             PROVE  /\ Len(d.pending) <= Len(d.queued)
                    /\ \A i \in 1..Len(d.pending) : d.pending[i] = d.queued[Drained(d) + i]
                    /\ Len(d.trace) = Cardinality(Ran(d))
                    /\ \A i \in Ran(d) : d.trace[Rank(Ran(d), i)] = d.queued[i]
    BY DEF WorkHeld
<1>1. OfThePlan(c)
      BY DEF OfThePlan
<1> DEFINE p == Len(c.pending)
           q == Len(c.queued)
           t == Len(targets)
<1>2. /\ p <= q /\ \A i \in 1..p : c.pending[i] = c.queued[Drained(c) + i]
      /\ Len(c.trace) = Cardinality(Ran(c)) /\ \A i \in Ran(c) : c.trace[Rank(Ran(c), i)] = c.queued[i]
      BY <1>1 DEF WorkHeld
<1>3. c.pending \in Seq(Item) /\ c.queued \in Seq(Item) /\ p \in Nat /\ q \in Nat /\ t \in Nat
      BY DEF Context
<1>4. /\ Len(d.pending) = p + t
      /\ \A i \in 1..(p + t) : d.pending[i] = IF i <= p THEN c.pending[i] ELSE targets[i - p]
      BY <1>3, ConcatProperties
<1>5. /\ Len(d.queued) = q + t
      /\ \A i \in 1..(q + t) : d.queued[i] = IF i <= q THEN c.queued[i] ELSE targets[i - q]
      BY <1>3, ConcatProperties
<1>6. Drained(c) = q - p
      BY DEF Drained
<1> HIDE DEF p, q, t
<1>7. Drained(d) = q - p /\ q - p \in Nat /\ q - p <= q
      BY <1>2, <1>3, <1>4, <1>5 DEF Drained
<1>8. \A i \in 1..(q - p) : d.queued[i] = c.queued[i]
  <2> TAKE i \in 1..(q - p)
  <2>1. i \in 1..(q + t) /\ i <= q
        BY <1>3, <1>7
  <2> QED
      BY <1>5, <2>1
<1>9. Ran(d) = Ran(c) /\ Ran(c) \subseteq 1..(q - p)
      BY <1>6, <1>7, <1>8 DEF Ran
<1>10. ASSUME NEW i \in 1..Len(d.pending) PROVE d.pending[i] = d.queued[Drained(d) + i]
  <2>1. i \in 1..(p + t) /\ q - p + i \in 1..(q + t)
        BY <1>3, <1>4, <1>7
  <2>2. CASE i <= p
    <3>1. i \in 1..p /\ q - p + i <= q
          BY <1>3, <2>1, <2>2
    <3> QED
        BY <1>2, <1>4, <1>5, <1>6, <1>7, <2>1, <2>2, <3>1
  <2>3. CASE ~(i <= p)
    <3>1. ~(q - p + i <= q) /\ (q - p + i) - q = i - p
          BY <1>3, <2>1, <2>3
    <3> QED
        BY <1>4, <1>5, <1>7, <2>1, <2>3, <3>1
  <2> QED
      BY <2>2, <2>3
<1>11. Len(d.pending) <= Len(d.queued)
       BY <1>2, <1>3, <1>4, <1>5
<1> QED
    BY <1>2, <1>8, <1>9, <1>10, <1>11

(* The first of what is pending leaves the queue.                          *)
LEMMA QueueTail ==
    ASSUME NEW c \in Context, NEW d \in Context, c.pending # <<>>, OfThePlan(c), WorkHeld(c),
           d.pending = Tail(c.pending), d.queued = c.queued
    PROVE  /\ Len(d.pending) <= Len(d.queued)
           /\ \A i \in 1..Len(d.pending) : d.pending[i] = d.queued[Drained(d) + i]
           /\ Drained(c) \in Nat /\ Drained(d) = Drained(c) + 1
           /\ Head(c.pending) = c.queued[Drained(c) + 1]
           /\ Ran(c) \subseteq 1..Drained(c)
           /\ Ran(d) = IF Head(c.pending) = END THEN Ran(c) ELSE Ran(c) \cup {Drained(c) + 1}
<1> DEFINE p == Len(c.pending)
           q == Len(c.queued)
           x == Drained(c)
<1>1. c.pending \in Seq(Item) /\ c.queued \in Seq(Item)
      BY DEF Context
<1>2. p \in Nat \ {0} /\ q \in Nat /\ x = q - p
      BY <1>1 DEF Drained
<1>3. p <= q /\ \A i \in 1..p : c.pending[i] = c.queued[x + i]
      BY DEF WorkHeld
<1>4. /\ Len(d.pending) = p - 1 /\ Head(c.pending) = c.pending[1]
      /\ \A i \in 1..(p - 1) : d.pending[i] = c.pending[i + 1]
  <2>1. Tail(c.pending) = [i \in 1..(p - 1) |-> c.pending[i + 1]]
        BY <1>1, HeadTailProperties
  <2>2. Head(c.pending) = c.pending[1] /\ Len(Tail(c.pending)) = p - 1
        BY <1>1, HeadTailProperties
  <2> HIDE DEF p
  <2> QED
      BY <2>1, <2>2
<1>5. Drained(d) = q - (p - 1)
      BY <1>4 DEF Drained
<1> HIDE DEF p, q, x
<1>6. x \in Nat /\ Drained(d) = x + 1 /\ Len(d.pending) <= Len(d.queued)
      BY <1>2, <1>3, <1>4, <1>5 DEF q
<1>7. Head(c.pending) = c.queued[x + 1]
  <2>1. 1 \in 1..p
        BY <1>2
  <2> QED
      BY <1>3, <1>4, <2>1
<1>8. ASSUME NEW i \in 1..Len(d.pending) PROVE d.pending[i] = d.queued[Drained(d) + i]
  <2>1. i \in 1..(p - 1) /\ i + 1 \in 1..p /\ x + (i + 1) = (x + 1) + i
        BY <1>2, <1>4, <1>6
  <2> QED
      BY <1>3, <1>4, <1>6, <2>1
<1>9. Ran(c) \subseteq 1..x
      BY DEF Ran, x
<1>10. \A i : i \in 1..(x + 1) <=> i \in 1..x \/ i = x + 1
       BY <1>6
<1>11. Ran(d) = IF Head(c.pending) = END THEN Ran(c) ELSE Ran(c) \cup {x + 1}
  <2>1. Ran(d) = {i \in 1..(x + 1) : c.queued[i] # END}
        BY <1>6 DEF Ran
  <2>2. Ran(c) = {i \in 1..x : c.queued[i] # END}
        BY DEF Ran, x
  <2> QED
      BY <1>7, <1>10, <2>1, <2>2
<1> QED
    BY <1>6, <1>7, <1>8, <1>9, <1>11 DEF x

(* END leaves no trace.                                                    *)
LEMMA WorkSkips ==
    ASSUME NEW c \in Context, NEW d \in Context, c.pending # <<>>, Head(c.pending) = END, WorkHeld(c),
           d.pending = Tail(c.pending), d.queued = c.queued, d.trace = c.trace
    PROVE  WorkHeld(d)
<1> SUFFICES ASSUME OfThePlan(c) PROVE WorkHeld(d)
    BY DEF WorkHeld, OfThePlan
<1>1. /\ Len(d.pending) <= Len(d.queued) /\ Ran(d) = Ran(c)
      /\ \A i \in 1..Len(d.pending) : d.pending[i] = d.queued[Drained(d) + i]
      BY QueueTail
<1> QED
    BY <1>1 DEF WorkHeld

(* A node that starts is the next of the trace.                            *)
LEMMA WorkStarts ==
    ASSUME NEW c \in Context, NEW d \in Context, c.pending # <<>>, Head(c.pending) # END, WorkHeld(c),
           d.pending = Tail(c.pending), d.queued = c.queued,
           d.trace = Append(c.trace, Head(c.pending)), Head(c.pending) \in Item
    PROVE  WorkHeld(d)
<1> DEFINE h == Head(c.pending)
           R == Ran(c)
           x == Drained(c)
<1>1. c.trace \in Seq(Item) /\ Len(c.trace) \in Nat
      BY DEF Context
<1>2. /\ Len(d.trace) = Len(c.trace) + 1 /\ d.trace[Len(c.trace) + 1] = h
      /\ \A k \in 1..Len(c.trace) : d.trace[k] = c.trace[k]
      BY <1>1, AppendProperties
<1>3. OfThePlan(d) => OfThePlan(c)
  <2> SUFFICES ASSUME c.trace # <<>> PROVE Head(d.trace) = Head(c.trace) /\ d.trace # <<>>
      BY DEF OfThePlan
  <2>1. 1 \in 1..Len(c.trace)
        BY <1>1
  <2>2. d.trace \in Seq(Item) /\ d.trace # <<>>
        BY <1>1, AppendProperties
  <2>3. Head(d.trace) = d.trace[1] /\ Head(c.trace) = c.trace[1]
        BY <1>1, <2>2, HeadTailProperties
  <2> QED
      BY <1>2, <2>1, <2>2, <2>3
<1> SUFFICES ASSUME OfThePlan(c) PROVE WorkHeld(d)
    BY <1>3 DEF WorkHeld
<1>4. /\ Len(d.pending) <= Len(d.queued) /\ Ran(d) = R \cup {x + 1}
      /\ \A i \in 1..Len(d.pending) : d.pending[i] = d.queued[Drained(d) + i]
      /\ x \in Nat /\ R \subseteq 1..x /\ h = c.queued[x + 1]
      BY QueueTail
<1>5. Len(c.trace) = Cardinality(R) /\ \A i \in R : c.trace[Rank(R, i)] = c.queued[i]
      BY DEF WorkHeld
<1> HIDE DEF R, x, h
<1>6. /\ \A i \in R : Rank(R, i) \in 1..Cardinality(R)
      /\ Cardinality(R \cup {x + 1}) = Cardinality(R) + 1
      /\ Rank(R \cup {x + 1}, x + 1) = Cardinality(R) + 1
      /\ \A i \in R : Rank(R \cup {x + 1}, i) = Rank(R, i)
      BY <1>4, RankNext
<1>7. \A i \in Ran(d) : d.trace[Rank(Ran(d), i)] = d.queued[i]
      BY ZenonT(30), <1>2, <1>4, <1>5, <1>6
<1>8. Len(d.trace) = Cardinality(Ran(d))
      BY <1>2, <1>4, <1>5, <1>6
<1> QED
    BY <1>4, <1>7, <1>8 DEF WorkHeld

-----------------------------------------------------------------------------
(* Contexts. *)

(* All targets are items: those an action names, and those of the plan.    *)
LEMMA GotoTyped == Goto \subseteq Seq(Item) /\ Seq(Endpoint) \subseteq Seq(Item)
<1>1. ASSUME NEW g \in Goto PROVE g \in Seq(Item)
  <2>1. g \in Seq(Range(g)) /\ Range(g) \subseteq Item
        BY PlanAssumption DEF Item
  <2> QED
      BY <2>1
<1>2. Endpoint \subseteq Item
      BY DEF Item
<1> QED
    BY <1>1, <1>2

(* Whatever a node names or the plan gives it is a sequence of items.      *)
LEMMA TargetsTyped ==
    ASSUME NEW node, NEW r \in normalize_action_result, NEW targets \in next_targets(node, r)
    PROVE  targets \in Seq(Item)
<1>1. CASE r.controls_flow
  <2>1. targets = r.targets
        BY <1>1 DEF next_targets
  <2>2. r.targets \in Goto \cup {<<>>}
        BY DEF normalize_action_result
  <2>3. <<>> \in Seq(Item)
        OBVIOUS
  <2> QED
      BY <2>1, <2>2, <2>3, GotoTyped
<1>2. CASE ~r.controls_flow
  <2>1. PICK t \in ConditionalTargets(node) : targets = EdgesOf(node) \o t
        BY <1>2 DEF next_targets
  <2>2. EdgesOf(node) \in Seq(Endpoint)
        BY PlanAssumption DEF EdgesOf
  <2>3. t \in Seq(Endpoint)
    <3>1. <<>> \in Seq(Endpoint)
          OBVIOUS
    <3>2. ConditionalTargets(node) \subseteq Route \cup {<<>>}
          BY DEF ConditionalTargets
    <3> QED
        BY <3>1, <3>2, PlanAssumption
  <2>4. targets \in Seq(Endpoint)
        BY <2>1, <2>2, <2>3, ConcatProperties
  <2> QED
      BY <2>4, GotoTyped
<1> QED
    BY <1>1, <1>2

(* Every result has an update or has none.                                 *)
LEMMA UpdateTyped == ASSUME NEW r \in normalize_action_result PROVE r.update \in BOOLEAN
BY DEF normalize_action_result

(* publish and publish_start add one event and change nothing else.        *)
Published(c, e) == [c EXCEPT !.events = Append(c.events, e)]

(* A published event changes the events of the context and nothing else.   *)
LEMMA PublishIs ==
    ASSUME NEW c \in Context, NEW e \in EventType, NEW d, d = Published(c, e)
    PROVE  /\ d \in Context /\ d.state = c.state /\ d.pending = c.pending /\ d.trace = c.trace
           /\ d.step = c.step /\ d.queued = c.queued /\ d.events = Append(c.events, e)
<1>1. c.events \in Seq(EventType)
      BY DEF Context
<1>2. Append(c.events, e) \in Seq(EventType)
      BY <1>1, AppendProperties
<1> QED
    BY <1>2 DEF Context, Published

(* start and complete are about the whole run.                             *)
LEMMA RunEvent ==
    ASSUME NEW c \in Context, NEW d \in Context, NEW step \in Nat, NEW kind \in {"start", "complete"},
           NEW e, e = Event(kind, NoNode, step, FALSE), d.events = Append(c.events, e),
           d.state = c.state, d.pending = c.pending, d.trace = c.trace, d.step = c.step,
           d.queued = c.queued, Whole(c), ClosedAt(c)
    PROVE  Whole(d) /\ ClosedAt(d)
<1>1. e \in EventType /\ e.kind = kind
  <2>1. kind \in EventKind
        BY DEF EventKind
  <2> QED
      BY <2>1 DEF Event, EventType
<1>2. ~e.merged
      BY DEF Event
<1>3. ~Opens(e) /\ ~OfNodes(e)
      BY <1>1 DEF Opens, OfNodes
<1>4. d.events = Append(c.events, e)
      OBVIOUS
<1>5. LogHeld(d)
      BY <1>1, <1>3, <1>4, LogGoesOn DEF Whole
<1>6. StateHeld(d)
      BY <1>1, <1>2, <1>4, StateGoesOn DEF Whole
<1>7. WorkHeld(d)
      BY WorkSame DEF Whole
<1>8. ClosedAt(d)
      BY <1>1, <1>3, <1>4, StaysClosed
<1> QED
    BY <1>5, <1>6, <1>7, <1>8 DEF Whole

(* merge_state puts the current step behind those merged, or does nothing.  *)
LEMMA MergeIs ==
    ASSUME NEW c \in Context, NEW r \in normalize_action_result, NEW d, d = merge_state(c, r)
    PROVE  /\ d \in Context /\ d.pending = c.pending /\ d.trace = c.trace
           /\ d.step = c.step /\ d.queued = c.queued /\ d.events = c.events
           /\ r.update => d.state = Append(c.state, c.step)
           /\ ~r.update => d.state = c.state
<1>1. CASE ~r.update
      BY <1>1 DEF merge_state
<1>2. CASE r.update
  <2>1. c.state \in Seq(Nat) /\ c.step \in Nat
        BY DEF Context
  <2>2. Append(c.state, c.step) \in Seq(Nat)
        BY <2>1, AppendProperties
  <2>3. d = [c EXCEPT !.state = Append(c.state, c.step)]
        BY <1>2 DEF merge_state
  <2>4. d \in Context /\ d.pending = c.pending /\ d.trace = c.trace
           /\ d.step = c.step /\ d.queued = c.queued /\ d.events = c.events
           /\ d.state = Append(c.state, c.step)
        BY <2>2, <2>3 DEF Context
  <2> QED
      BY <1>2, <2>4
<1> QED
    BY <1>1, <1>2

(* What finish_node does: the successors go behind what was waiting, and   *)
(* one event tells whether an update was merged.                           *)
Queues(c, d, targets) ==
    /\ d.pending = c.pending \o targets /\ d.queued = c.queued \o targets
    /\ d.trace = c.trace /\ d.step = c.step

Reports(c, d, kind, node, e) ==
    /\ e \in EventType /\ d.events = Append(c.events, e)
    /\ e.kind = kind /\ e.node = node /\ e.step = c.step
    /\ e.merged => d.state = Append(c.state, c.step)
    /\ ~e.merged => d.state = c.state

(* finish_node queues the successors and reports the update that it merged. *)
LEMMA FinishIs ==
    ASSUME NEW c \in Context, NEW node \in Item, NEW r \in normalize_action_result,
           NEW targets \in Seq(Item), NEW kind \in {"node-end", "resume"}, NEW d,
           d = finish_node(c, node, r, targets, kind)
    PROVE  d \in Context /\ Queues(c, d, targets) /\ \E e : Reports(c, d, kind, node, e)
<1>0. PICK e : e = Event(kind, node, c.step, r.update)
      OBVIOUS
<1> DEFINE m == merge_state(c, r)
           f == [m EXCEPT !.pending = m.pending \o targets, !.queued = m.queued \o targets]
<1>1. /\ m \in Context /\ m.pending = c.pending /\ m.trace = c.trace
      /\ m.step = c.step /\ m.queued = c.queued /\ m.events = c.events
      /\ r.update => m.state = Append(c.state, c.step)
      /\ ~r.update => m.state = c.state
      BY MergeIs
<1> HIDE DEF m
<1>2. m.pending \o targets \in Seq(Item) /\ m.queued \o targets \in Seq(Item)
  <2>1. m.pending \in Seq(Item) /\ m.queued \in Seq(Item)
        BY <1>1 DEF Context
  <2> QED
      BY <2>1, ConcatProperties
<1>3. /\ f \in Context /\ f.pending = m.pending \o targets /\ f.queued = m.queued \o targets
      /\ f.trace = m.trace /\ f.step = m.step /\ f.events = m.events /\ f.state = m.state
      BY <1>1, <1>2 DEF Context
<1>4. d = Published(f, e)
  <2>1. d = publish(f, kind, node, r.update)
        BY DEF finish_node, m
  <2>2. f.step = c.step
        BY <1>1, <1>3
  <2> HIDE DEF f
  <2> QED
      BY <1>0, <2>1, <2>2 DEF publish, Published
<1> HIDE DEF f
<1>5. e \in EventType
  <2>1. r.update \in BOOLEAN /\ kind \in EventKind /\ c.step \in Nat
        BY UpdateTyped DEF EventKind, Context
  <2> QED
      BY <1>0, <2>1 DEF Event, EventType
<1>6. /\ d \in Context /\ d.state = f.state /\ d.pending = f.pending /\ d.trace = f.trace
      /\ d.step = f.step /\ d.queued = f.queued /\ d.events = Append(f.events, e)
      BY <1>3, <1>4, <1>5, PublishIs
<1>7. e.kind = kind /\ e.node = node /\ e.step = c.step
      BY <1>0 DEF Event
<1>8. e.merged <=> r.update
      BY <1>0 DEF Event
<1>9. (e.merged => d.state = Append(c.state, c.step)) /\ (~e.merged => d.state = c.state)
      BY <1>1, <1>3, <1>6, <1>8
<1>10. d.events = Append(c.events, e)
       BY <1>1, <1>3, <1>6
<1>11. /\ d.pending = c.pending \o targets /\ d.queued = c.queued \o targets
       /\ d.trace = c.trace /\ d.step = c.step
       BY <1>1, <1>3, <1>6
<1>12. Reports(c, d, kind, node, e)
       BY <1>5, <1>7, <1>9, <1>10 DEF Reports
<1>13. Queues(c, d, targets)
       BY <1>11 DEF Queues
<1> QED
    BY <1>6, <1>12, <1>13

(* A node that returns, or an interrupted one that is given its result, is *)
(* closed.                                                                 *)
LEMMA FinishWhole ==
    ASSUME NEW c \in Context, NEW node \in Item, NEW r \in normalize_action_result,
           NEW targets \in Seq(Item), NEW kind \in {"node-end", "resume"}, NEW d,
           d = finish_node(c, node, r, targets, kind), NEW was
    PROVE  Whole(c) /\ InNode(c, was, node) /\ was = (IF kind = "resume" THEN "interrupt" ELSE "node-start")
               => d \in Context /\ Whole(d) /\ ClosedAt(d)
<1>0. PICK e : d \in Context /\ Queues(c, d, targets) /\ Reports(c, d, kind, node, e)
      BY FinishIs
<1>1. /\ d \in Context /\ d.pending = c.pending \o targets /\ d.queued = c.queued \o targets
      /\ d.trace = c.trace /\ d.step = c.step
      BY <1>0 DEF Queues
<1>2. /\ e \in EventType /\ d.events = Append(c.events, e)
      /\ e.kind = kind /\ e.node = node /\ e.step = c.step
      /\ e.merged => d.state = Append(c.state, c.step)
      /\ ~e.merged => d.state = c.state
      BY <1>0 DEF Reports
<1> SUFFICES ASSUME Whole(c), InNode(c, was, node),
                    was = IF kind = "resume" THEN "interrupt" ELSE "node-start"
             PROVE  d \in Context /\ Whole(d) /\ ClosedAt(d)
    OBVIOUS
<1>3. d.events = Append(c.events, e)
      BY <1>2
<1>4. ~Opens(e) /\ OfNodes(e) /\ Closes(e)
      BY <1>2 DEF Opens, OfNodes, Closes
<1>5. \A j \in DOMAIN c.state : c.state[j] < c.step
      BY DEF InNode
<1>6. LogHeld(d)
  <2>1. \E k \in Log(c) :
            /\ LastLog(c, k) /\ c.events[k].step = e.step /\ c.events[k].node = e.node
            /\ c.events[k].kind = IF e.kind = "resume" THEN "interrupt" ELSE "node-start"
        BY <1>2 DEF InNode
  <2> QED
      BY <1>1, <1>2, <1>4, <2>1, LogGoesOn DEF Whole
<1>7. StateHeld(d)
  <2>1. e.merged => d.state = Append(c.state, e.step) /\ \A j \in DOMAIN c.state : c.state[j] < e.step
        BY <1>2, <1>5
  <2>2. ~e.merged => d.state = c.state
        BY <1>2
  <2> QED
      BY <1>1, <1>2, <2>1, <2>2, StateGoesOn DEF Whole
<1>8. WorkHeld(d)
      BY <1>1, WorkQueues DEF Whole
<1>9. ClosedAt(d)
  <2>1. \A k \in Log(d) : LastLog(d, k) => Closes(d.events[k])
    <3>1. Adds(c, d, e)
          BY <1>3 DEF Adds
    <3>2. LastIs(d, e)
          BY <1>1, <1>2, <1>4, <3>1, IsLast
    <3> QED
        BY <1>4, <3>2 DEF LastIs
  <2>2. \A j \in DOMAIN d.state : d.state[j] <= d.step
    <3>1. c.state \in Seq(Nat) /\ c.step \in Nat
          BY DEF Context
    <3>2. CASE ~e.merged
      <4>1. d.state = c.state
            BY <1>2, <3>2
      <4>2. \A j \in DOMAIN c.state : c.state[j] \in Nat
            BY <3>1
      <4> QED
          BY <1>1, <1>5, <3>1, <4>1, <4>2
    <3>3. CASE e.merged
      <4>1. d.state = Append(c.state, c.step)
            BY <1>2, <3>3
      <4>2. /\ Len(d.state) = Len(c.state) + 1 /\ d.state[Len(c.state) + 1] = c.step
            /\ \A k \in 1..Len(c.state) : d.state[k] = c.state[k]
            /\ d.state \in Seq(Nat)
            BY <3>1, <4>1, AppendProperties
      <4>3. \A k \in DOMAIN d.state : k \in DOMAIN c.state \/ k = Len(c.state) + 1
            BY <3>1, <4>2
      <4>4. \A k \in DOMAIN c.state : k \in 1..Len(c.state) /\ c.state[k] \in Nat
            BY <3>1
      <4>5. \A k \in DOMAIN c.state : d.state[k] < c.step /\ d.state[k] \in Nat
            BY <1>5, <4>2, <4>4
      <4>6. \A k \in DOMAIN d.state : d.state[k] \in Nat /\ (d.state[k] < c.step \/ d.state[k] = c.step)
            BY <3>1, <4>2, <4>3, <4>5
      <4>7. \A k \in DOMAIN d.state : d.state[k] <= c.step
            BY <3>1, <4>6
      <4> QED
          BY <1>1, <4>7
    <3> QED
        BY <3>2, <3>3
  <2> QED
      BY <2>1, <2>2 DEF ClosedAt
<1> QED
    BY <1>1, <1>6, <1>7, <1>8, <1>9 DEF Whole

(* A node that starts.                                                     *)
LEMMA StartWhole ==
    ASSUME context \in Context, Whole(context), ClosedAt(context), context.pending # <<>>,
           Head(context.pending) # END, ~(context.step + 1 > step_limit)
    PROVE  /\ Started \in Context /\ Whole(Started) /\ Started.trace # <<>>
           /\ Last(Started.trace) = Head(context.pending)
           /\ InNode(Started, "node-start", Head(context.pending))
<1> DEFINE c == context
           h == Head(c.pending)
           rest == Tail(c.pending)
           next == c.step + 1
           trace == Append(c.trace, h)
           f == [c EXCEPT !.pending = rest, !.step = next, !.trace = trace]
           e == Event("node-start", h, c.step + 1, FALSE)
           d == Started
<1>1. /\ c.pending \in Seq(Item) /\ c.trace \in Seq(Item) /\ c.step \in Nat
      /\ c.state \in Seq(Nat)
      BY DEF Context
<1>2. h \in Item /\ Tail(c.pending) \in Seq(Item)
      BY <1>1, HeadTailProperties
<1>3. /\ Append(c.trace, h) \in Seq(Item) /\ Append(c.trace, h) # <<>>
      /\ Len(Append(c.trace, h)) = Len(c.trace) + 1
      /\ Append(c.trace, h)[Len(c.trace) + 1] = h
  <2>1. c.trace \in Seq(Item) /\ h \in Item
        BY <1>1, <1>2
  <2> HIDE DEF c, h
  <2> QED
      BY <2>1, AppendProperties, ZenonT(30)
<1> HIDE DEF h
<1>4. /\ f \in Context /\ f.pending = Tail(c.pending) /\ f.step = c.step + 1
      /\ f.trace = Append(c.trace, h) /\ f.queued = c.queued /\ f.events = c.events
      /\ f.state = c.state
  <2>1. rest \in Seq(Item) /\ next \in Nat /\ trace \in Seq(Item) /\ c \in Context
        BY <1>1, <1>2, <1>3
  <2> HIDE DEF rest, next, trace, c
  <2>2. /\ f \in Context /\ f.pending = rest /\ f.step = next
        /\ f.trace = trace /\ f.queued = c.queued /\ f.events = c.events
        /\ f.state = c.state
        BY <2>1 DEF Context
  <2> HIDE DEF f
  <2> QED
      BY <2>2 DEF rest, next, trace, c
<1>5. d = Published(f, e)
  <2>1. d = publish(f, "node-start", h, FALSE)
        BY DEF Started, h
  <2> HIDE DEF f, d
  <2> QED
      BY <1>4, <2>1 DEF publish, Published
<1> HIDE DEF f, d
<1>6. /\ d \in Context /\ d.state = c.state /\ d.pending = Tail(c.pending) /\ d.queued = c.queued
      /\ d.trace = Append(c.trace, h) /\ d.step = c.step + 1
      /\ d.events = Append(c.events, e) /\ e \in EventType
  <2>1. e \in EventType
    <3>1. "node-start" \in EventKind /\ c.step + 1 \in Nat
          BY <1>1 DEF EventKind
    <3> QED
        BY <1>2, <3>1 DEF Event, EventType
  <2> HIDE DEF e
  <2> QED
      BY <1>4, <1>5, <2>1, PublishIs
<1>7. /\ e.kind = "node-start" /\ e.node = h /\ e.step = c.step + 1
      BY DEF Event
<1>8. ~e.merged
      BY DEF Event
<1> HIDE DEF e
<1>9. Opens(e) /\ OfNodes(e)
      BY <1>7 DEF Opens, OfNodes
<1>10. c.step + 1 <= step_limit
       BY <1>1, PlanAssumption
<1>11. LogHeld(d)
       BY <1>2, <1>6, <1>7, <1>9, <1>10, LogOpens DEF Whole
<1>12. StateHeld(d)
       BY <1>6, <1>8, StateGoesOn DEF Whole
<1>13. WorkHeld(d)
       BY <1>2, <1>6, WorkStarts DEF Whole, h
<1>14. InNode(d, "node-start", h)
  <2>0. Adds(c, d, e)
        BY <1>6 DEF Adds
  <2>1. LastIs(d, e)
        BY <1>6, <1>9, <2>0, IsLast
  <2>2. \A j \in DOMAIN d.state : d.state[j] < d.step
    <3>1. \A j \in DOMAIN c.state : c.state[j] <= c.step /\ c.state[j] \in Nat
          BY <1>1 DEF ClosedAt
    <3> QED
        BY <1>1, <1>6, <3>1
  <2> QED
      BY <1>6, <1>7, <2>1, <2>2 DEF InNode, LastIs
<1>15. d.trace # <<>> /\ Last(d.trace) = h
       BY <1>3, <1>6 DEF Last
<1> QED
    BY <1>6, <1>11, <1>12, <1>13, <1>14, <1>15 DEF Whole, d, h

(* A node that interrupts stays the last of the log.                       *)
LEMMA InterruptWhole ==
    ASSUME NEW c \in Context, NEW node \in Item, Whole(c), InNode(c, "node-start", node), NEW d,
           d = publish(c, "interrupt", node, FALSE)
    PROVE  d \in Context /\ Whole(d) /\ InNode(d, "interrupt", node)
<1>0. PICK e : e = Event("interrupt", node, c.step, FALSE)
      OBVIOUS
<1>1. e \in EventType
  <2>1. "interrupt" \in EventKind /\ c.step \in Nat
        BY DEF EventKind, Context
  <2> QED
      BY <1>0, <2>1 DEF Event, EventType
<1>2. e.kind = "interrupt" /\ e.node = node /\ e.step = c.step
      BY <1>0 DEF Event
<1>3. ~e.merged
      BY <1>0 DEF Event
<1>4. d = Published(c, e)
      BY <1>0 DEF publish, Published
<1>5. /\ d \in Context /\ d.state = c.state /\ d.pending = c.pending /\ d.trace = c.trace
      /\ d.step = c.step /\ d.queued = c.queued /\ d.events = Append(c.events, e)
      BY <1>1, <1>4, PublishIs
<1>6. ~Opens(e) /\ OfNodes(e)
      BY <1>2 DEF Opens, OfNodes
<1>7. LogHeld(d)
  <2>1. \E k \in Log(c) :
            /\ LastLog(c, k) /\ c.events[k].step = e.step /\ c.events[k].node = e.node
            /\ c.events[k].kind = IF e.kind = "resume" THEN "interrupt" ELSE "node-start"
        BY <1>2 DEF InNode
  <2> QED
      BY <1>1, <1>5, <1>6, <2>1, LogGoesOn DEF Whole
<1>8. StateHeld(d)
      BY <1>1, <1>3, <1>5, StateGoesOn DEF Whole
<1>9. WorkHeld(d)
      BY <1>5, WorkSame DEF Whole
<1>10. InNode(d, "interrupt", node)
  <2>0. Adds(c, d, e)
        BY <1>5 DEF Adds
  <2>1. LastIs(d, e)
        BY <1>1, <1>5, <1>6, <2>0, IsLast
  <2>2. \A j \in DOMAIN d.state : d.state[j] < d.step
        BY <1>5 DEF InNode
  <2> QED
      BY <1>2, <1>5, <2>1, <2>2 DEF InNode, LastIs
<1> QED
    BY <1>5, <1>7, <1>8, <1>9, <1>10 DEF Whole

(* The snapshot of a subgraph is a whole run of its own.                   *)
LEMMA ChildWhole ==
    ASSUME context \in Context, Whole(context), context.trace # <<>>
    PROVE  /\ ChildContext \in Context /\ Whole(ChildContext)
           /\ InNode(ChildContext, "interrupt", ChildNode)
<1> DEFINE d == ChildContext
           e1 == Event("start", NoNode, 0, FALSE)
           e2 == Event("node-start", ChildNode, 1, FALSE)
           e3 == Event("interrupt", ChildNode, 1, FALSE)
<1>1. /\ d.state = <<>> /\ d.pending = <<>> /\ d.trace = <<ChildNode>> /\ d.step = 1
      /\ d.events = <<e1, e2, e3>> /\ d.queued = context.queued
      BY DEF ChildContext
<1>2. e1 \in EventType /\ e2 \in EventType /\ e3 \in EventType
  <2>1. /\ "start" \in EventKind /\ "node-start" \in EventKind /\ "interrupt" \in EventKind
        /\ ChildNode \in Item /\ 0 \in Nat /\ 1 \in Nat
        BY DEF EventKind, Item
  <2> QED
      BY <2>1 DEF Event, EventType
<1>3. d \in Context
  <2>1. /\ context.queued \in Seq(Item) /\ ChildNode \in Item
        BY DEF Context, Item
  <2> HIDE DEF e1, e2, e3
  <2>2. <<e1, e2, e3>> \in Seq(EventType)
        BY <1>2
  <2>3. d = [state |-> <<>>, pending |-> <<>>, trace |-> <<ChildNode>>, step |-> 1,
             events |-> <<e1, e2, e3>>, queued |-> context.queued]
        BY DEF ChildContext, e1, e2, e3
  <2> HIDE DEF d
  <2> QED
      BY <2>1, <2>2, <2>3 DEF Context
<1> HIDE DEF d
<1>4. /\ DOMAIN d.events = 1..3 /\ d.events[1] = e1 /\ d.events[2] = e2 /\ d.events[3] = e3
      BY <1>1
<1>5. /\ e1.kind = "start" /\ e2.kind = "node-start" /\ e3.kind = "interrupt"
      /\ e2.node = ChildNode /\ e3.node = ChildNode /\ e2.step = 1 /\ e3.step = 1
      BY DEF Event
<1>6. ~e1.merged /\ ~e2.merged /\ ~e3.merged
      BY DEF Event
<1> HIDE DEF e1, e2, e3
<1>7. \A i \in 1..3 : i = 1 \/ i = 2 \/ i = 3
      OBVIOUS
<1>8. Opened(d) = {2} /\ Log(d) = {2, 3}
      BY <1>4, <1>5, <1>7 DEF Opened, Log, Opens, OfNodes
<1>9. Merges(d) = {}
      BY <1>4, <1>6, <1>7 DEF Merges
<1>10. Cardinality({2}) = 1 /\ Rank({2}, 2) = 1
  <2>1. {j \in {2} : j <= 2} = {2}
        OBVIOUS
  <2> QED
      BY <2>1, FS_Singleton DEF Rank
<1>11. Before(d, 2) = {} /\ Before(d, 3) = {2}
       BY <1>8 DEF Before
<1>12. 1 <= step_limit
  <2>1. context.step = Len(context.trace) /\ context.step <= step_limit /\ context.trace \in Seq(Item)
        BY DEF Whole, LogHeld, Context
  <2>2. Len(context.trace) # 0 /\ Len(context.trace) \in Nat
        BY <2>1
  <2> QED
      BY <2>1, <2>2, PlanAssumption
<1>13. LogHeld(d)
  <2>1. d.step = Len(d.trace) /\ d.step <= step_limit /\ d.step = Cardinality(Opened(d))
        BY <1>1, <1>8, <1>10, <1>12
  <2>2. \A i \in Opened(d) :
            d.events[i].step = Rank(Opened(d), i) /\ d.events[i].node = d.trace[d.events[i].step]
        BY <1>1, <1>4, <1>5, <1>8, <1>10
  <2>3. \A i \in Log(d) :
            IF Opens(d.events[i])
            THEN \A j \in Before(d, i) : Closes(d.events[j])
            ELSE \E j \in Before(d, i) :
                     /\ d.events[j].step = d.events[i].step
                     /\ d.events[j].node = d.events[i].node
                     /\ d.events[j].kind =
                            IF d.events[i].kind = "resume" THEN "interrupt" ELSE "node-start"
        BY <1>4, <1>5, <1>8, <1>11 DEF Opens
  <2> QED
      BY <2>1, <2>2, <2>3 DEF LogHeld
<1>14. StateHeld(d)
       BY <1>1, <1>9, FS_EmptySet DEF StateHeld
<1>15. WorkHeld(d)
       BY <1>1 DEF WorkHeld, OfThePlan
<1>16. InNode(d, "interrupt", ChildNode)
       BY <1>1, <1>4, <1>5, <1>8 DEF InNode, LastLog
<1> QED
    BY <1>3, <1>13, <1>14, <1>15, <1>16 DEF Whole, d

(* A run that was not started yet.                                         *)
LEMMA InitialWhole == from_initial \in Context /\ Whole(from_initial) /\ ClosedAt(from_initial)
<1> DEFINE d == from_initial
<1>1. /\ d.state = <<>> /\ d.pending = Edge[START] /\ d.trace = <<>> /\ d.step = 0
      /\ d.events = <<>> /\ d.queued = Edge[START]
      BY DEF from_initial
<1>2. Edge[START] \in Seq(Item)
      BY PlanAssumption, GotoTyped
<1>3. d \in Context
      BY <1>2 DEF Context, from_initial
<1> HIDE DEF d
<1>4. Opened(d) = {} /\ Log(d) = {} /\ Merges(d) = {}
      BY <1>1 DEF Opened, Log, Merges
<1>5. LogHeld(d)
  <2>1. 0 <= step_limit
        BY PlanAssumption
  <2> QED
      BY <1>1, <1>4, <2>1, FS_EmptySet DEF LogHeld
<1>6. StateHeld(d)
      BY <1>1, <1>4, FS_EmptySet DEF StateHeld
<1>7. WorkHeld(d)
  <2>1. Len(Edge[START]) \in Nat
        BY <1>2
  <2>2. Drained(d) = 0
        BY <1>1, <2>1 DEF Drained
  <2>3. Ran(d) = {}
        BY <2>2 DEF Ran
  <2>4. \A i \in 1..Len(d.pending) : d.pending[i] = d.queued[Drained(d) + i]
        BY <1>1, <2>1, <2>2
  <2>5. Len(d.pending) <= Len(d.queued)
        BY <1>1, <2>1
  <2> QED
      BY <1>1, <2>3, <2>4, <2>5, FS_EmptySet DEF WorkHeld
<1>8. ClosedAt(d)
      BY <1>1, <1>4 DEF ClosedAt
<1> QED
    BY <1>3, <1>5, <1>6, <1>7, <1>8 DEF Whole, d

(* The events of the whole run: start and complete.                        *)
LEMMA RunEventWhole ==
    ASSUME NEW c \in Context, Whole(c), ClosedAt(c), NEW d,
           d = publish_start(c) \/ d = publish(c, "complete", NoNode, FALSE)
    PROVE  d \in Context /\ Whole(d) /\ ClosedAt(d)
<1>1. ASSUME NEW kind \in {"start", "complete"}, NEW step \in Nat,
             d = Published(c, Event(kind, NoNode, step, FALSE))
      PROVE  d \in Context /\ Whole(d) /\ ClosedAt(d)
  <2>1. PICK e : e = Event(kind, NoNode, step, FALSE)
        OBVIOUS
  <2>2. e \in EventType
    <3>1. kind \in EventKind
          BY DEF EventKind
    <3> QED
        BY <2>1, <3>1 DEF Event, EventType
  <2>3. /\ d \in Context /\ d.state = c.state /\ d.pending = c.pending /\ d.trace = c.trace
        /\ d.step = c.step /\ d.queued = c.queued /\ d.events = Append(c.events, e)
    <3>1. d = Published(c, e)
          BY <1>1, <2>1
    <3> QED
        BY <2>2, <3>1, PublishIs, ZenonT(30)
  <2> QED
      BY <2>1, <2>3, RunEvent
<1>2. CASE d = publish_start(c)
      BY <1>1, <1>2 DEF publish_start, Published
<1>3. CASE d = publish(c, "complete", NoNode, FALSE)
  <2>1. c.step \in Nat
        BY DEF Context
  <2>2. d = Published(c, Event("complete", NoNode, c.step, FALSE))
        BY <1>3 DEF publish, Published
  <2> QED
      BY <1>1, <2>1, <2>2
<1> QED
    BY <1>2, <1>3

(* END is dropped from the queue.                                          *)
LEMMA SkipWhole ==
    ASSUME NEW c \in Context, Whole(c), ClosedAt(c), c.pending # <<>>, Head(c.pending) = END,
           NEW d, d = [c EXCEPT !.pending = Tail(@)]
    PROVE  d \in Context /\ Whole(d) /\ ClosedAt(d)
<1>1. c.pending \in Seq(Item)
      BY DEF Context
<1>2. PICK rest \in Seq(Item) : rest = Tail(c.pending)
      BY <1>1, HeadTailProperties
<1>3. d = [c EXCEPT !.pending = rest]
      BY <1>2
<1>4. /\ d \in Context /\ d.pending = rest /\ d.state = c.state /\ d.trace = c.trace
      /\ d.step = c.step /\ d.queued = c.queued /\ d.events = c.events
      BY <1>3 DEF Context
<1>5. Opened(d) = Opened(c) /\ Log(d) = Log(c) /\ Merges(d) = Merges(c)
      BY <1>4 DEF Opened, Log, Merges
<1>6. \A i : Before(d, i) = Before(c, i)
      BY <1>5 DEF Before
<1>7. LogHeld(d)
  <2>1. LogHeld(c)
        BY DEF Whole
  <2>2. \A i \in Opened(d) :
            d.events[i].step = Rank(Opened(d), i) /\ d.events[i].node = d.trace[d.events[i].step]
        BY <1>4, <1>5, <2>1 DEF LogHeld
  <2>3. ASSUME NEW i \in Log(d)
        PROVE  IF Opens(d.events[i])
               THEN \A j \in Before(d, i) : Closes(d.events[j])
               ELSE \E j \in Before(d, i) :
                        /\ d.events[j].step = d.events[i].step
                        /\ d.events[j].node = d.events[i].node
                        /\ d.events[j].kind =
                               IF d.events[i].kind = "resume" THEN "interrupt" ELSE "node-start"
    <3>1. i \in Log(c) /\ Before(d, i) = Before(c, i) /\ d.events = c.events
          BY <1>4, <1>5, <1>6
    <3>2. IF Opens(c.events[i])
          THEN \A j \in Before(c, i) : Closes(c.events[j])
          ELSE \E j \in Before(c, i) :
                   /\ c.events[j].step = c.events[i].step
                   /\ c.events[j].node = c.events[i].node
                   /\ c.events[j].kind =
                          IF c.events[i].kind = "resume" THEN "interrupt" ELSE "node-start"
          BY <2>1, <3>1, ZenonT(30) DEF LogHeld
    <3> QED
        BY <3>1, <3>2, ZenonT(30)
  <2> QED
      BY <1>4, <1>5, <2>1, <2>2, <2>3 DEF LogHeld
<1>8. StateHeld(d)
      BY <1>4, <1>5 DEF Whole, StateHeld
<1>9. WorkHeld(d)
  <2>1. WorkHeld(c) /\ d.pending = Tail(c.pending) /\ d.queued = c.queued /\ d.trace = c.trace /\ d \in Context
        BY <1>2, <1>4 DEF Whole
  <2> QED
      BY <2>1, WorkSkips, ZenonT(30)
<1>10. ClosedAt(d)
       BY <1>4, <1>5 DEF ClosedAt, LastLog
<1> QED
    BY <1>4, <1>7, <1>8, <1>9, <1>10 DEF Whole

-----------------------------------------------------------------------------
(* The run. *)

(* A step that leaves the run between two nodes and raises nothing.        *)
LEMMA ReadyKept ==
    ASSUME GraphInv, raised' = raised, status' \in {"ready", "complete"},
           context' \in Context, Whole(context'), ClosedAt(context')
    PROVE  GraphInv'
<1>1. \A i \in raised' :
          /\ i.context \in Context /\ Whole(i.context)
          /\ i.node \in Item /\ InNode(i.context, "interrupt", i.node)
      BY DEF GraphInv
<1>2. GraphInv' <=>
          /\ status' \in {"idle", "ready", "acting", "interrupted", "failed", "complete"}
          /\ status' # "failed" => context' \in Context /\ Whole(context')
          /\ status' \in {"idle", "ready", "complete"} => ClosedAt(context')
          /\ status' = "acting" =>
                 /\ context'.trace # <<>> /\ CurrentNode' \in Node
                 /\ InNode(context', "node-start", CurrentNode')
          /\ \A i \in raised' :
                 /\ i.context \in Context /\ Whole(i.context)
                 /\ i.node \in Item /\ InNode(i.context, "interrupt", i.node)
      BY DEF GraphInv
<1> QED
    BY <1>1, <1>2

(* A run that failed leaves the snapshots as they were.                    *)
LEMMA FailKept == ASSUME GraphInv, raised' = raised, status' = "failed" PROVE GraphInv'
BY DEF GraphInv

(* Every step of a run keeps contexts and snapshots whole.                 *)
LEMMA GraphStep == GraphInv /\ [Next]_vars => GraphInv'
<1> SUFFICES ASSUME GraphInv, [Next]_vars PROVE GraphInv'
    OBVIOUS
<1>1. CASE UNCHANGED vars
      BY <1>1 DEF GraphInv, vars, CurrentNode
<1>2. CASE invoke
  <2>1. from_initial \in Context /\ Whole(from_initial) /\ ClosedAt(from_initial)
        BY InitialWhole
  <2>2. context' = publish_start(from_initial) /\ raised' = raised /\ status' = "ready"
        BY <1>2 DEF invoke
  <2>3. context' \in Context /\ Whole(context') /\ ClosedAt(context')
        BY <2>1, <2>2, RunEventWhole
  <2> QED
      BY <2>2, <2>3, ReadyKept
<1>3. CASE skip_end
  <2>1. context \in Context /\ Whole(context) /\ ClosedAt(context)
        BY <1>3 DEF GraphInv, skip_end
  <2>2. /\ context.pending # <<>> /\ Head(context.pending) = END /\ status' = "ready"
        /\ context' = [context EXCEPT !.pending = Tail(@)] /\ raised' = raised
        BY <1>3 DEF skip_end
  <2>3. context' \in Context /\ Whole(context') /\ ClosedAt(context')
        BY <2>1, <2>2, SkipWhole
  <2> QED
      BY <2>2, <2>3, ReadyKept
<1>4. CASE start_node
  <2>1. context \in Context /\ Whole(context) /\ ClosedAt(context)
        BY <1>4 DEF GraphInv, start_node
  <2>2. CASE status' = "failed"
        BY <1>4, <2>2, FailKept DEF start_node
  <2>3. CASE status' # "failed"
    <3>1. /\ context.pending # <<>> /\ Head(context.pending) # END /\ raised' = raised
          /\ ~(context.step + 1 > step_limit) /\ context' = Started /\ status' = "acting"
          /\ Head(context.pending) \in Node
          BY <1>4, <2>3 DEF start_node
    <3>2. /\ context' \in Context /\ Whole(context') /\ context'.trace # <<>>
          /\ Last(context'.trace) = Head(context.pending)
          /\ InNode(context', "node-start", Head(context.pending))
          BY <2>1, <3>1, StartWhole
    <3>3. CurrentNode' = Head(context.pending)
          BY <3>2 DEF CurrentNode
    <3>4. /\ context'.trace # <<>> /\ CurrentNode' \in Node
          /\ InNode(context', "node-start", CurrentNode')
          BY <3>1, <3>2, <3>3
    <3> QED
        BY <3>1, <3>2, <3>4 DEF GraphInv
  <2> QED
      BY <2>2, <2>3
<1>5. CASE complete
  <2>1. context \in Context /\ Whole(context) /\ ClosedAt(context)
        BY <1>5 DEF GraphInv, complete
  <2>2. /\ context' = publish(context, "complete", NoNode, FALSE)
        /\ raised' = raised /\ status' = "complete"
        BY <1>5 DEF complete
  <2>3. context' \in Context /\ Whole(context') /\ ClosedAt(context')
        BY <2>1, <2>2, RunEventWhole
  <2> QED
      BY <2>2, <2>3, ReadyKept
<1>6. ASSUME status = "acting"
      PROVE  /\ context \in Context /\ Whole(context) /\ context.trace # <<>>
             /\ CurrentNode \in Node /\ CurrentNode \in Item /\ InNode(context, "node-start", CurrentNode)
      BY <1>6 DEF GraphInv, Item, Endpoint
<1>7. ASSUME NEW d, NEW n, raised' = raised \cup {[node |-> n, context |-> d]}, context' = d,
             status' = "interrupted", n \in Item, d \in Context, Whole(d), InNode(d, "interrupt", n)
      PROVE  GraphInv'
  <2> DEFINE s == [node |-> n, context |-> d]
  <2>1. s.node = n /\ s.context = d
        OBVIOUS
  <2>2. \A i \in raised' : i \in raised \/ i = s
        BY <1>7
  <2> HIDE DEF s
  <2>3. \A i \in raised' :
            /\ i.context \in Context /\ Whole(i.context)
            /\ i.node \in Item /\ InNode(i.context, "interrupt", i.node)
        BY <1>7, <2>1, <2>2 DEF GraphInv
  <2> QED
      BY <1>7, <2>3 DEF GraphInv
<1>8. CASE action_interrupts
  <2>1. /\ status = "acting" /\ context' = publish(context, "interrupt", CurrentNode, FALSE)
        /\ raised' = raised \cup {[node |-> CurrentNode, context |-> context']}
        /\ status' = "interrupted"
        BY <1>8 DEF action_interrupts
  <2>2. /\ context \in Context /\ Whole(context)
        /\ CurrentNode \in Item /\ InNode(context, "node-start", CurrentNode)
        BY <1>6, <2>1
  <2>3. context' \in Context /\ Whole(context') /\ InNode(context', "interrupt", CurrentNode)
        BY <2>1, <2>2, InterruptWhole
  <2> QED
      BY <1>7, <2>1, <2>2, <2>3
<1>9. CASE subgraph_interrupts
  <2>1. /\ status = "acting" /\ context' = ChildContext
        /\ raised' = raised \cup {[node |-> ChildNode, context |-> ChildContext]}
        /\ status' = "interrupted"
        BY <1>9 DEF subgraph_interrupts
  <2>2. /\ ChildContext \in Context /\ Whole(ChildContext)
        /\ InNode(ChildContext, "interrupt", ChildNode)
        BY <1>6, <2>1, ChildWhole
  <2>3. ChildNode \in Item
        BY DEF Item
  <2> QED
      BY <1>7, <2>1, <2>2, <2>3
<1>10. ASSUME NEW r \in normalize_action_result, action_returns(r) PROVE GraphInv'
  <2>1. PICK targets \in next_targets(CurrentNode, r) :
            context' = finish_node(context, CurrentNode, r, targets, "node-end")
        BY <1>10 DEF action_returns
  <2>2. status = "acting" /\ status' = "ready" /\ raised' = raised
        BY <1>10 DEF action_returns
  <2>3. targets \in Seq(Item)
        BY TargetsTyped
  <2>4. /\ context \in Context /\ Whole(context)
        /\ CurrentNode \in Item /\ InNode(context, "node-start", CurrentNode)
        BY <1>6, <2>2
  <2>5. context' \in Context /\ Whole(context') /\ ClosedAt(context')
        BY <2>1, <2>3, <2>4, FinishWhole
  <2> QED
      BY <2>2, <2>5, ReadyKept
<1>11. ASSUME NEW r \in normalize_action_result, action_fails(r) PROVE GraphInv'
       BY <1>11, FailKept DEF action_fails
<1>12. ASSUME NEW i \in raised, NEW r \in normalize_action_result, resume_interrupted(i, r)
       PROVE  GraphInv'
  <2>1. PICK targets \in next_targets(i.node, r) :
            context' = publish_start(finish_node(i.context, i.node, r, targets, "resume"))
        BY <1>12 DEF resume_interrupted, from_interrupted
  <2>2. status' = "ready" /\ raised' = raised
        BY <1>12 DEF resume_interrupted
  <2>3. targets \in Seq(Item)
        BY TargetsTyped
  <2>4. /\ i.context \in Context /\ Whole(i.context) /\ i.node \in Item
        /\ InNode(i.context, "interrupt", i.node)
        BY DEF GraphInv
  <2>5. PICK d : d = finish_node(i.context, i.node, r, targets, "resume")
        OBVIOUS
  <2>6. d \in Context /\ Whole(d) /\ ClosedAt(d)
        BY <2>3, <2>4, <2>5, FinishWhole
  <2>7. context' \in Context /\ Whole(context') /\ ClosedAt(context')
        BY <2>1, <2>5, <2>6, RunEventWhole
  <2> QED
      BY <2>2, <2>7, ReadyKept
<1>13. ASSUME NEW i \in raised, NEW r \in normalize_action_result, resume_fails(i, r) PROVE GraphInv'
       BY <1>13, FailKept DEF resume_fails
<1> QED
    BY <1>1, <1>2, <1>3, <1>4, <1>5, <1>8, <1>9, <1>10, <1>11, <1>12, <1>13 DEF Next, Run

(* Contexts and snapshots are whole in every state of a run.               *)
LEMMA GraphTypeKept == Spec => []GraphInv
<1>1. Init => GraphInv
  <2> SUFFICES ASSUME Init PROVE GraphInv
      OBVIOUS
  <2>1. context \in Context /\ Whole(context) /\ ClosedAt(context)
        BY InitialWhole DEF Init
  <2> QED
      BY <2>1 DEF Init, GraphInv
<1> QED
    BY <1>1, GraphStep, PTL DEF Spec

(* What the properties look at is whole.                                   *)
LEMMA ContextsWhole == GraphInv => \A c \in Contexts : c \in Context /\ Whole(c)
BY DEF GraphInv, Contexts, Snapshots

(* For every plan, every routing and every number of interrupts and        *)
(* resumes, the event log tells the trace and the state: each node started *)
(* once, closed or interrupted before the next, and the state holds the    *)
(* updates that the log reports, in order (GraphRunContext, finish_node,   *)
(* resume_interrupted).                                                    *)
THEOREM LogKept == Spec => []LogExact
<1>1. GraphInv => LogExact
  <2> SUFFICES ASSUME GraphInv PROVE LogExact
      OBVIOUS
  <2>1. \A c \in Contexts : LogHeld(c) /\ StateHeld(c)
        BY ContextsWhole DEF Whole
  <2>2. LogTellsRun
        BY <2>1 DEF LogTellsRun, LogHeld
  <2>3. StateFromLog
        BY <2>1 DEF StateFromLog, StateHeld
  <2> QED
      BY <2>2, <2>3 DEF LogExact
<1> QED
    BY <1>1, GraphTypeKept, PTL

(* For every plan, what was queued in a run, or in a snapshot that a       *)
(* caller holds, is what was run followed by what is pending: nothing is   *)
(* lost, repeated or overtaken, also when one snapshot is resumed twice.   *)
THEOREM WorkKept == Spec => []WorkConserved
<1>1. ASSUME NEW c \in Context, WorkHeld(c), OfThePlan(c)
      PROVE  /\ c.pending = SubSeq(c.queued, Drained(c) + 1, Len(c.queued))
             /\ Len(c.trace) = Cardinality(Ran(c))
             /\ \A i \in Ran(c) : c.trace[Rank(Ran(c), i)] = c.queued[i]
  <2> DEFINE q == c.queued
             p == c.pending
             x == Drained(c)
             w == SubSeq(q, x + 1, Len(q))
  <2>1. q \in Seq(Item) /\ p \in Seq(Item) /\ Len(q) \in Nat /\ Len(p) \in Nat
        BY DEF Context
  <2>2. /\ Len(p) <= Len(q) /\ \A i \in 1..Len(p) : p[i] = q[x + i]
        /\ Len(c.trace) = Cardinality(Ran(c))
        /\ \A i \in Ran(c) : c.trace[Rank(Ran(c), i)] = c.queued[i]
        BY <1>1 DEF WorkHeld
  <2>3. x = Len(q) - Len(p)
        BY DEF Drained
  <2> HIDE DEF q, p, x
  <2>4. x \in Nat /\ x + 1 \in Int /\ Len(q) - (x + 1) + 1 = Len(p)
        BY <2>1, <2>2, <2>3
  <2>5. \A i \in (x + 1)..Len(q) : q[i] \in Item
        BY <2>1, <2>4
  <2>6. /\ w \in Seq(Item)
        /\ Len(w) = (IF x + 1 <= Len(q) THEN Len(q) - (x + 1) + 1 ELSE 0)
        /\ \A i \in 1..(Len(q) - (x + 1) + 1) : w[i] = q[(x + 1) + i - 1]
        BY <2>1, <2>4, <2>5, SubSeqProperties
  <2> HIDE DEF w
  <2>7. Len(w) = Len(p)
        BY <2>1, <2>3, <2>4, <2>6
  <2>8. \A i \in 1..Len(p) : w[i] = q[(x + 1) + i - 1]
        BY <2>4, <2>6
  <2>9. \A i \in 1..Len(p) : (x + 1) + i - 1 = x + i
        BY <2>1, <2>4
  <2>10. \A i \in 1..Len(p) : p[i] = w[i]
         BY <2>2, <2>8, <2>9
  <2>11. p = w
         BY <2>1, <2>6, <2>7, <2>10, SeqEqual
  <2> QED
      BY <2>2, <2>11 DEF p, w, x, q
<1>2. GraphInv => WorkConserved
  <2> SUFFICES ASSUME GraphInv, NEW c \in Contexts, OfThePlan(c)
               PROVE  /\ c.pending = SubSeq(c.queued, Drained(c) + 1, Len(c.queued))
                      /\ Len(c.trace) = Cardinality(Ran(c))
                      /\ \A i \in Ran(c) : c.trace[Rank(Ran(c), i)] = c.queued[i]
      BY DEF WorkConserved
  <2>1. c \in Context /\ WorkHeld(c)
        BY ContextsWhole DEF Whole
  <2> QED
      BY <1>1, <2>1
<1> QED
    BY <1>2, GraphTypeKept, PTL

-----------------------------------------------------------------------------
(* The stream publisher. *)

(* The streams not yet finalized, outermost first, each with the one       *)
(* around it as the sink to put back; the innermost is the sink.           *)
NestedSinks ==
    /\ nesting \in Seq(Stream)
    /\ nesting = <<>> => sink = NoSink
    /\ nesting # <<>> => sink = nesting[Len(nesting)]
    /\ \A k \in 1..Len(nesting) :
           /\ phase[nesting[k]] \in Live
           /\ previous[nesting[k]] = IF k = 1 THEN NoSink ELSE nesting[k - 1]
    /\ \A j, k \in 1..Len(nesting) : nesting[j] = nesting[k] => j = k

Value == Stream \X Nat

(* What a stream has yielded is the beginning of its list: all of it       *)
(* between nodes, what was there before the last node until its values are *)
(* yielded, and then everything before the next of them.                   *)
YieldedUpTo(s) ==
    /\ start[s] <= Len(emitted[s]) /\ Len(emitted[s]) <= Len(values[s])
    /\ \A i \in 1..Len(emitted[s]) : emitted[s][i] = values[s][i]
    /\ phase[s] \in {"new", "open"} => Len(emitted[s]) = Len(values[s])
    /\ phase[s] \in {"node", "finished"} => Len(emitted[s]) = start[s]
    /\ phase[s] = "yielding" => upcoming[s] = Len(emitted[s]) + 1 /\ until[s] = Len(values[s])

ListsType ==
    /\ values \in [Stream -> Seq(Value)] /\ emitted \in [Stream -> Seq(Value)]
    /\ start \in [Stream -> Nat] /\ upcoming \in [Stream -> Nat] /\ until \in [Stream -> Nat]
    /\ sent = values

Yielded == ListsType /\ \A s \in Stream : YieldedUpTo(s)

StreamsType == phase \in [Stream -> Phases] /\ previous \in [Stream -> Stream \cup {NoSink}]

SinkInv == ~unnested => StreamsType /\ NestedSinks /\ Yielded

(* At first no stream is open and there is no sink.                        *)
LEMMA SinkInitInv == SinkInit => SinkInv
<1> SUFFICES ASSUME SinkInit PROVE StreamsType /\ NestedSinks /\ Yielded
    BY DEF SinkInv
<1>1. StreamsType
      BY DEF SinkInit, StreamsType, Phases
<1>2. NestedSinks
      BY DEF SinkInit, NestedSinks
<1>3. Yielded
      BY DEF SinkInit, Yielded, ListsType, YieldedUpTo
<1> QED
    BY <1>1, <1>2, <1>3

(* A step that moves one stream from one live phase to another and no list *)
(* or sink keeps the nesting.                                              *)
LEMMA LivePhaseKept ==
    ASSUME StreamsType, NestedSinks, NEW s \in Stream, NEW p \in Live,
           phase' = [phase EXCEPT ![s] = p], UNCHANGED <<sink, previous, nesting>>
    PROVE  /\ StreamsType' /\ NestedSinks'
           /\ phase'[s] = p /\ \A t \in Stream : t # s => phase'[t] = phase[t]
<1>1. StreamsType' /\ phase'[s] = p /\ \A t \in Stream : t # s => phase'[t] = phase[t]
      BY DEF StreamsType, Phases
<1>2. \A k \in 1..Len(nesting) : nesting[k] \in Stream
      BY DEF NestedSinks
<1>3. NestedSinks'
      BY <1>1, <1>2 DEF NestedSinks
<1> QED
    BY <1>1, <1>3

(* A new stream becomes the innermost and remembers the sink that it       *)
(* replaces.                                                               *)
LEMMA InstallInv ==
    ASSUME StreamsType, NestedSinks, Yielded, NEW s \in Stream, install_custom_sink(s)
    PROVE  StreamsType' /\ NestedSinks' /\ Yielded'
<1>1. /\ phase[s] = "new" /\ previous' = [previous EXCEPT ![s] = sink] /\ sink' = s
      /\ phase' = [phase EXCEPT ![s] = "open"] /\ nesting' = Append(nesting, s)
      /\ UNCHANGED <<values, start, upcoming, until, emitted, sent>>
      BY DEF install_custom_sink, Goes
<1>2. Len(nesting) \in Nat /\ nesting \in Seq(Stream)
      BY DEF NestedSinks
<1>3. /\ nesting' \in Seq(Stream) /\ Len(nesting') = Len(nesting) + 1
      /\ nesting'[Len(nesting) + 1] = s /\ nesting' # <<>>
      /\ \A k \in 1..Len(nesting) : nesting'[k] = nesting[k]
  <2>1. nesting' = Append(nesting, s)
        BY <1>1
  <2>2. /\ Append(nesting, s) \in Seq(Stream) /\ Append(nesting, s) # <<>>
        /\ Len(Append(nesting, s)) = Len(nesting) + 1
        /\ Append(nesting, s)[Len(nesting) + 1] = s
        /\ \A k \in 1..Len(nesting) : Append(nesting, s)[k] = nesting[k]
        BY <1>2, AppendProperties
  <2> QED
      BY <2>1, <2>2
<1>4. \A k \in 1..Len(nesting) : nesting[k] \in Stream /\ nesting[k] # s
  <2> TAKE k \in 1..Len(nesting)
  <2>1. nesting[k] \in Stream
        BY <1>2
  <2>2. phase[nesting[k]] \in Live
        BY DEF NestedSinks
  <2>3. "new" \notin Live
        BY DEF Live
  <2> QED
      BY <1>1, <2>1, <2>2, <2>3
<1>5. sink \in Stream \cup {NoSink} /\ sink = IF Len(nesting) = 0 THEN NoSink ELSE nesting[Len(nesting)]
  <2>1. CASE nesting = <<>>
        BY <2>1 DEF NestedSinks
  <2>2. CASE nesting # <<>>
    <3>1. Len(nesting) \in 1..Len(nesting)
          BY <1>2, <2>2
    <3> QED
        BY <1>4, <2>2, <3>1 DEF NestedSinks
  <2> QED
      BY <2>1, <2>2
<1>6. StreamsType'
      BY <1>1, <1>5 DEF StreamsType, Phases, Live
<1>7. phase'[s] = "open" /\ phase'[s] \in Live /\ previous'[s] = sink
      /\ \A t \in Stream : t # s => phase'[t] = phase[t] /\ previous'[t] = previous[t]
      BY <1>1 DEF StreamsType, Live
<1>8. NestedSinks'
  <2>1. ASSUME NEW k \in 1..Len(nesting')
        PROVE  /\ phase'[nesting'[k]] \in Live
               /\ previous'[nesting'[k]] = IF k = 1 THEN NoSink ELSE nesting'[k - 1]
    <3>1. CASE k \in 1..Len(nesting)
      <4>1. nesting'[k] = nesting[k] /\ nesting[k] # s /\ nesting[k] \in Stream
            BY <1>3, <1>4, <3>1
      <4>2. k # 1 => k - 1 \in 1..Len(nesting)
            BY <1>2, <3>1
      <4>3. k # 1 => nesting'[k - 1] = nesting[k - 1]
            BY <1>3, <4>2
      <4> QED
          BY <1>7, <3>1, <4>1, <4>3 DEF NestedSinks
    <3>2. CASE k = Len(nesting) + 1
      <4>1. k - 1 = Len(nesting) /\ (k # 1 => Len(nesting) \in 1..Len(nesting))
            BY <1>2, <3>2
      <4>2. k # 1 => nesting'[k - 1] = nesting[Len(nesting)]
            BY <1>3, <4>1
      <4>3. k = 1 <=> Len(nesting) = 0
            BY <1>2, <3>2
      <4> QED
          BY <1>3, <1>5, <1>7, <3>2, <4>2, <4>3
    <3> QED
        BY <1>2, <1>3, <3>1, <3>2
  <2>2. \A j, k \in 1..Len(nesting') : nesting'[j] = nesting'[k] => j = k
    <3> TAKE j, k \in 1..Len(nesting')
    <3>1. j \in 1..Len(nesting) \/ j = Len(nesting) + 1
          BY <1>2, <1>3
    <3>2. k \in 1..Len(nesting) \/ k = Len(nesting) + 1
          BY <1>2, <1>3
    <3> QED
        BY <1>3, <1>4, <3>1, <3>2 DEF NestedSinks
  <2>3. sink' = nesting'[Len(nesting')]
        BY <1>1, <1>3
  <2> QED
      BY <1>3, <2>1, <2>2, <2>3 DEF NestedSinks
<1>9. Yielded'
  <2>1. ListsType'
        BY <1>1 DEF Yielded, ListsType
  <2>2. ASSUME NEW t \in Stream PROVE YieldedUpTo(t)'
        BY <1>1, <1>7 DEF Yielded, YieldedUpTo
  <2> QED
      BY <2>1, <2>2 DEF Yielded
<1> QED
    BY <1>6, <1>8, <1>9

(* A node starts at the end of the list of its stream.                     *)
LEMMA NodeInv ==
    ASSUME StreamsType, NestedSinks, Yielded, NEW s \in Stream, start_stream_node(s)
    PROVE  StreamsType' /\ NestedSinks' /\ Yielded'
<1>1. /\ phase[s] = "open" /\ phase' = [phase EXCEPT ![s] = "node"]
      /\ start' = [start EXCEPT ![s] = Len(values[s])]
      /\ UNCHANGED <<sink, previous, values, upcoming, until, emitted, sent, nesting>>
      BY DEF start_stream_node, Goes
<1>2. /\ StreamsType' /\ NestedSinks'
      /\ phase'[s] = "node" /\ \A t \in Stream : t # s => phase'[t] = phase[t]
      BY <1>1, LivePhaseKept DEF Live
<1>3. /\ values[s] \in Seq(Value) /\ Len(values[s]) \in Nat /\ Len(emitted[s]) = Len(values[s])
      /\ start \in [Stream -> Nat]
      BY <1>1 DEF Yielded, ListsType, YieldedUpTo
<1>4. /\ start' \in [Stream -> Nat] /\ start'[s] = Len(values[s])
      /\ \A t \in Stream : t # s => start'[t] = start[t]
      BY <1>1, <1>3
<1>5. ListsType'
      BY <1>1, <1>4 DEF Yielded, ListsType
<1>6. ASSUME NEW t \in Stream PROVE YieldedUpTo(t)'
  <2>1. YieldedUpTo(t)
        BY DEF Yielded
  <2>2. CASE t = s
        BY <1>1, <1>2, <1>3, <1>4, <2>1, <2>2 DEF YieldedUpTo
  <2>3. CASE t # s
        BY <1>1, <1>2, <1>4, <2>1, <2>3 DEF YieldedUpTo
  <2> QED
      BY <2>2, <2>3
<1> QED
    BY <1>2, <1>5, <1>6 DEF Yielded

(* A node of the innermost stream emits into the list of that stream.      *)
LEMMA EmitInv ==
    ASSUME StreamsType, NestedSinks, Yielded, NEW s \in Stream, emit_custom(s), Innermost(s)
    PROVE  StreamsType' /\ NestedSinks' /\ Yielded'
<1> DEFINE value == <<s, Len(sent[s]) + 1>>
<1>1. sink = s /\ sink # NoSink
      BY StreamAssumption DEF Innermost, NestedSinks
<1>2. /\ phase[s] = "node" /\ values' = [values EXCEPT ![s] = Append(@, value)]
      /\ sent' = [sent EXCEPT ![s] = Append(@, value)]
      /\ UNCHANGED <<sink, previous, phase, start, upcoming, until, emitted, nesting>>
      BY <1>1 DEF emit_custom
<1>3. values[s] \in Seq(Value) /\ Len(values[s]) \in Nat /\ sent = values
      BY DEF Yielded, ListsType
<1>4. value \in Value
      BY <1>3 DEF Value
<1> HIDE DEF value
<1>5. StreamsType' /\ NestedSinks'
      BY <1>2 DEF StreamsType, NestedSinks
<1>6. /\ values' \in [Stream -> Seq(Value)] /\ sent' = values'
      /\ Len(values'[s]) = Len(values[s]) + 1
      /\ \A i \in 1..Len(values[s]) : values'[s][i] = values[s][i]
      /\ \A t \in Stream : t # s => values'[t] = values[t]
      BY <1>2, <1>3, <1>4 DEF Yielded, ListsType
<1>7. ListsType'
      BY <1>2, <1>6 DEF Yielded, ListsType
<1>8. ASSUME NEW t \in Stream PROVE YieldedUpTo(t)'
  <2>1. YieldedUpTo(t)
        BY DEF Yielded
  <2>2. CASE t # s
        BY <1>2, <1>6, <2>1, <2>2 DEF YieldedUpTo
  <2>3. CASE t = s
    <3>1. /\ Len(emitted[s]) \in Nat /\ Len(emitted[s]) <= Len(values[s])
          /\ Len(emitted[s]) = start[s] /\ start[s] <= Len(emitted[s])
          /\ \A i \in 1..Len(emitted[s]) : emitted[s][i] = values[s][i]
          BY <1>2, <2>1, <2>3 DEF YieldedUpTo, Yielded, ListsType
    <3>2. \A i \in 1..Len(emitted[s]) : i \in 1..Len(values[s])
          BY <1>3, <3>1
    <3>3. Len(emitted[s]) <= Len(values'[s])
          BY <1>3, <1>6, <3>1
    <3>4. ASSUME NEW i \in 1..Len(emitted[s]) PROVE emitted[s][i] = values'[s][i]
          BY <1>6, <3>1, <3>2
    <3> QED
        BY <1>2, <2>3, <3>1, <3>3, <3>4 DEF YieldedUpTo
  <2> QED
      BY <2>2, <2>3
<1> QED
    BY <1>5, <1>7, <1>8 DEF Yielded

(* The end of an action and an exception leave the lists alone.            *)
LEMMA PhaseInv ==
    ASSUME StreamsType, NestedSinks, Yielded, NEW s \in Stream,
           finish_stream_node(s) \/ stream_raises(s)
    PROVE  StreamsType' /\ NestedSinks' /\ Yielded'
<1>1. UNCHANGED <<sink, previous, values, start, upcoming, until, emitted, sent, nesting>>
      BY DEF finish_stream_node, stream_raises
<1>2. PICK p \in {"finished", "failed"} :
          phase' = [phase EXCEPT ![s] = p] /\ (p = "finished" => phase[s] = "node")
      BY DEF finish_stream_node, stream_raises, Goes
<1>3. /\ StreamsType' /\ NestedSinks'
      /\ phase'[s] = p /\ \A t \in Stream : t # s => phase'[t] = phase[t]
      BY <1>1, <1>2, LivePhaseKept DEF Live
<1>4. ListsType'
      BY <1>1 DEF Yielded, ListsType
<1>5. ASSUME NEW t \in Stream PROVE YieldedUpTo(t)'
  <2>1. YieldedUpTo(t)
        BY DEF Yielded
  <2> QED
      BY <1>1, <1>2, <1>3, <2>1 DEF YieldedUpTo
<1> QED
    BY <1>3, <1>4, <1>5 DEF Yielded

(* The slice begins after what was yielded and ends with the list.         *)
LEMMA OutputsInv ==
    ASSUME StreamsType, NestedSinks, Yielded, NEW s \in Stream, node_outputs(s)
    PROVE  StreamsType' /\ NestedSinks' /\ Yielded'
<1>1. /\ phase[s] = "finished" /\ phase' = [phase EXCEPT ![s] = "yielding"]
      /\ upcoming' = [upcoming EXCEPT ![s] = start[s] + 1] /\ until' = [until EXCEPT ![s] = Len(values[s])]
      /\ UNCHANGED <<sink, previous, values, start, emitted, sent, nesting>>
      BY DEF node_outputs, Goes
<1>2. /\ StreamsType' /\ NestedSinks'
      /\ phase'[s] = "yielding" /\ \A t \in Stream : t # s => phase'[t] = phase[t]
      BY <1>1, LivePhaseKept DEF Live
<1>3. values[s] \in Seq(Value) /\ Len(values[s]) \in Nat /\ start[s] + 1 \in Nat
      BY DEF Yielded, ListsType
<1>4. /\ upcoming' \in [Stream -> Nat] /\ until' \in [Stream -> Nat]
      /\ upcoming'[s] = start[s] + 1 /\ until'[s] = Len(values[s])
      /\ \A t \in Stream : t # s => upcoming'[t] = upcoming[t] /\ until'[t] = until[t]
      BY <1>1, <1>3 DEF Yielded, ListsType
<1>5. ListsType'
      BY <1>1, <1>4 DEF Yielded, ListsType
<1>6. ASSUME NEW t \in Stream PROVE YieldedUpTo(t)'
  <2>1. YieldedUpTo(t)
        BY DEF Yielded
  <2>2. CASE t = s
        BY <1>1, <1>2, <1>4, <2>1, <2>2 DEF YieldedUpTo
  <2>3. CASE t # s
        BY <1>1, <1>2, <1>4, <2>1, <2>3 DEF YieldedUpTo
  <2> QED
      BY <2>2, <2>3
<1> QED
    BY <1>2, <1>5, <1>6 DEF Yielded

(* One value of the slice after the other is yielded, and then all are.    *)
LEMMA CustomInv ==
    ASSUME StreamsType, NestedSinks, Yielded, NEW s \in Stream, custom(s)
    PROVE  StreamsType' /\ NestedSinks' /\ Yielded'
<1> DEFINE n == Len(emitted[s])
           v == values[s]
<1>1. /\ phase[s] = "yielding"
      /\ UNCHANGED <<sink, previous, values, start, until, sent, nesting>>
      BY DEF custom
<1>2. YieldedUpTo(s) /\ ListsType
      BY DEF Yielded
<1>3. /\ v \in Seq(Value) /\ emitted[s] \in Seq(Value) /\ n \in Nat /\ Len(v) \in Nat
      /\ start[s] \in Nat /\ start[s] <= n /\ n <= Len(v)
      /\ upcoming[s] = n + 1 /\ until[s] = Len(v)
      /\ \A i \in 1..n : emitted[s][i] = v[i]
      BY <1>1, <1>2 DEF YieldedUpTo, ListsType
<1>4. CASE upcoming[s] > until[s]
  <2>1. phase' = [phase EXCEPT ![s] = "open"] /\ UNCHANGED <<upcoming, emitted>>
        BY <1>4 DEF custom, Goes
  <2>2. /\ StreamsType' /\ NestedSinks'
        /\ phase'[s] = "open" /\ \A t \in Stream : t # s => phase'[t] = phase[t]
        BY <1>1, <2>1, LivePhaseKept DEF Live
  <2>3. n = Len(v)
        BY <1>3, <1>4
  <2>4. ListsType'
        BY <1>1, <1>2, <2>1 DEF ListsType
  <2>5. ASSUME NEW t \in Stream PROVE YieldedUpTo(t)'
    <3>1. YieldedUpTo(t)
          BY DEF Yielded
    <3> QED
        BY <1>1, <2>1, <2>2, <2>3, <3>1 DEF YieldedUpTo
  <2> QED
      BY <2>2, <2>4, <2>5 DEF Yielded
<1>5. CASE ~(upcoming[s] > until[s])
  <2>1. /\ emitted' = [emitted EXCEPT ![s] = Append(@, values[s][upcoming[s]])]
        /\ upcoming' = [upcoming EXCEPT ![s] = @ + 1] /\ phase' = phase
        BY <1>5 DEF custom
  <2>2. StreamsType' /\ NestedSinks'
        BY <1>1, <2>1 DEF StreamsType, NestedSinks
  <2>3. n + 1 \in 1..Len(v) /\ v[n + 1] \in Value
        BY <1>3, <1>5
  <2>4. /\ emitted' \in [Stream -> Seq(Value)] /\ emitted'[s] = Append(emitted[s], v[n + 1])
        /\ \A t \in Stream : t # s => emitted'[t] = emitted[t]
        BY <1>2, <1>3, <2>1, <2>3 DEF ListsType
  <2>5. /\ upcoming' \in [Stream -> Nat] /\ upcoming'[s] = n + 2
        /\ \A t \in Stream : t # s => upcoming'[t] = upcoming[t]
        BY <1>2, <1>3, <2>1 DEF ListsType
  <2>6. ListsType'
        BY <1>1, <1>2, <2>4, <2>5 DEF ListsType
  <2>7. /\ Len(emitted'[s]) = n + 1
        /\ \A i \in 1..(n + 1) : emitted'[s][i] = v[i]
        BY <1>3, <2>3, <2>4
  <2>8. YieldedUpTo(s)'
        BY <1>1, <1>3, <2>1, <2>3, <2>5, <2>7 DEF YieldedUpTo
  <2>9. ASSUME NEW t \in Stream, t # s PROVE YieldedUpTo(t)'
    <3>1. YieldedUpTo(t)
          BY DEF Yielded
    <3> QED
        BY <1>1, <2>1, <2>4, <2>5, <2>9, <3>1 DEF YieldedUpTo
  <2> QED
      BY <2>2, <2>6, <2>8, <2>9 DEF Yielded
<1> QED
    BY <1>4, <1>5

(* The innermost stream ends and the one around it has its sink back.      *)
LEMMA RestoreInv ==
    ASSUME StreamsType, NestedSinks, Yielded, NEW s \in Stream, restore_sink(s), Innermost(s)
    PROVE  StreamsType' /\ NestedSinks' /\ Yielded'
<1> DEFINE n == Len(nesting)
<1>1. /\ sink' = previous[s] /\ phase' = [phase EXCEPT ![s] = "closed"]
      /\ nesting' = SubSeq(nesting, 1, n - 1)
      /\ UNCHANGED <<previous, values, start, upcoming, until, emitted, sent>>
      BY DEF restore_sink, Goes
<1>2. nesting \in Seq(Stream) /\ nesting # <<>> /\ nesting[n] = s
      BY DEF NestedSinks, Innermost
<1>3. n \in Nat /\ n \in 1..n
      BY <1>2
<1>4. /\ nesting' \in Seq(Stream) /\ Len(nesting') = n - 1
      /\ \A k \in 1..(n - 1) : nesting'[k] = nesting[k]
  <2>1. \A k \in 1..(n - 1) : nesting[k] \in Stream
        BY <1>2, <1>3
  <2>2. 1 \in Int /\ n - 1 \in Int /\ n - 1 - 1 + 1 = n - 1 /\ (~(1 <= n - 1) => n - 1 = 0)
    <3> HIDE DEF n
    <3> QED
        BY <1>3
  <2>3. \A k \in 1..(n - 1) : 1 + k - 1 = k
        OBVIOUS
  <2> HIDE DEF n
  <2>4. /\ SubSeq(nesting, 1, n - 1) \in Seq(Stream)
        /\ Len(SubSeq(nesting, 1, n - 1)) = IF 1 <= n - 1 THEN n - 1 - 1 + 1 ELSE 0
        /\ \A k \in 1..(n - 1 - 1 + 1) : SubSeq(nesting, 1, n - 1)[k] = nesting[1 + k - 1]
        BY <2>1, <2>2, SubSeqProperties
  <2> QED
      BY <1>1, <2>2, <2>3, <2>4
<1>5. StreamsType' /\ phase'[s] = "closed" /\ \A t \in Stream : t # s => phase'[t] = phase[t]
      BY <1>1 DEF StreamsType, Phases
<1>6. \A k \in 1..(n - 1) : nesting[k] \in Stream /\ nesting[k] # s /\ k \in 1..n
      BY <1>2, <1>3 DEF NestedSinks
<1>7. previous[s] = IF n = 1 THEN NoSink ELSE nesting[n - 1]
      BY <1>2, <1>3 DEF NestedSinks
<1>8. NestedSinks'
  <2>1. ASSUME NEW k \in 1..Len(nesting')
        PROVE  /\ phase'[nesting'[k]] \in Live
               /\ previous'[nesting'[k]] = IF k = 1 THEN NoSink ELSE nesting'[k - 1]
    <3>1. nesting'[k] = nesting[k] /\ nesting[k] \in Stream /\ nesting[k] # s /\ k \in 1..n
          BY <1>4, <1>6
    <3>2. k # 1 => k - 1 \in 1..(n - 1)
          BY <1>3, <1>4
    <3>3. k # 1 => nesting'[k - 1] = nesting[k - 1]
          BY <1>4, <3>2
    <3> QED
        BY <1>1, <1>5, <3>1, <3>3 DEF NestedSinks
  <2>2. \A j, k \in 1..Len(nesting') : nesting'[j] = nesting'[k] => j = k
        BY <1>4, <1>6 DEF NestedSinks
  <2>3. nesting' = <<>> => sink' = NoSink
    <3>1. nesting' = <<>> => n = 1
          BY <1>3, <1>4
    <3> QED
        BY <1>1, <1>7, <3>1
  <2>4. nesting' # <<>> => sink' = nesting'[Len(nesting')]
    <3>1. nesting' # <<>> => n # 1 /\ n - 1 \in 1..(n - 1)
          BY <1>3, <1>4
    <3> QED
        BY <1>1, <1>4, <1>7, <3>1
  <2> QED
      BY <1>4, <2>1, <2>2, <2>3, <2>4 DEF NestedSinks
<1>9. Yielded'
  <2>1. ListsType'
        BY <1>1 DEF Yielded, ListsType
  <2>2. ASSUME NEW t \in Stream PROVE YieldedUpTo(t)'
    <3>1. YieldedUpTo(t)
          BY DEF Yielded
    <3> QED
        BY <1>1, <1>5, <3>1 DEF YieldedUpTo
  <2> QED
      BY <2>1, <2>2 DEF Yielded
<1> QED
    BY <1>5, <1>8, <1>9

(* Every step that keeps streams nested keeps the invariant.               *)
LEMMA SinkStepInv == SinkInv /\ [SinkNext]_streams => SinkInv'
<1> SUFFICES ASSUME SinkInv, [SinkNext]_streams, ~unnested' PROVE StreamsType' /\ NestedSinks' /\ Yielded'
    BY DEF SinkInv
<1>1. CASE UNCHANGED streams
      BY <1>1 DEF streams, SinkInv, StreamsType, NestedSinks, Yielded, ListsType, YieldedUpTo
<1>2. ASSUME NEW s \in Stream,
             install_custom_sink(s) \/ start_stream_node(s) \/ emit_custom(s) \/ finish_stream_node(s)
                 \/ node_outputs(s) \/ custom(s) \/ stream_raises(s) \/ restore_sink(s)
      PROVE  StreamsType' /\ NestedSinks' /\ Yielded'
  <2>1. CASE install_custom_sink(s)
    <3>1. ~unnested
          BY <2>1, Zenon DEF install_custom_sink
    <3> QED
        BY <2>1, <3>1, InstallInv DEF SinkInv
  <2>2. CASE start_stream_node(s)
    <3>1. ~unnested
          BY <2>2, Zenon DEF start_stream_node
    <3> QED
        BY <2>2, <3>1, NodeInv DEF SinkInv
  <2>3. CASE emit_custom(s)
    <3>1. unnested' = (unnested \/ ~Innermost(s))
          BY <2>3 DEF emit_custom
    <3>2. ~unnested /\ Innermost(s)
          BY <3>1, Zenon
    <3> QED
        BY <2>3, <3>2, EmitInv DEF SinkInv
  <2>4. CASE finish_stream_node(s) \/ stream_raises(s)
    <3>1. ~unnested
          BY <2>4, Zenon DEF finish_stream_node, stream_raises
    <3> QED
        BY <2>4, <3>1, PhaseInv DEF SinkInv
  <2>5. CASE node_outputs(s)
    <3>1. ~unnested
          BY <2>5, Zenon DEF node_outputs
    <3> QED
        BY <2>5, <3>1, OutputsInv DEF SinkInv
  <2>6. CASE custom(s)
    <3>1. ~unnested
          BY <2>6, Zenon DEF custom
    <3> QED
        BY <2>6, <3>1, CustomInv DEF SinkInv
  <2>7. CASE restore_sink(s)
    <3>1. unnested' = (unnested \/ ~Innermost(s))
          BY <2>7 DEF restore_sink
    <3>2. ~unnested /\ Innermost(s)
          BY <3>1, Zenon
    <3> QED
        BY <2>7, <3>2, RestoreInv DEF SinkInv
  <2> QED
      BY <1>2, <2>1, <2>2, <2>3, <2>4, <2>5, <2>6, <2>7
<1> QED
    BY <1>1, <1>2 DEF SinkNext

(* As long as every stream is finalized before the one around it emits     *)
(* again or is finalized, each yields what its own nodes emitted, at most  *)
(* the values of its last node excepted, and the runtime has no sink when  *)
(* no publisher is left: for any number of streams, values and nestings.   *)
THEOREM StreamsKeptApart == SinkSpec => []StreamsApart
<1>1. SinkInv => StreamsApart
  <2> SUFFICES ASSUME SinkInv, ~unnested PROVE StreamsApart
      BY DEF StreamsApart
  <2>1. NestedSinks /\ Yielded
        BY DEF SinkInv
  <2>2. ASSUME \A s \in Stream : phase[s] \notin Live PROVE sink = NoSink
    <3>1. \A k \in 1..Len(nesting) : nesting[k] \in Stream /\ phase[nesting[k]] \in Live
          BY <2>1 DEF NestedSinks
    <3>2. nesting = <<>>
      <4>1. nesting # <<>> => 1 \in 1..Len(nesting)
            BY <2>1 DEF NestedSinks
      <4> QED
          BY <2>2, <3>1, <4>1
    <3> QED
        BY <2>1, <3>2 DEF NestedSinks
  <2>3. sent = values /\ \A s \in Stream : YieldedUpTo(s)
        BY <2>1 DEF Yielded, ListsType
  <2> QED
      BY <2>2, <2>3 DEF StreamsApart, YieldedUpTo
<1> QED
    BY SinkInitInv, SinkStepInv, <1>1, PTL DEF SinkSpec

-----------------------------------------------------------------------------
(* The ordered maps. *)

MapType ==
    /\ inputs \in 0..MaxInputs /\ limit \in 0..MaxLimit
    /\ taken \in Nat
    /\ task \in [Index -> {"ready", "call", "done", "cancelled"}]
    /\ input \in [Index -> 0..MaxInputs]
    /\ results \in [Index -> Nat] /\ called \in [Index -> Nat]
    /\ outcome \in {"running", "returned", "raised", "incomplete"}

(* Which inputs were given to the call: without a limit those of the tasks *)
(* that have started, with one those the iterator has handed out.          *)
CallsOwned ==
    /\ \A i \in Index : called[i] \in {0, 1}
    /\ limit = 0 => \A t \in Index : task[t] = "ready" => called[t] = 0
    /\ limit > 0 => taken <= inputs /\ \A i \in Index : called[i] = 1 <=> i <= taken

(* A running call has its own input, that was handed out to it.            *)
CallsRunning ==
    \A t \in Tasks :
        task[t] = "call" =>
            input[t] \in 1..inputs /\ called[input[t]] = 1 /\ (limit = 0 => input[t] = t)

(* A result is missing only while its call runs, or once a call failed.    *)
ResultsAwaited ==
    \A i \in 1..inputs :
        /\ results[i] \in {0, i}
        /\ called[i] = 1 /\ results[i] = 0 /\ ~failed =>
               \E t \in Tasks : task[t] = "call" /\ input[t] = i

(* A task that has ended, no call having failed, leaves nothing to do: not *)
(* its own input, nor any that the iterator still holds.                   *)
TasksEnded ==
    \A t \in Tasks :
        /\ task[t] = "cancelled" => failed
        /\ task[t] = "done" /\ ~failed =>
               IF limit = 0 THEN called[t] = 1 ELSE taken = inputs

GroupEnded ==
    /\ outcome # "running" => \A t \in Tasks : task[t] \in {"done", "cancelled"}
    /\ outcome # "incomplete"
    /\ outcome = "returned" => \A i \in 1..inputs : results[i] = i /\ called[i] = 1

MapInv == MapType /\ CallsOwned /\ CallsRunning /\ ResultsAwaited /\ TasksEnded /\ GroupEnded

(* Tasks are numbered like inputs: one per input, or one per worker.       *)
LEMMA TasksAreIndices ==
    ASSUME MapType
    PROVE  /\ Tasks \subseteq Index
           /\ limit = 0 => Tasks = 1..inputs
           /\ limit > 0 => Tasks \subseteq 1..limit /\ (inputs > 0 => 1 \in Tasks)
BY MapAssumption DEF MapType, Tasks, Index

(* At first nothing is taken, called or returned.                          *)
LEMMA MapInitInv == MapInit => MapInv
<1> SUFFICES ASSUME MapInit PROVE MapInv
    OBVIOUS
<1>1. MapType
      BY MapAssumption DEF MapInit, MapType, Index
<1>2. Tasks \subseteq Index
      BY <1>1, TasksAreIndices
<1>3. \A i \in 1..inputs : i \in Index
      BY <1>1, MapAssumption DEF MapType, Index
<1>4. CallsOwned /\ CallsRunning /\ TasksEnded /\ GroupEnded
      BY <1>1, <1>2 DEF MapInit, MapType, CallsOwned, CallsRunning, TasksEnded, GroupEnded, Index
<1>5. ResultsAwaited
      BY <1>3 DEF MapInit, ResultsAwaited
<1> QED
    BY <1>1, <1>4, <1>5 DEF MapInv

(* A task takes its own input, or the next one of the iterator.            *)
LEMMA TaskCallsInv == ASSUME MapInv, NEW t \in Tasks, task_calls(t) PROVE MapInv'
<1> USE DEF MapInv
<1>0. t \in Index /\ Tasks' = Tasks /\ Tasks \subseteq Index
      BY TasksAreIndices DEF task_calls, Tasks
<1> DEFINE i == next_input(t)
<1>1. i \in 1..inputs /\ i \in Index /\ called[i] = 0
      BY <1>0, TasksAreIndices, MapAssumption
         DEF task_calls, next_input, MapType, Index, CallsOwned
<1>2. /\ input' = [input EXCEPT ![t] = i] /\ taken' = taken + 1
      /\ called' = [called EXCEPT ![i] = 1] /\ task' = [task EXCEPT ![t] = "call"]
      BY <1>1 DEF task_calls, MapType
<1> HIDE DEF i
<1>3. MapType'
  <2>1. i \in 0..MaxInputs /\ taken + 1 \in Nat
        BY <1>1 DEF MapType, Index
  <2> QED
      BY <1>0, <1>1, <1>2, <2>1 DEF MapType, task_calls
<1>4. limit > 0 => i = taken + 1
      BY DEF i, next_input, MapType
<1>5. limit = 0 => i = t
      BY DEF i, next_input
<1>6. CallsOwned'
      BY <1>0, <1>1, <1>2, <1>4, <1>5 DEF CallsOwned, MapType, task_calls, Index
<1>7. CallsRunning'
  <2> SUFFICES ASSUME NEW u \in Tasks, task'[u] = "call"
               PROVE  /\ input'[u] \in 1..inputs /\ called'[input'[u]] = 1
                      /\ limit = 0 => input'[u] = u
      BY <1>0 DEF CallsRunning, task_calls
  <2>1. CASE u = t
        BY <2>1, <1>0, <1>1, <1>2, <1>5 DEF MapType
  <2>2. CASE u # t
    <3>1. task[u] = "call" /\ input'[u] = input[u]
          BY <2>2, <1>0, <1>2 DEF MapType
    <3>2. input[u] \in Index
          BY <3>1, MapAssumption DEF CallsRunning, MapType, Index
    <3> QED
        BY <3>1, <3>2, <1>1, <1>2 DEF CallsRunning, MapType
  <2> QED
      BY <2>1, <2>2
<1>8. ResultsAwaited'
  <2> SUFFICES ASSUME NEW j \in 1..inputs
               PROVE  /\ results[j] \in {0, j}
                      /\ called'[j] = 1 /\ results[j] = 0 /\ ~failed =>
                             \E u \in Tasks : task'[u] = "call" /\ input'[u] = j
      BY <1>0 DEF ResultsAwaited, task_calls
  <2>1. CASE j = i
        BY <2>1, <1>0, <1>2 DEF ResultsAwaited, MapType
  <2>2. CASE j # i
    <3>1. j \in Index
          BY MapAssumption DEF MapType, Index
    <3>2. ASSUME NEW u \in Tasks, task[u] = "call" PROVE u # t
          BY <3>2 DEF task_calls
    <3> QED
        BY <2>2, <3>1, <3>2, <1>0, <1>2 DEF ResultsAwaited, MapType
  <2> QED
      BY <2>1, <2>2
<1>9. TasksEnded'
      BY <1>0, <1>1, <1>2, <1>4 DEF TasksEnded, MapType, task_calls, CallsOwned
<1>10. GroupEnded'
      BY <1>0, <1>2 DEF GroupEnded, task_calls
<1> QED
    BY <1>3, <1>6, <1>7, <1>8, <1>9, <1>10

(* A call returns and its result goes to the index of its input, or it     *)
(* fails.                                                                  *)
LEMMA CallReturnsInv == ASSUME MapInv, NEW t \in Tasks, call_returns(t) PROVE MapInv'
<1> USE DEF MapInv
<1>0. t \in Index /\ Tasks' = Tasks /\ Tasks \subseteq Index /\ (limit = 0 => Tasks = 1..inputs)
      BY TasksAreIndices DEF call_returns, Tasks
<1> DEFINE i == input[t]
<1>1. i \in 1..inputs /\ i \in Index /\ called[i] = 1 /\ task[t] = "call" /\ i # 0
      BY MapAssumption DEF call_returns, CallsRunning, MapType, Index
<1>2. results' = [results EXCEPT ![i] = i]
      BY DEF call_returns
<1>3. MapType'
      BY <1>0, <1>1, <1>2 DEF MapType, call_returns, Index
<1>4. CallsOwned' /\ CallsRunning'
      BY <1>0 DEF CallsOwned, CallsRunning, MapType, call_returns
<1>5. ResultsAwaited'
  <2> SUFFICES ASSUME NEW j \in 1..inputs
               PROVE  /\ results'[j] \in {0, j}
                      /\ called[j] = 1 /\ results'[j] = 0 /\ ~failed =>
                             \E u \in Tasks : task'[u] = "call" /\ input[u] = j
      BY <1>0 DEF ResultsAwaited, call_returns
  <2>1. j \in Index
        BY MapAssumption DEF MapType, Index
  <2>2. CASE j = i
        BY <2>1, <2>2, <1>1, <1>2 DEF MapType
  <2>3. CASE j # i
    <3>1. results'[j] = results[j]
          BY <2>1, <2>3, <1>1, <1>2 DEF MapType
    <3>2. ASSUME NEW u \in Tasks, task[u] = "call", input[u] = j PROVE task'[u] = "call"
          BY <3>2, <2>3, <1>0 DEF call_returns, MapType
    <3> QED
        BY <3>1, <3>2 DEF ResultsAwaited
  <2> QED
      BY <2>2, <2>3
<1>6. limit = 0 => called[t] = 1
      BY <1>1 DEF CallsRunning, call_returns
<1>7. TasksEnded'
      BY <1>0, <1>6 DEF TasksEnded, MapType, call_returns
<1>8. GroupEnded'
      BY <1>0, <1>1 DEF GroupEnded, call_returns, MapType
<1> QED
    BY <1>3, <1>4, <1>5, <1>7, <1>8

(* The steps that end a task, and what they do to the others: nothing.     *)
LEMMA TaskEndsInv ==
    ASSUME MapInv, NEW t \in Tasks, worker_ends(t) \/ call_fails(t) \/ task_cancelled(t)
    PROVE  MapInv'
<1> USE DEF MapInv
<1>0. /\ t \in Index /\ Tasks' = Tasks /\ Tasks \subseteq Index
      /\ limit = 0 => Tasks = 1..inputs
      BY TasksAreIndices DEF worker_ends, call_fails, task_cancelled, Tasks
<1>1. /\ UNCHANGED <<inputs, limit, taken, input, results, outcome, called>>
      /\ task[t] \in {"ready", "call"}
      /\ \E ended \in {"done", "cancelled"} : task' = [task EXCEPT ![t] = ended]
      BY DEF worker_ends, call_fails, task_cancelled
<1>2. MapType'
      BY <1>0, <1>1 DEF MapType
<1>3. CallsOwned' /\ CallsRunning' /\ GroupEnded'
      BY <1>0, <1>1 DEF CallsOwned, CallsRunning, GroupEnded, MapType
<1>4. CASE worker_ends(t)
  <2>1. limit > 0 /\ taken = inputs
        BY <1>0, <1>4 DEF worker_ends, next_input, MapType, CallsOwned
  <2>2. task[t] = "ready" /\ task' = [task EXCEPT ![t] = "done"] /\ failed' = failed
        BY <1>4 DEF worker_ends
  <2>3. ResultsAwaited'
        BY <1>0, <1>1, <2>2 DEF ResultsAwaited, MapType
  <2>4. TasksEnded'
        BY <1>0, <1>1, <2>1, <2>2 DEF TasksEnded, MapType
  <2> QED
      BY <1>2, <1>3, <2>3, <2>4
<1>5. CASE call_fails(t) \/ task_cancelled(t)
  <2>1. failed'
        BY <1>5 DEF call_fails, task_cancelled
  <2>2. ResultsAwaited' /\ TasksEnded'
        BY <1>0, <1>1, <2>1 DEF ResultsAwaited, TasksEnded
  <2> QED
      BY <1>2, <1>3, <2>2
<1> QED
    BY <1>4, <1>5

(* When the group ends and no call has failed every task is done, so every *)
(* input was handed out and no call is left to give a missing result.      *)
LEMMA GroupEndsInv == ASSUME MapInv, group_ends PROVE MapInv'
<1> USE DEF MapInv
<1>0. UNCHANGED <<inputs, limit, taken, task, input, results, failed, called>> /\ Tasks' = Tasks
      BY DEF group_ends, Tasks
<1>1. ASSUME ~failed, NEW i \in 1..inputs PROVE results[i] = i /\ called[i] = 1 /\ results[i] # 0
  <2>1. \A t \in Tasks : task[t] = "done"
        BY <1>1 DEF group_ends, TasksEnded
  <2>2. i \in Index
        BY MapAssumption, SMTT(30) DEF MapType, Index
  <2>3. called[i] = 1
        BY <1>1, <2>1, <2>2, TasksAreIndices, SMTT(30) DEF TasksEnded, CallsOwned, MapType
  <2>4. ~ \E t \in Tasks : task[t] = "call"
        BY <2>1
  <2> QED
      BY <1>1, <2>3, <2>4 DEF ResultsAwaited
<1>2. outcome' \in {"raised", "returned"} /\ (outcome' = "returned" => ~failed)
      BY <1>1 DEF group_ends
<1>3. GroupEnded'
      BY <1>0, <1>1, <1>2 DEF GroupEnded, group_ends
<1>4. MapType' /\ CallsOwned' /\ CallsRunning' /\ ResultsAwaited' /\ TasksEnded'
      BY <1>0, <1>2 DEF MapType, CallsOwned, CallsRunning, ResultsAwaited, TasksEnded
<1> QED
    BY <1>3, <1>4

(* Every step of a map keeps the invariant.                                *)
LEMMA MapStepInv == MapInv /\ [MapNext]_mapping => MapInv'
<1> SUFFICES ASSUME MapInv, [MapNext]_mapping PROVE MapInv'
    OBVIOUS
<1>1. CASE UNCHANGED mapping
      BY <1>1 DEF mapping, MapInv, MapType, CallsOwned, CallsRunning, ResultsAwaited, TasksEnded,
                  GroupEnded, Tasks
<1> QED
    BY <1>1, TaskCallsInv, CallReturnsInv, TaskEndsInv, GroupEndsInv DEF MapNext, TaskNext

(* No order of tasks, calls, failures and cancellations gives an input to  *)
(* the call twice, runs more calls than the limit allows, returns with a   *)
(* result missing or out of place, or ends with a call under way.          *)
THEOREM MapsExactly == MapSpec => []MapExact
<1>1. ASSUME MapInv PROVE MapExact
  <2> USE <1>1 DEF MapInv
  <2> DEFINE running == {t \in Tasks : task[t] = "call"}
  <2>1. limit > 0 => Cardinality(running) <= limit
    <3>1. ASSUME limit > 0 PROVE running \subseteq 1..limit /\ limit \in Nat
          BY <3>1, TasksAreIndices DEF MapType
    <3>2. limit \in Nat => IsFiniteSet(1..limit) /\ Cardinality(1..limit) = limit
          BY FS_Interval
    <3> QED
        BY <3>1, <3>2, FS_Subset
  <2>2. \A i \in Index : called[i] <= 1
        BY DEF CallsOwned
  <2>3. outcome # "running" => \A t \in Tasks : task[t] # "call"
        BY DEF GroupEnded
  <2> QED
      BY <2>1, <2>2, <2>3 DEF MapExact, GroupEnded
<1> QED
    BY MapInitInv, MapStepInv, <1>1, PTL DEF MapSpec
=============================================================================
