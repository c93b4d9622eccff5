--------------------------- MODULE PackageProofs ----------------------------
(***************************************************************************)
(* Six stateful parts of the Python packages, each on its own: the file    *)
(* checkpointer loses no save, the three stores are one map, the           *)
(* proof-case runtime serves every call exactly, the Scheme load caches    *)
(* never return the rows of another text, the closure pipeline never binds *)
(* the closure of other artifacts, and the AXLE command line's exit status *)
(* tells what was verified; for any number of workers, callers, threads,   *)
(* loaders, drivers and paths that overlap and stop anywhere.              *)
(***************************************************************************)
EXTENDS FileCheckpointer, RuntimeStore, ProofCase, SchemeLoad, ClosureExport,
        AxleVerify, NaturalsInduction, WellFoundedInduction,
        FiniteSetTheorems, TLAPS

-----------------------------------------------------------------------------
(* Files rewritten through a temporary sibling. *)

Content(V) == {<<>>} \cup {<<v>> : v \in V}
FileOf(V) == [path : 0..Inodes, tmp : 0..Inodes, data : [Inode -> Content(V)]]

(* A nonempty set of inodes has a least one, the one that open takes.      *)
LEMMA LeastInode ==
    ASSUME NEW S, S \subseteq Nat, S # {}
    PROVE  \E x \in S : \A y \in S : x <= y
<1> DEFINE Less == {p \in Nat \X Nat : p[1] < p[2]}
<1>1. IsWellFoundedOn(Less, Nat)
      BY NatLessThanWellFounded DEF OpToRel
<1>2. PICK x \in S : \A y \in S : ~ (<<y, x>> \in Less)
  <2> HIDE DEF Less
  <2> QED
      BY <1>1, WFMin
<1>3. ASSUME NEW y \in S PROVE x <= y
  <2>1. x \in Nat /\ y \in Nat
        OBVIOUS
  <2>2. y < x => <<y, x>> \in Less
        BY <2>1
  <2> QED
      BY <1>2, <2>1, <2>2
<1> QED
    BY <1>3

(* Opening the sibling's name takes its inode, or one that nobody has.     *)
LEMMA OpenIs ==
    ASSUME NEW V, NEW f \in FileOf(V), NEW held, Inodes \in Nat,
           f.tmp # NoInode \/ Inode \ (Linked(f) \cup held) # {}
    PROVE  /\ OpenedInode(f, held) \in Inode
           /\ f.tmp # NoInode => OpenedInode(f, held) = f.tmp
           /\ f.tmp = NoInode =>
                  OpenedInode(f, held) \notin Linked(f) /\ OpenedInode(f, held) \notin held
           /\ OpenTmp(f, held) \in FileOf(V)
           /\ OpenTmp(f, held).path = f.path /\ OpenTmp(f, held).tmp = OpenedInode(f, held)
           /\ OpenTmp(f, held).data[OpenedInode(f, held)] = <<>>
           /\ \A j \in Inode : j # OpenedInode(f, held) => OpenTmp(f, held).data[j] = f.data[j]
<1> DEFINE i == OpenedInode(f, held)
<1>1. f.tmp \in 0..Inodes /\ f.path \in 0..Inodes /\ f.data \in [Inode -> Content(V)]
      BY DEF FileOf
<1>2. f.tmp # NoInode => i = f.tmp /\ i \in Inode
      BY <1>1 DEF OpenedInode, Inode, NoInode
<1>3. ASSUME f.tmp = NoInode PROVE i \in Inode \ (Linked(f) \cup held)
  <2> DEFINE S == Inode \ (Linked(f) \cup held)
  <2>1. S \subseteq Nat /\ S # {}
        BY <1>3 DEF Inode
  <2> HIDE DEF S
  <2>2. \E x \in S : \A y \in S : x <= y
        BY <2>1, LeastInode
  <2>3. (CHOOSE x \in S : \A y \in S : x <= y) \in S
        BY <2>2
  <2>4. i = CHOOSE x \in S : \A y \in S : x <= y
        BY <1>3 DEF OpenedInode, S
  <2>5. i \in S
        BY <2>3, <2>4
  <2> QED
      BY <2>5 DEF S
<1>4. i \in Inode
      BY <1>2, <1>3
<1> HIDE DEF i
<1>5. OpenTmp(f, held) = [f EXCEPT !.tmp = i, !.data[i] = <<>>]
      BY DEF OpenTmp, i
<1>6. <<>> \in Content(V) /\ i \in 0..Inodes
      BY <1>4 DEF Content, Inode
<1>7. [f.data EXCEPT ![i] = <<>>] \in [Inode -> Content(V)]
      BY <1>1, <1>6
<1>8. OpenTmp(f, held) = [path |-> f.path, tmp |-> i, data |-> [f.data EXCEPT ![i] = <<>>]]
      BY <1>5 DEF FileOf
<1>9. /\ OpenTmp(f, held) \in FileOf(V) /\ OpenTmp(f, held).path = f.path
      /\ OpenTmp(f, held).tmp = i /\ OpenTmp(f, held).data[i] = <<>>
      /\ \A j \in Inode : j # i => OpenTmp(f, held).data[j] = f.data[j]
      BY <1>1, <1>4, <1>6, <1>7, <1>8 DEF FileOf
<1> QED
    BY <1>2, <1>3, <1>4, <1>9 DEF i

(* The other calls on files.                                               *)
LEMMA WriteIs ==
    ASSUME NEW V, NEW f \in FileOf(V), NEW i \in Linked(f), NEW v \in V, NEW g,
           g = WriteOpened(f, i, v)
    PROVE  /\ g \in FileOf(V) /\ g.path = f.path /\ g.tmp = f.tmp
           /\ g.data[i] = <<v>> /\ \A j \in Inode : j # i => g.data[j] = f.data[j]
<1>1. f.tmp \in 0..Inodes /\ f.path \in 0..Inodes /\ f.data \in [Inode -> Content(V)]
      BY DEF FileOf
<1>2. <<v>> \in Content(V) /\ Linked(f) \subseteq Inode
      BY <1>1 DEF Content, Linked, Inode, NoInode
<1>3. [f.data EXCEPT ![i] = <<v>>] \in [Inode -> Content(V)]
      BY <1>1, <1>2
<1>4. g = [path |-> f.path, tmp |-> f.tmp, data |-> [f.data EXCEPT ![i] = <<v>>]]
      BY DEF WriteOpened, FileOf
<1>5. /\ [f.data EXCEPT ![i] = <<v>>][i] = <<v>>
      /\ \A j \in Inode : j # i => [f.data EXCEPT ![i] = <<v>>][j] = f.data[j]
      BY <1>1, <1>2
<1> QED
    BY <1>1, <1>3, <1>4, <1>5 DEF FileOf

(* Only what the sibling's name points to is kept.                         *)
LEMMA KeptData ==
    ASSUME NEW V, NEW f \in FileOf(V), NEW d, d = [i \in Inode |-> IF i = f.tmp THEN f.data[i] ELSE <<>>]
    PROVE  d \in [Inode -> Content(V)] /\ (f.tmp # NoInode => f.tmp \in Inode /\ d[f.tmp] = f.data[f.tmp])
<1>1. f.tmp \in 0..Inodes /\ f.data \in [Inode -> Content(V)] /\ <<>> \in Content(V)
      BY DEF FileOf, Content
<1>2. f.tmp # NoInode => f.tmp \in Inode
      BY <1>1 DEF Inode, NoInode
<1> QED
    BY <1>1, <1>2

(* The rename gives the name of the file the inode of the sibling, with    *)
(* its content.                                                            *)
LEMMA ReplaceIs ==
    ASSUME NEW V, NEW f \in FileOf(V), f.tmp # NoInode, NEW g, g = Replace(f), Inodes \in Nat
    PROVE  /\ g \in FileOf(V) /\ g.path = f.tmp /\ g.tmp = NoInode
           /\ g.data[f.tmp] = f.data[f.tmp]
<1> DEFINE d == [i \in Inode |-> IF i = f.tmp THEN f.data[i] ELSE <<>>]
<1>1. g = [path |-> f.tmp, tmp |-> NoInode, data |-> d]
      BY DEF Replace, FileOf
<1> HIDE DEF d
<1>2. d \in [Inode -> Content(V)] /\ d[f.tmp] = f.data[f.tmp]
      BY KeptData DEF d
<1>3. f.tmp \in 0..Inodes /\ NoInode \in 0..Inodes
      BY DEF FileOf, NoInode
<1> QED
    BY <1>1, <1>2, <1>3 DEF FileOf

(* Unlinking the file leaves its sibling and what was written to it.       *)
LEMMA UnlinkIs ==
    ASSUME NEW V, NEW f \in FileOf(V), NEW g, g = Unlink(f), Inodes \in Nat
    PROVE  /\ g \in FileOf(V) /\ g.path = NoInode /\ g.tmp = f.tmp
           /\ f.tmp # NoInode => g.data[f.tmp] = f.data[f.tmp]
<1> DEFINE d == [i \in Inode |-> IF i = f.tmp THEN f.data[i] ELSE <<>>]
<1>1. g = [path |-> NoInode, tmp |-> f.tmp, data |-> d]
      BY DEF Unlink, FileOf
<1> HIDE DEF d
<1>2. d \in [Inode -> Content(V)] /\ (f.tmp # NoInode => d[f.tmp] = f.data[f.tmp])
      BY KeptData DEF d
<1>3. f.tmp \in 0..Inodes /\ NoInode \in 0..Inodes
      BY DEF FileOf, NoInode
<1> QED
    BY <1>1, <1>2, <1>3 DEF FileOf

-----------------------------------------------------------------------------
(* The file checkpointer. *)

SaveStep == {"open", "write", "replace", "mkdir", "write_history", "replace_history"}
CkptStep == SaveStep \cup {"idle", "list", "unlink"}

(* The head is whole, and at least as new as what was reported since the   *)
(* last clear.                                                             *)
HeadNewest ==
    /\ head \in FileOf(Nat) /\ saves \in Nat /\ reported \subseteq 0..saves
    /\ head.path # NoInode =>
           head.tmp # head.path /\ \E v \in 0..saves : head.data[head.path] = <<v>>
    /\ \A id \in reported \ dropped : head.path # NoInode /\ head.data[head.path][1] >= id

(* Where a call stands: what it has open, and what it has written so far.  *)
WorkerAt(w) ==
    /\ pc[w] # "write" => fd[w] = NoInode
    /\ pc[w] = "write" => fd[w] = head.tmp /\ head.tmp # NoInode
    /\ pc[w] \in SaveStep => saving[w] = saves
    /\ pc[w] = "replace" => head.tmp # NoInode /\ head.data[head.tmp] = <<saves>>
    /\ pc[w] \in {"mkdir", "write_history", "replace_history"} =>
           head.path # NoInode /\ head.data[head.path] = <<saves>>

(* At most one call is under way.                                          *)
OneCall ==
    /\ pc \in [Worker -> CkptStep] /\ fd \in [Worker -> 0..Inodes] /\ saving \in [Worker -> Nat]
    /\ \A v, w \in Worker : pc[v] # "idle" /\ pc[w] # "idle" => v = w
    /\ \A w \in Worker : WorkerAt(w)

CkptInv == SavedResolvable /\ (~overlapped => HeadNewest /\ OneCall)

(* At first there is no file and every worker is idle.                     *)
LEMMA CkptInitInv == CkptInit => CkptInv
<1> SUFFICES ASSUME CkptInit PROVE CkptInv
    OBVIOUS
<1>1. NoFile \in FileOf(Nat) /\ NoFile.path = NoInode
  <2>1. [i \in Inode |-> <<>>] \in [Inode -> Content(Nat)]
        BY DEF Content
  <2>2. NoInode \in 0..Inodes
        BY CkptAssumption DEF NoInode
  <2> QED
      BY <2>1, <2>2 DEF NoFile, FileOf
<1>2. HeadNewest
      BY <1>1 DEF CkptInit, HeadNewest
<1>3. OneCall
      BY CkptAssumption DEF CkptInit, OneCall, WorkerAt, CkptStep, SaveStep, NoInode
<1> QED
    BY <1>2, <1>3 DEF CkptInv, CkptInit, SavedResolvable

(* A call of w goes on, or begins, and no other is under way.              *)
LEMMA OneMoves ==
    ASSUME OneCall, NEW w \in Worker, \A v \in Worker : v # w => pc[v] = "idle",
           NEW step \in CkptStep, pc' = [pc EXCEPT ![w] = step],
           fd' \in [Worker -> 0..Inodes], saving' \in [Worker -> Nat],
           \A v \in Worker : v # w => fd'[v] = fd[v],
           WorkerAt(w)'
    PROVE  OneCall'
<1>1. /\ pc' \in [Worker -> CkptStep] /\ pc'[w] = step
      /\ \A v \in Worker : v # w => pc'[v] = "idle"
      BY DEF OneCall
<1>2. \A v \in Worker : v # w => WorkerAt(v)'
  <2> TAKE v \in Worker
  <2> HAVE v # w
  <2>1. pc'[v] = "idle" /\ pc[v] = "idle" /\ fd'[v] = fd[v]
        BY <1>1
  <2>2. fd[v] = NoInode
        BY <2>1 DEF OneCall, WorkerAt
  <2> QED
      BY <2>1, <2>2 DEF WorkerAt, SaveStep
<1> QED
    BY <1>1, <1>2 DEF OneCall

(* While calls do not overlap, only one worker is not idle.                *)
LEMMA OthersIdle ==
    ASSUME OneCall, NEW w \in Worker, pc[w] # "idle"
    PROVE  \A v \in Worker : v # w => pc[v] = "idle"
BY DEF OneCall

(* A save, or an update_state that ends in one, begins.                    *)
LEMMA SaveStepInv ==
    ASSUME CkptInv, NEW w \in Worker, save(w) \/ update_state(w)
    PROVE  CkptInv'
<1>1. save(w)
      BY DEF update_state
<1>2. /\ pc' = [pc EXCEPT ![w] = "open"] /\ pc[w] = "idle" /\ saves' = saves + 1
      /\ saving' = [saving EXCEPT ![w] = saves + 1]
      /\ overlapped' = (overlapped \/ \E v \in Worker \ {w} : pc[v] # "idle")
      /\ UNCHANGED <<head, history, fd, reported, unlinked, dropped>>
      BY <1>1 DEF save, Begins, files
<1>3. ASSUME ~overlapped' PROVE HeadNewest' /\ OneCall'
  <2>1. HeadNewest /\ OneCall /\ \A v \in Worker : v # w => pc[v] = "idle"
        BY <1>2, <1>3 DEF CkptInv
  <2>2. HeadNewest'
    <3>1. saves' \in Nat /\ \A v \in 0..saves : v \in 0..saves'
          BY <1>2, <2>1 DEF HeadNewest
    <3> QED
        BY <1>2, <2>1, <3>1 DEF HeadNewest
  <2>3. WorkerAt(w)' /\ fd' \in [Worker -> 0..Inodes] /\ saving' \in [Worker -> Nat]
        BY <1>2, <2>1 DEF OneCall, WorkerAt, HeadNewest
  <2> QED
      BY <1>2, <2>1, <2>2, <2>3, OneMoves DEF CkptStep, SaveStep
<1> QED
    BY <1>2, <1>3 DEF CkptInv, SavedResolvable

(* The sibling of the head is opened, and truncated if it was there.       *)
LEMMA OpenStepInv ==
    ASSUME CkptInv, NEW w \in Worker, open_tmp(w)
    PROVE  CkptInv'
<1> DEFINE held == {fd[v] : v \in Worker}
           i == OpenedInode(head, held)
<1>1. /\ pc[w] = "open" /\ pc' = [pc EXCEPT ![w] = "write"]
      /\ head' = OpenTmp(head, held) /\ fd' = [fd EXCEPT ![w] = i]
      /\ UNCHANGED <<history, saves, saving, reported, unlinked, dropped, overlapped>>
      BY DEF open_tmp, Goto, ghosts
<1>2. ASSUME ~overlapped' PROVE HeadNewest' /\ OneCall'
  <2>1. HeadNewest /\ OneCall /\ \A v \in Worker : v # w => pc[v] = "idle"
        BY <1>1, <1>2, OthersIdle DEF CkptInv
  <2>2. held = {NoInode}
    <3>1. \A v \in Worker : fd[v] = NoInode
          BY <1>1, <2>1 DEF OneCall, WorkerAt
    <3> QED
        BY <3>1
  <2>3. head \in FileOf(Nat) /\ Inodes \in Nat /\ 2 <= Inodes
    <3>1. Cardinality(Worker) \in Nat
          BY CkptAssumption, FS_CardinalityType
    <3> QED
        BY <2>1, <3>1, CkptAssumption DEF HeadNewest
  <2>4. head.tmp # NoInode \/ Inode \ (Linked(head) \cup held) # {}
    <3>1. ASSUME head.tmp = NoInode PROVE \E j \in Inode : j \notin Linked(head) /\ j \notin held
      <4>1. 1 \in Inode /\ 2 \in Inode
            BY <2>3 DEF Inode
      <4>2. Linked(head) \subseteq {head.path}
            BY <3>1 DEF Linked
      <4> QED
          BY <2>2, <4>1, <4>2 DEF NoInode
    <3> QED
        BY <3>1
  <2> HIDE DEF held
  <2>5. /\ i \in Inode
        /\ head.tmp # NoInode => i = head.tmp
        /\ head.tmp = NoInode => i \notin Linked(head)
        /\ head' \in FileOf(Nat) /\ head'.path = head.path /\ head'.tmp = i
        /\ \A j \in Inode : j # i => head'.data[j] = head.data[j]
        BY <1>1, <2>3, <2>4, OpenIs
  <2> HIDE DEF i
  <2>6. head.data \in [Inode -> Content(Nat)] /\ head.path \in 0..Inodes
        BY <2>3 DEF FileOf
  <2>7. head.path # NoInode => i # head.path /\ head'.data[head.path] = head.data[head.path]
    <3>1. ASSUME head.path # NoInode PROVE i # head.path
      <4>1. CASE head.tmp # NoInode
            BY <2>1, <2>5, <3>1, <4>1 DEF HeadNewest
      <4>2. CASE head.tmp = NoInode
            BY <2>5, <3>1, <4>2 DEF Linked
      <4> QED
          BY <4>1, <4>2
    <3>2. head.path # NoInode => head.path \in Inode
          BY <2>6 DEF Inode, NoInode
    <3> QED
        BY <2>5, <2>6, <3>1, <3>2
  <2>8. HeadNewest'
        BY <1>1, <2>1, <2>5, <2>7 DEF HeadNewest
  <2>9. /\ i # NoInode /\ fd'[w] = i /\ fd' \in [Worker -> 0..Inodes]
        /\ \A v \in Worker : v # w => fd'[v] = fd[v]
        BY <1>1, <2>1, <2>3, <2>5 DEF OneCall, Inode, NoInode
  <2>10. WorkerAt(w)'
    <3>1. pc'[w] = "write" /\ saving[w] = saves
          BY <1>1, <2>1 DEF OneCall, WorkerAt, SaveStep
    <3> QED
        BY <1>1, <2>5, <2>9, <3>1 DEF WorkerAt
  <2>11. saving' \in [Worker -> Nat] /\ "write" \in CkptStep
        BY <1>1, <2>1 DEF OneCall, CkptStep, SaveStep
  <2> QED
      BY <1>1, <2>1, <2>8, <2>9, <2>10, <2>11, OneMoves
<1> QED
    BY <1>1, <1>2 DEF CkptInv, SavedResolvable

(* The row is written to the inode that this worker opened.                *)
LEMMA WriteStepInv ==
    ASSUME CkptInv, NEW w \in Worker, write_tmp(w)
    PROVE  CkptInv'
<1>1. /\ pc[w] = "write" /\ pc' = [pc EXCEPT ![w] = "replace"]
      /\ head' = WriteOpened(head, fd[w], saving[w]) /\ fd' = [fd EXCEPT ![w] = NoInode]
      /\ UNCHANGED <<history, saves, saving, reported, unlinked, dropped, overlapped>>
      BY DEF write_tmp, Goto, ghosts
<1>2. ASSUME ~overlapped' PROVE HeadNewest' /\ OneCall'
  <2>1. HeadNewest /\ OneCall /\ \A v \in Worker : v # w => pc[v] = "idle"
        BY <1>1, <1>2, OthersIdle DEF CkptInv
  <2>2. head \in FileOf(Nat) /\ Inodes \in Nat /\ saves \in Nat
        BY <2>1, CkptAssumption DEF HeadNewest
  <2>3. fd[w] = head.tmp /\ head.tmp # NoInode /\ saving[w] = saves
        BY <1>1, <2>1 DEF OneCall, WorkerAt, SaveStep
  <2>4. head' = WriteOpened(head, head.tmp, saves) /\ head.tmp \in Linked(head)
        BY <1>1, <2>3 DEF Linked
  <2>5. /\ head' \in FileOf(Nat) /\ head'.path = head.path /\ head'.tmp = head.tmp
        /\ head'.data[head.tmp] = <<saves>>
        /\ \A j \in Inode : j # head.tmp => head'.data[j] = head.data[j]
        BY <2>2, <2>4, WriteIs
  <2>6. head.data \in [Inode -> Content(Nat)] /\ head.tmp \in Inode
        BY <2>2, <2>3 DEF FileOf, Inode, NoInode
  <2>7. head.path # NoInode => head.path \in Inode /\ head.path # head.tmp
        BY <2>1, <2>2 DEF FileOf, Inode, NoInode, HeadNewest
  <2>8. /\ head'.data[head.tmp] = <<saves>>
        /\ head.path # NoInode => head'.data[head.path] = head.data[head.path]
        BY <2>5, <2>6, <2>7
  <2>9. HeadNewest'
        BY <1>1, <2>1, <2>5, <2>8 DEF HeadNewest
  <2>10. /\ fd'[w] = NoInode /\ fd' \in [Worker -> 0..Inodes] /\ saving' \in [Worker -> Nat]
         /\ \A v \in Worker : v # w => fd'[v] = fd[v]
        BY <1>1, <2>1, <2>2 DEF OneCall, NoInode
  <2>11. WorkerAt(w)'
    <3>1. pc'[w] = "replace"
          BY <1>1, <2>1 DEF OneCall
    <3> QED
        BY <1>1, <2>3, <2>5, <2>8, <2>10, <3>1 DEF WorkerAt
  <2> QED
      BY <1>1, <2>1, <2>9, <2>10, <2>11, OneMoves DEF CkptStep, SaveStep
<1> QED
    BY <1>1, <1>2 DEF CkptInv, SavedResolvable

(* The rename makes the row the head, or, after an overlap, another one.   *)
LEMMA ReplaceStepInv ==
    ASSUME CkptInv, NEW w \in Worker, replace_head(w)
    PROVE  CkptInv'
<1>1. /\ pc[w] = "replace" /\ UNCHANGED <<history, saves, saving, fd>>
      /\ CanReplace(head) => head' = Replace(head) /\ pc' = [pc EXCEPT ![w] = "mkdir"]
      /\ UNCHANGED <<reported, unlinked, dropped, overlapped>>
      BY DEF replace_head, Goto, ghosts
<1>2. ASSUME ~overlapped' PROVE HeadNewest' /\ OneCall'
  <2>1. HeadNewest /\ OneCall /\ \A v \in Worker : v # w => pc[v] = "idle"
        BY <1>1, <1>2, OthersIdle DEF CkptInv
  <2>2. head \in FileOf(Nat) /\ Inodes \in Nat /\ saves \in Nat
        BY <2>1, CkptAssumption DEF HeadNewest
  <2>3. /\ head.tmp # NoInode /\ head.data[head.tmp] = <<saves>> /\ saving[w] = saves
        /\ fd[w] = NoInode
        BY <1>1, <2>1 DEF OneCall, WorkerAt, SaveStep
  <2>4. head' = Replace(head) /\ pc' = [pc EXCEPT ![w] = "mkdir"]
        BY <1>1, <2>3 DEF CanReplace
  <2>5. /\ head' \in FileOf(Nat) /\ head'.path = head.tmp /\ head'.tmp = NoInode
        /\ head'.data[head'.path] = <<saves>>
        BY <2>2, <2>3, <2>4, ReplaceIs
  <2>6. \A id \in reported : id <= saves
    <3>1. reported \subseteq 0..saves
          BY <2>1 DEF HeadNewest
    <3> QED
        BY <2>2, <3>1
  <2>7. saves \in 0..saves /\ <<saves>>[1] = saves
        BY <2>2
  <2>8. HeadNewest'
    <3>1. head'.path # NoInode /\ head'.tmp # head'.path
          BY <2>3, <2>5
    <3>2. \A id \in reported' \ dropped' : head'.data[head'.path][1] >= id
          BY <1>1, <2>1, <2>2, <2>5, <2>6, <2>7 DEF HeadNewest
    <3> QED
        BY <1>1, <2>1, <2>5, <2>7, <3>1, <3>2 DEF HeadNewest
  <2>9. WorkerAt(w)'
    <3>1. pc'[w] = "mkdir"
          BY <2>1, <2>4 DEF OneCall
    <3> QED
        BY <1>1, <2>3, <2>5, <3>1 DEF WorkerAt
  <2>10. fd' \in [Worker -> 0..Inodes] /\ saving' \in [Worker -> Nat]
        BY <1>1, <2>1 DEF OneCall
  <2> QED
      BY <1>1, <2>1, <2>4, <2>8, <2>9, <2>10, OneMoves DEF CkptStep, SaveStep
<1> QED
    BY <1>1, <1>2 DEF CkptInv, SavedResolvable

(* The steps that leave the head alone: w goes on to a step for which      *)
(* nothing more is asked than at the one it comes from.                    *)
LEMMA GoesOn ==
    ASSUME CkptInv, ~overlapped, NEW w \in Worker, pc[w] # "idle", NEW step \in CkptStep,
           pc' = [pc EXCEPT ![w] = step],
           \/ pc[w] \in {"mkdir", "write_history", "replace_history"}
           \/ step \in {"idle", "list", "unlink"},
           step \notin {"open", "write", "replace"},
           fd' = [fd EXCEPT ![w] = NoInode],
           UNCHANGED <<head, saves, saving>>
    PROVE  OneCall'
<1>1. OneCall /\ \A v \in Worker : v # w => pc[v] = "idle"
      BY OthersIdle DEF CkptInv
<1>2. /\ fd'[w] = NoInode /\ fd' \in [Worker -> 0..Inodes] /\ saving' \in [Worker -> Nat]
      /\ \A v \in Worker : v # w => fd'[v] = fd[v]
      BY <1>1, CkptAssumption DEF OneCall, NoInode
<1>3. pc'[w] = step
      BY <1>1 DEF OneCall
<1>4. WorkerAt(w)'
      BY <1>1, <1>2, <1>3 DEF OneCall, WorkerAt, SaveStep
<1> QED
    BY <1>1, <1>2, <1>4, OneMoves

(* Away from its write, a worker has nothing open.                         *)
LEMMA NothingOpen ==
    ASSUME CkptInv, ~overlapped, NEW w \in Worker, pc[w] # "write", UNCHANGED fd
    PROVE  fd' = [fd EXCEPT ![w] = NoInode]
BY DEF CkptInv, OneCall, WorkerAt

(* The history directory is made, the temporary history file written.      *)
LEMMA HistoryStepInv ==
    ASSUME CkptInv, NEW w \in Worker, make_history_dir(w) \/ write_history(w)
    PROVE  CkptInv'
<1>1. /\ pc[w] \in {"mkdir", "write_history"}
      /\ \E step \in {"write_history", "replace_history", "idle"} : pc' = [pc EXCEPT ![w] = step]
      /\ UNCHANGED <<head, history, saves, saving, fd, reported, unlinked, dropped, overlapped>>
      BY DEF make_history_dir, write_history, Goto, ghosts
<1>2. ASSUME ~overlapped PROVE OneCall'
  <2>1. fd' = [fd EXCEPT ![w] = NoInode]
        BY <1>1, <1>2, NothingOpen
  <2>2. PICK step \in {"write_history", "replace_history", "idle"} : pc' = [pc EXCEPT ![w] = step]
        BY <1>1
  <2>3. step \in CkptStep
        BY DEF CkptStep, SaveStep
  <2> QED
      BY <1>1, <1>2, <2>1, <2>2, <2>3, GoesOn
<1> QED
    BY <1>1, <1>2 DEF CkptInv, SavedResolvable, HeadNewest

(* The history file is renamed and the save returns to its caller.         *)
LEMMA ReportStepInv ==
    ASSUME CkptInv, NEW w \in Worker, replace_history(w)
    PROVE  CkptInv'
<1>1. /\ pc[w] = "replace_history" /\ pc' = [pc EXCEPT ![w] = "idle"]
      /\ history' = history \cup {saving[w]} /\ reported' = reported \cup {saving[w]}
      /\ UNCHANGED <<head, saves, saving, fd, unlinked, dropped, overlapped>>
      BY DEF replace_history, Goto
<1>2. SavedResolvable'
      BY <1>1 DEF CkptInv, SavedResolvable
<1>3. ASSUME ~overlapped PROVE HeadNewest' /\ OneCall'
  <2>1. HeadNewest /\ OneCall
        BY <1>3 DEF CkptInv
  <2>2. saving[w] = saves /\ head.path # NoInode /\ head.data[head.path] = <<saves>>
        BY <1>1, <2>1 DEF OneCall, WorkerAt, SaveStep
  <2>3. saves \in Nat /\ saves \in 0..saves /\ <<saves>>[1] = saves /\ saves >= saves
        BY <2>1 DEF HeadNewest
  <2>4. HeadNewest'
        BY <1>1, <2>1, <2>2, <2>3 DEF HeadNewest
  <2>5. fd' = [fd EXCEPT ![w] = NoInode]
        BY <1>1, <1>3, NothingOpen
  <2> QED
      BY <1>1, <1>3, <2>4, <2>5, GoesOn DEF CkptStep
<1> QED
    BY <1>1, <1>2, <1>3 DEF CkptInv

(* A clear begins and unlinks the head.                                    *)
LEMMA ClearStepInv ==
    ASSUME CkptInv, NEW w \in Worker, clear(w)
    PROVE  CkptInv'
<1>1. /\ pc' = [pc EXCEPT ![w] = "list"] /\ pc[w] = "idle"
      /\ overlapped' = (overlapped \/ \E v \in Worker \ {w} : pc[v] # "idle")
      /\ head' = Unlink(head) /\ dropped' = dropped \cup reported
      /\ UNCHANGED <<history, saves, saving, fd, reported, unlinked>>
      BY DEF clear, Begins
<1>2. ASSUME ~overlapped' PROVE HeadNewest' /\ OneCall'
  <2>1. HeadNewest /\ OneCall /\ \A v \in Worker : v # w => pc[v] = "idle"
        BY <1>1, <1>2 DEF CkptInv
  <2>2. head' \in FileOf(Nat) /\ head'.path = NoInode
    <3>1. head \in FileOf(Nat) /\ Inodes \in Nat
          BY <2>1, CkptAssumption DEF HeadNewest
    <3> QED
        BY <1>1, <3>1, UnlinkIs
  <2>3. HeadNewest'
        BY <1>1, <2>1, <2>2 DEF HeadNewest
  <2>4. WorkerAt(w)' /\ fd' \in [Worker -> 0..Inodes] /\ saving' \in [Worker -> Nat]
        BY <1>1, <2>1 DEF OneCall, WorkerAt, SaveStep
  <2> QED
      BY <1>1, <2>1, <2>3, <2>4, OneMoves DEF CkptStep
<1> QED
    BY <1>1, <1>2 DEF CkptInv, SavedResolvable

(* A clear lists and unlinks the history and removes its directory.        *)
LEMMA ClearingStepInv ==
    ASSUME CkptInv, NEW w \in Worker, clear_list(w) \/ clear_unlink(w) \/ clear_rmdir(w)
    PROVE  CkptInv'
<1>1. /\ pc[w] \in {"list", "unlink"}
      /\ UNCHANGED <<head, saves, saving, fd, reported, dropped, overlapped>>
      BY DEF clear_list, clear_unlink, clear_rmdir, ghosts, files
<1>2. SavedResolvable'
      BY DEF CkptInv, SavedResolvable, clear_list, clear_unlink, clear_rmdir, ghosts, files
<1>3. ASSUME ~overlapped PROVE OneCall'
  <2>1. OneCall
        BY <1>3 DEF CkptInv
  <2>2. \E step \in {"idle", "list", "unlink"} : pc' = [pc EXCEPT ![w] = step]
    <3>1. UNCHANGED pc => pc' = [pc EXCEPT ![w] = pc[w]]
          BY <2>1 DEF OneCall
    <3> QED
        BY <1>1, <3>1 DEF clear_list, clear_unlink, clear_rmdir, Goto
  <2>3. PICK step \in {"idle", "list", "unlink"} : pc' = [pc EXCEPT ![w] = step]
        BY <2>2
  <2>4. fd' = [fd EXCEPT ![w] = NoInode]
        BY <1>1, <1>3, NothingOpen
  <2> QED
      BY <1>1, <1>3, <2>3, <2>4, GoesOn DEF CkptStep
<1> QED
    BY <1>1, <1>2, <1>3 DEF CkptInv, HeadNewest

(* A worker stops, and leaves what it has done so far.                     *)
LEMMA CrashStepInv ==
    ASSUME CkptInv, NEW w \in Worker, crash(w)
    PROVE  CkptInv'
<1>1. /\ pc[w] # "idle" /\ pc' = [pc EXCEPT ![w] = "idle"]
      /\ fd' = [fd EXCEPT ![w] = NoInode]
      /\ UNCHANGED <<head, history, saves, saving, reported, unlinked, dropped, overlapped>>
      BY DEF crash, Goto, files, ghosts
<1>2. ASSUME ~overlapped PROVE OneCall'
      BY <1>1, <1>2, GoesOn DEF CkptStep
<1> QED
    BY <1>1, <1>2 DEF CkptInv, SavedResolvable, HeadNewest

(* Every step of the checkpointer keeps the invariant.                     *)
LEMMA CkptStepInv == CkptInv /\ [CkptNext]_checkpointer => CkptInv'
<1> SUFFICES ASSUME CkptInv, [CkptNext]_checkpointer PROVE CkptInv'
    OBVIOUS
<1>1. CASE UNCHANGED checkpointer
      BY <1>1 DEF checkpointer, files, ghosts, CkptInv, SavedResolvable, HeadNewest, OneCall, WorkerAt
<1>2. CASE CkptNext
      BY <1>2, SaveStepInv, OpenStepInv, WriteStepInv, ReplaceStepInv, HistoryStepInv,
         ReportStepInv, ClearStepInv, ClearingStepInv, CrashStepInv DEF CkptNext
<1> QED
    BY <1>1, <1>2

(* Whatever workers save, clear and stop, a checkpoint whose save returned *)
(* keeps its history file until a clear removes it; and as long as no two  *)
(* calls overlapped the head is whole and at least that new.  For any      *)
(* number of workers, saves and stops.                                     *)
THEOREM SavesKept == CkptSpec => []CheckpointsKept
<1>1. CkptInv => CheckpointsKept
  <2> SUFFICES ASSUME CkptInv, ~overlapped PROVE HeadWhole
      BY DEF CkptInv, CheckpointsKept, HeadWhole
  <2>1. HeadNewest
        BY DEF CkptInv
  <2>2. \A v \in Nat : <<v>> # <<>>
        OBVIOUS
  <2>3. Exists(head) => Loadable(head)
        BY SMTT(30), <2>1, <2>2 DEF HeadNewest, Exists, Loadable
  <2> QED
      BY <2>1, <2>3 DEF HeadNewest, HeadWhole, Exists, Read
<1> QED
    BY CkptInitInv, CkptStepInv, <1>1, PTL DEF CkptSpec

-----------------------------------------------------------------------------
(* The runtime stores. *)

ItemType == [value : Nat, created : Nat, updated : Nat]
FileStep == {"open", "write", "replace"}
StoreStep == FileStep \cup {"idle", "get", "now", "store"}

StoreTyped ==
    /\ kind \in {"memory", "file", "turso"} /\ clock \in Nat /\ puts \in Nat
    /\ item \in FileOf(ItemType) /\ expected \in Content(ItemType)
    /\ at \in [Caller -> StoreStep] /\ offer \in [Caller -> ItemType]
    /\ ofd \in [Caller -> 0..Inodes]
    /\ \A c \in Caller : (at[c] \in FileStep => kind = "file") /\ (at[c] = "store" => kind # "file")

(* In the file store the clock is read after the item that is replaced, so *)
(* no item, on disk or under way, is older than its creation.              *)
Stamped(it) == it.created <= it.updated /\ it.updated <= clock

Stamps ==
    kind = "file" =>
        /\ \A i \in Inode : item.data[i] # <<>> => Stamped(item.data[i][1])
        /\ \A c \in Caller :
               offer[c].created <= clock /\ (at[c] \in FileStep => Stamped(offer[c]))

(* The item is what the calls that returned make it.                       *)
MapHeld ==
    /\ expected = <<>> => item.path = NoInode
    /\ expected # <<>> =>
           /\ item.path # NoInode /\ item.data[item.path] = expected
           /\ expected[1].created # 0
    /\ item.path # NoInode => item.tmp # item.path

CreatedOf(e) == IF e = <<>> THEN 0 ELSE e[1].created

(* Where a put stands: what it has open, what it read of the item that it  *)
(* replaces, and what it has written.                                      *)
CallerAt(c) ==
    /\ at[c] # "write" => ofd[c] = NoInode
    /\ at[c] = "write" => ofd[c] = item.tmp /\ item.tmp # NoInode
    /\ at[c] \in FileStep \cup {"store"} \/ (at[c] = "now" /\ kind = "file") =>
           offer[c].created = CreatedOf(expected)
    /\ at[c] \in FileStep \cup {"store"} \/ (at[c] = "get" /\ kind # "file") =>
           offer[c].updated # 0
    /\ at[c] = "replace" => item.tmp # NoInode /\ item.data[item.tmp] = <<Item(c)>>

OneCaller ==
    /\ \A c, d \in Caller : at[c] # "idle" /\ at[d] # "idle" => c = d
    /\ \A c \in Caller : CallerAt(c)

StoreInv == StoreTyped /\ Stamps /\ (~crossed => MapHeld /\ OneCaller)

(* At first no store has an item and every caller is idle.                 *)
LEMMA StoreInitInv == StoreInit => StoreInv
<1> SUFFICES ASSUME StoreInit PROVE StoreInv
    OBVIOUS
<1>1. NoFile \in FileOf(ItemType) /\ NoFile.path = NoInode
      /\ \A i \in Inode : NoFile.data[i] = <<>>
  <2>1. [i \in Inode |-> <<>>] \in [Inode -> Content(ItemType)]
        BY DEF Content
  <2>2. NoInode \in 0..Inodes
        BY StoreAssumption DEF NoInode
  <2> QED
      BY <2>1, <2>2 DEF NoFile, FileOf
<1>2. NoItem \in ItemType /\ NoItem.created = 0
      BY DEF NoItem, ItemType
<1>3. StoreTyped
      BY <1>1, <1>2, StoreAssumption
      DEF StoreInit, StoreTyped, Content, StoreStep, FileStep, NoInode
<1>4. Stamps
      BY <1>1, <1>2 DEF StoreInit, Stamps, FileStep
<1>5. MapHeld /\ OneCaller
      BY <1>1 DEF StoreInit, MapHeld, OneCaller, CallerAt, FileStep
<1> QED
    BY <1>3, <1>4, <1>5 DEF StoreInv

(* While puts do not cross, one step of a caller leaves the others where   *)
(* they are.                                                               *)
LEMMA CallerMoves ==
    ASSUME StoreTyped, OneCaller, NEW c \in Caller, \A d \in Caller : d # c => at[d] = "idle",
           NEW step \in StoreStep, at' = [at EXCEPT ![c] = step],
           \A d \in Caller : d # c => ofd'[d] = ofd[d],
           CallerAt(c)'
    PROVE  OneCaller'
<1>1. at'[c] = step /\ \A d \in Caller : d # c => at'[d] = "idle"
      BY DEF StoreTyped
<1>2. \A d \in Caller : d # c => CallerAt(d)'
  <2> TAKE d \in Caller
  <2> HAVE d # c
  <2>1. at'[d] = "idle" /\ at[d] = "idle" /\ ofd'[d] = ofd[d]
        BY <1>1
  <2>2. ofd[d] = NoInode
        BY <2>1 DEF OneCaller, CallerAt
  <2> QED
      BY <2>1, <2>2 DEF CallerAt, FileStep
<1> QED
    BY <1>1, <1>2 DEF OneCaller

(* While puts do not cross, only one caller is not idle.                   *)
LEMMA OthersWait ==
    ASSUME OneCaller, NEW c \in Caller, at[c] # "idle"
    PROVE  \A d \in Caller : d # c => at[d] = "idle"
BY DEF OneCaller

(* The item a put stores.                                                  *)
LEMMA ItemIs ==
    ASSUME StoreTyped, NEW c \in Caller
    PROVE  /\ Item(c) \in ItemType
           /\ Item(c).updated = offer[c].updated /\ Item(c).value = offer[c].value
           /\ Item(c).created =
                  IF offer[c].created = 0 THEN offer[c].updated ELSE offer[c].created
<1>1. offer[c] \in ItemType
      BY DEF StoreTyped
<1> QED
    BY <1>1 DEF Item, ItemType

(* A put that read the item it replaces stores what one dictionary would.  *)
LEMMA PutOverIs ==
    ASSUME StoreTyped, MapHeld, NEW c \in Caller, offer[c].created = CreatedOf(expected),
           offer[c].updated # 0
    PROVE  /\ PutOver(expected, offer[c]) = <<Item(c)>> /\ Item(c).created # 0
           /\ <<Item(c)>> # <<>> /\ <<Item(c)>>[1] = Item(c) /\ <<Item(c)>> \in Content(ItemType)
<1> DEFINE o == offer[c]
           x == IF expected = <<>> THEN o.updated ELSE expected[1].created
<1>1. o \in ItemType
      BY DEF StoreTyped
<1>2. (IF o.created = 0 THEN o.updated ELSE o.created) = x /\ x # 0
  <2>1. CASE expected = <<>>
        BY <2>1 DEF CreatedOf
  <2>2. CASE expected # <<>>
    <3>1. o.created = expected[1].created /\ expected[1].created # 0
          BY <2>2 DEF CreatedOf, MapHeld
    <3> QED
        BY <2>2, <3>1
  <2> QED
      BY <2>1, <2>2
<1>3. Item(c) = [o EXCEPT !.created = x]
  <2>1. Item(c) = [o EXCEPT !.created = IF o.created = 0 THEN o.updated ELSE o.created]
        BY DEF Item
  <2> QED
      BY <1>2, <2>1
<1>4. PutOver(expected, o) = <<[o EXCEPT !.created = x]>>
      BY DEF PutOver
<1>5. Item(c) \in ItemType /\ Item(c).created = x
      BY <1>1, <1>2, ItemIs
<1> QED
    BY <1>2, <1>3, <1>4, <1>5 DEF Content

(* What one dictionary would hold after a put is an item.                  *)
LEMMA PutOverType ==
    ASSUME StoreTyped, NEW c \in Caller
    PROVE  PutOver(expected, offer[c]) \in Content(ItemType)
<1>1. \A e \in ItemType, n \in Nat : [e EXCEPT !.created = n] \in ItemType
      BY DEF ItemType
<1>2. offer[c] \in ItemType /\ offer[c].updated \in Nat
      BY DEF StoreTyped, ItemType
<1>3. expected # <<>> => expected[1].created \in Nat
  <2>1. expected # <<>> => expected[1] \in ItemType
        BY DEF StoreTyped, Content
  <2> QED
      BY <2>1 DEF ItemType
<1>4. \E n \in Nat : PutOver(expected, offer[c]) = <<[offer[c] EXCEPT !.created = n]>>
      BY <1>2, <1>3 DEF PutOver
<1> QED
    BY <1>1, <1>2, <1>4 DEF Content

(* What can be read.                                                       *)
LEMMA ReadIs ==
    ASSUME NEW V, NEW f \in FileOf(V), Loadable(f)
    PROVE  Read(f) \in V /\ f.path \in Inode /\ f.data[f.path] # <<>> /\ f.data[f.path][1] = Read(f)
<1>1. f.path \in Inode /\ f.data[f.path] \in Content(V) /\ f.data[f.path] # <<>>
  <2>1. f.path \in 0..Inodes /\ f.data \in [Inode -> Content(V)]
        BY DEF FileOf
  <2>2. f.path # NoInode /\ f.data[f.path] # <<>>
        BY DEF Loadable, Exists
  <2>3. f.path \in Inode
        BY <2>1, <2>2 DEF Inode, NoInode
  <2> QED
      BY <2>1, <2>2, <2>3
<1>2. PICK v \in V : f.data[f.path] = <<v>>
      BY <1>1 DEF Content
<1>3. <<v>>[1] = v
      OBVIOUS
<1> QED
    BY <1>1, <1>2, <1>3 DEF Read

(* A put begins; a second one under way is remembered as a crossing.       *)
LEMMA PutInv ==
    ASSUME StoreInv, NEW c \in Caller, put(c)
    PROVE  StoreInv'
<1> DEFINE new == [NoItem EXCEPT !.value = puts + 1]
           step == IF kind = "file" THEN "get" ELSE "now"
<1>1. /\ at[c] = "idle" /\ at' = [at EXCEPT ![c] = step] /\ offer' = [offer EXCEPT ![c] = new]
      /\ crossed' = (crossed \/ \E d \in Caller \ {c} : at[d] # "idle") /\ puts' = puts + 1
      /\ UNCHANGED <<kind, item, clock, ofd, expected>>
      BY DEF put, Starts, Continue
<1>2. StoreTyped
      BY DEF StoreInv
<1>3. new \in ItemType /\ new.created = 0
      BY <1>2 DEF NoItem, ItemType, StoreTyped
<1> HIDE DEF new
<1>4. step \in StoreStep /\ step \notin FileStep /\ step # "store"
      BY DEF StoreStep, FileStep
<1>5. /\ at' \in [Caller -> StoreStep] /\ at'[c] = step
      /\ \A d \in Caller : d # c => at'[d] = at[d]
      BY <1>1, <1>2, <1>4 DEF StoreTyped
<1>6. /\ offer' \in [Caller -> ItemType] /\ offer'[c] = new
      /\ \A d \in Caller : d # c => offer'[d] = offer[d]
      BY <1>1, <1>2, <1>3 DEF StoreTyped
<1>7. StoreTyped'
  <2>1. puts' \in Nat
        BY <1>1, <1>2 DEF StoreTyped
  <2>2. \A d \in Caller : (at'[d] \in FileStep => kind = "file") /\ (at'[d] = "store" => kind # "file")
        BY <1>2, <1>4, <1>5 DEF StoreTyped
  <2> QED
      BY <1>1, <1>2, <1>5, <1>6, <2>1, <2>2 DEF StoreTyped
<1>8. Stamps'
  <2>1. 0 <= clock
        BY <1>2 DEF StoreTyped
  <2> QED
      BY <1>1, <1>3, <1>4, <1>5, <1>6, <2>1 DEF StoreInv, Stamps, Stamped
<1>9. ASSUME ~crossed' PROVE MapHeld' /\ OneCaller'
  <2>1. MapHeld /\ OneCaller /\ \A d \in Caller : d # c => at[d] = "idle"
        BY <1>1, <1>9 DEF StoreInv
  <2>2. CallerAt(c)'
        BY <1>1, <1>4, <1>5, <2>1 DEF OneCaller, CallerAt, FileStep
  <2>3. OneCaller'
        BY <1>1, <1>2, <1>4, <2>1, <2>2, CallerMoves
  <2> QED
      BY <1>1, <2>1, <2>3 DEF MapHeld
<1> QED
    BY <1>7, <1>8, <1>9 DEF StoreInv

(* A put reads the creation time of the item that it replaces.             *)
LEMMA GetInv ==
    ASSUME StoreInv, NEW c \in Caller, put_get(c)
    PROVE  StoreInv'
<1> DEFINE x == IF Loadable(item) THEN Read(item).created ELSE 0
           step == IF Exists(item) /\ ~Loadable(item) THEN "idle"
                   ELSE IF kind = "file" THEN "now" ELSE "store"
<1>1. /\ at[c] = "get" /\ at' = [at EXCEPT ![c] = step]
      /\ offer' = [offer EXCEPT ![c].created = x]
      /\ UNCHANGED <<kind, item, clock, puts, ofd, expected, crossed>>
      BY DEF put_get, Continue
<1>2. StoreTyped /\ item \in FileOf(ItemType)
      BY DEF StoreInv, StoreTyped
<1>3. x \in Nat
  <2>1. Loadable(item) => Read(item) \in ItemType
        BY <1>2, ReadIs
  <2> QED
      BY <2>1 DEF ItemType
<1>4. ASSUME kind = "file" PROVE x <= clock
  <2>1. CASE Loadable(item)
    <3>1. /\ Read(item) \in ItemType /\ item.path \in Inode
          /\ item.data[item.path] # <<>> /\ item.data[item.path][1] = Read(item)
          BY <1>2, <2>1, ReadIs
    <3>2. Stamped(Read(item))
          BY <1>4, <3>1 DEF StoreInv, Stamps
    <3>3. Read(item).created \in Nat /\ Read(item).updated \in Nat /\ clock \in Nat
          BY <1>2, <3>1 DEF ItemType, StoreTyped
    <3> QED
        BY <2>1, <3>2, <3>3 DEF Stamped
  <2>2. CASE ~Loadable(item)
        BY <1>2, <2>2 DEF StoreTyped
  <2> QED
      BY <2>1, <2>2
<1>5. step \in {"idle", "now", "store"} /\ (step = "store" => kind # "file")
      BY DEF StoreStep, FileStep
<1>6. ~crossed => x = CreatedOf(expected) /\ (Exists(item) => Loadable(item))
  <2> SUFFICES ASSUME ~crossed PROVE x = CreatedOf(expected) /\ (Exists(item) => Loadable(item))
      OBVIOUS
  <2>1. MapHeld
        BY DEF StoreInv
  <2>2. CASE expected = <<>>
        BY <2>1, <2>2 DEF MapHeld, Loadable, Exists, CreatedOf
  <2>3. CASE expected # <<>>
        BY <2>1, <2>3 DEF MapHeld, Loadable, Exists, CreatedOf, Read
  <2> QED
      BY <2>2, <2>3
<1> HIDE DEF x
<1>7. /\ at' \in [Caller -> StoreStep] /\ at'[c] = step
      /\ \A d \in Caller : d # c => at'[d] = at[d]
      BY <1>1, <1>2, <1>5 DEF StoreTyped, StoreStep, FileStep
<1>8. /\ offer' \in [Caller -> ItemType] /\ offer'[c].created = x
      /\ offer'[c].updated = offer[c].updated
      /\ \A d \in Caller : d # c => offer'[d] = offer[d]
      BY <1>1, <1>2, <1>3 DEF StoreTyped, ItemType
<1> HIDE DEF step
<1>9. StoreTyped'
  <2>1. \A d \in Caller : (at'[d] \in FileStep => kind = "file") /\ (at'[d] = "store" => kind # "file")
        BY <1>2, <1>5, <1>7 DEF StoreTyped, FileStep
  <2> QED
      BY <1>1, <1>2, <1>7, <1>8, <2>1 DEF StoreTyped
<1>10. Stamps'
      BY <1>1, <1>4, <1>5, <1>7, <1>8 DEF StoreInv, Stamps, Stamped, FileStep
<1>11. ASSUME ~crossed' PROVE MapHeld' /\ OneCaller'
  <2>1. MapHeld /\ OneCaller /\ \A d \in Caller : d # c => at[d] = "idle"
        BY <1>1, <1>11, OthersWait DEF StoreInv
  <2>2. step = IF kind = "file" THEN "now" ELSE "store"
        BY <1>1, <1>6, <1>11 DEF step
  <2>3. ofd[c] = NoInode /\ (kind # "file" => offer[c].updated # 0)
        BY <1>1, <2>1 DEF OneCaller, CallerAt
  <2>4. CallerAt(c)'
        BY <1>1, <1>6, <1>7, <1>8, <1>11, <2>2, <2>3 DEF CallerAt, FileStep
  <2>5. OneCaller'
        BY <1>1, <1>2, <1>5, <2>1, <2>4, CallerMoves DEF StoreStep
  <2> QED
      BY <1>1, <2>1, <2>5 DEF MapHeld
<1> QED
    BY <1>9, <1>10, <1>11 DEF StoreInv

(* A put reads the clock.                                                  *)
LEMMA NowInv ==
    ASSUME StoreInv, NEW c \in Caller, put_now(c)
    PROVE  StoreInv'
<1> DEFINE step == IF kind = "file" THEN "open" ELSE "get"
<1>1. /\ at[c] = "now" /\ at' = [at EXCEPT ![c] = step] /\ clock' = clock + 1
      /\ offer' = [offer EXCEPT ![c].updated = clock + 1]
      /\ UNCHANGED <<kind, item, puts, ofd, expected, crossed>>
      BY DEF put_now, Continue
<1>2. StoreTyped /\ clock \in Nat /\ clock' \in Nat /\ clock + 1 # 0
      BY <1>1 DEF StoreInv, StoreTyped
<1>3. step \in StoreStep /\ step # "store" /\ (step \in FileStep => kind = "file")
      BY DEF StoreStep, FileStep
<1>4. /\ at' \in [Caller -> StoreStep] /\ at'[c] = step
      /\ \A d \in Caller : d # c => at'[d] = at[d]
      BY <1>1, <1>2, <1>3 DEF StoreTyped
<1>5. /\ offer' \in [Caller -> ItemType] /\ offer'[c].updated = clock + 1
      /\ offer'[c].created = offer[c].created /\ offer[c].created \in Nat
      /\ \A d \in Caller : d # c => offer'[d] = offer[d]
      BY <1>1, <1>2 DEF StoreTyped, ItemType
<1>6. StoreTyped'
  <2>1. \A d \in Caller : (at'[d] \in FileStep => kind = "file") /\ (at'[d] = "store" => kind # "file")
        BY <1>2, <1>3, <1>4 DEF StoreTyped
  <2> QED
      BY <1>1, <1>2, <1>4, <1>5, <2>1 DEF StoreTyped
<1>7. Stamps'
  <2> SUFFICES ASSUME kind = "file"
               PROVE  /\ \A i \in Inode : item.data[i] # <<>> => Stamped(item.data[i][1])'
                      /\ \A d \in Caller : offer'[d].created <= clock'
                             /\ (at'[d] \in FileStep => Stamped(offer[d])')
      BY <1>1 DEF Stamps, Stamped
  <2>1. /\ \A i \in Inode : item.data[i] # <<>> => Stamped(item.data[i][1])
        /\ \A d \in Caller : offer[d].created <= clock /\ (at[d] \in FileStep => Stamped(offer[d]))
        BY DEF StoreInv, Stamps
  <2>2. ASSUME NEW i \in Inode, item.data[i] # <<>> PROVE Stamped(item.data[i][1])'
    <3>1. item.data[i][1] \in ItemType
          BY <1>2, <2>2 DEF StoreTyped, FileOf, Content
    <3>2. item.data[i][1].updated \in Nat
          BY <3>1 DEF ItemType
    <3> QED
        BY <1>1, <1>2, <2>1, <2>2, <3>2 DEF Stamped
  <2>3. ASSUME NEW d \in Caller
        PROVE  offer'[d].created <= clock' /\ (at'[d] \in FileStep => Stamped(offer[d])')
    <3>1. offer[d].created \in Nat /\ offer[d].updated \in Nat
          BY <1>2 DEF StoreTyped, ItemType
    <3>2. CASE d = c
      <4>1. offer[c].created <= clock
            BY <2>1
      <4> QED
          BY <1>1, <1>2, <1>5, <3>1, <3>2, <4>1 DEF Stamped
    <3>3. CASE d # c
      <4>1. offer[d].created <= clock /\ (at[d] \in FileStep => Stamped(offer[d]))
            BY <2>1
      <4> QED
          BY <1>1, <1>2, <1>4, <1>5, <3>1, <3>3, <4>1 DEF Stamped
    <3> QED
        BY <3>2, <3>3
  <2> QED
      BY <2>2, <2>3
<1>8. ASSUME ~crossed' PROVE MapHeld' /\ OneCaller'
  <2>1. MapHeld /\ OneCaller /\ \A d \in Caller : d # c => at[d] = "idle"
        BY <1>1, <1>8, OthersWait DEF StoreInv
  <2>2. ofd[c] = NoInode /\ (kind = "file" => offer[c].created = CreatedOf(expected))
        BY <1>1, <2>1 DEF OneCaller, CallerAt
  <2>3. CallerAt(c)'
        BY <1>1, <1>2, <1>4, <1>5, <2>2 DEF CallerAt, FileStep
  <2>4. OneCaller'
        BY <1>1, <1>2, <1>3, <2>1, <2>3, CallerMoves
  <2> QED
      BY <1>1, <2>1, <2>4 DEF MapHeld
<1> QED
    BY <1>6, <1>7, <1>8 DEF StoreInv

(* There is a free inode for a new file, whoever has one open.             *)
LEMMA Room ==
    ASSUME StoreTyped, item.tmp = NoInode
    PROVE  Inode \ (Linked(item) \cup {ofd[d] : d \in Caller}) # {}
<1> DEFINE held == {ofd[d] : d \in Caller}
           used == held \cup {item.path}
<1>1. IsFiniteSet(Caller) /\ Inodes \in Nat /\ Cardinality(Caller) + 2 <= Inodes
      BY StoreAssumption
<1>2. IsFiniteSet(held) /\ Cardinality(held) <= Cardinality(Caller)
  <2> DEFINE f == [d \in Caller |-> ofd[d]]
  <2>1. f \in Surjection(Caller, held)
        BY DEF Surjection
  <2> HIDE DEF f, held
  <2> QED
      BY <1>1, <2>1, FS_Surjection
<1> HIDE DEF held
<1>3. /\ IsFiniteSet(used) /\ Cardinality(used) <= Cardinality(held) + 1
      /\ Cardinality(held) \in Nat /\ Cardinality(Caller) \in Nat
  <2>1. Cardinality(held) \in Nat /\ Cardinality(Caller) \in Nat
        BY <1>1, <1>2, FS_CardinalityType
  <2>2. IsFiniteSet(used)
        BY <1>2, FS_AddElement
  <2>3. \/ Cardinality(used) = Cardinality(held)
        \/ Cardinality(used) = Cardinality(held) + 1
        BY <1>2, FS_AddElement
  <2> QED
      BY <2>1, <2>2, <2>3
<1> HIDE DEF used
<1>4. Cardinality(Inode) = Inodes
  <2>1. Cardinality(1..Inodes) = IF 1 > Inodes THEN 0 ELSE Inodes - 1 + 1
        BY <1>1, FS_Interval
  <2>2. ~(1 > Inodes)
        BY <1>1, <1>3
  <2> QED
      BY <1>1, <2>1, <2>2 DEF Inode
<1>5. ~(Inode \subseteq used)
  <2> SUFFICES ASSUME Inode \subseteq used PROVE FALSE
      OBVIOUS
  <2>1. Cardinality(Inode) <= Cardinality(used)
        BY <1>3, FS_Subset
  <2>2. Cardinality(used) \in Nat
        BY <1>3, FS_CardinalityType
  <2> QED
      BY <1>1, <1>2, <1>3, <1>4, <2>1, <2>2
<1>6. Linked(item) \subseteq {item.path}
      BY DEF Linked
<1> QED
    BY <1>5, <1>6 DEF used, held

(* One assignment of a whole item.                                         *)
LEMMA StoredIs ==
    ASSUME NEW V, NEW f \in FileOf(V), NEW v \in V
    PROVE  /\ Stored(f, v) \in FileOf(V)
           /\ Stored(f, v).path # NoInode /\ Stored(f, v).tmp = NoInode
           /\ Stored(f, v).data[Stored(f, v).path] = <<v>>
<1> DEFINE g == Stored(f, v)
           i == OpenedInode(f, {})
           o == OpenTmp(f, {})
           h == WriteOpened(o, i, v)
<1>1. Inodes \in Nat /\ 2 <= Inodes
  <2>1. Cardinality(Caller) \in Nat
        BY StoreAssumption, FS_CardinalityType
  <2> QED
      BY <2>1, StoreAssumption
<1>2. f.tmp # NoInode \/ Inode \ (Linked(f) \cup {}) # {}
  <2>1. ASSUME f.tmp = NoInode PROVE \E j \in Inode : j \notin Linked(f)
    <3>1. 1 \in Inode /\ 2 \in Inode
          BY <1>1 DEF Inode
    <3>2. Linked(f) \subseteq {f.path}
          BY <2>1 DEF Linked
    <3> QED
        BY <3>1, <3>2
  <2> QED
      BY <2>1
<1>3. i \in Inode /\ o \in FileOf(V) /\ o.tmp = i
      BY <1>1, <1>2, OpenIs
<1>4. g = Replace(h)
      BY DEF Stored
<1> HIDE DEF i, o, g
<1>5. i # NoInode /\ i \in Linked(o)
      BY <1>3 DEF Linked, Inode, NoInode
<1>6. h \in FileOf(V) /\ h.tmp = i /\ h.data[i] = <<v>>
      BY <1>3, <1>5, WriteIs
<1> HIDE DEF h
<1>7. g \in FileOf(V) /\ g.path = i /\ g.tmp = NoInode /\ g.data[i] = <<v>>
      BY <1>1, <1>4, <1>5, <1>6, ReplaceIs
<1> QED
    BY <1>5, <1>7 DEF g

(* The memory and Turso stores store the item in one step.                 *)
LEMMA StoreCellInv ==
    ASSUME StoreInv, NEW c \in Caller, put_store(c)
    PROVE  StoreInv'
<1>1. /\ at[c] = "store" /\ at' = [at EXCEPT ![c] = "idle"] /\ item' = Stored(item, Item(c))
      /\ expected' = PutOver(expected, offer[c])
      /\ UNCHANGED <<kind, clock, puts, offer, ofd, crossed>>
      BY DEF put_store, Continue
<1>2. StoreTyped /\ item \in FileOf(ItemType) /\ Item(c) \in ItemType
      BY ItemIs DEF StoreInv, StoreTyped
<1>3. /\ item' \in FileOf(ItemType) /\ item'.path # NoInode /\ item'.tmp = NoInode
      /\ item'.data[item'.path] = <<Item(c)>>
      BY <1>1, <1>2, StoredIs
<1>4. /\ at' \in [Caller -> StoreStep] /\ at'[c] = "idle"
      /\ \A d \in Caller : d # c => at'[d] = at[d]
      BY <1>1, <1>2 DEF StoreTyped, StoreStep
<1>5. expected' \in Content(ItemType)
      BY <1>1, <1>2, PutOverType
<1>6. StoreTyped'
  <2>1. \A d \in Caller : (at'[d] \in FileStep => kind = "file") /\ (at'[d] = "store" => kind # "file")
        BY <1>2, <1>4 DEF StoreTyped, FileStep
  <2> QED
      BY <1>1, <1>2, <1>3, <1>4, <1>5, <2>1 DEF StoreTyped
<1>7. Stamps'
      BY <1>1, <1>2 DEF Stamps, StoreTyped
<1>8. ASSUME ~crossed' PROVE MapHeld' /\ OneCaller'
  <2>1. MapHeld /\ OneCaller /\ \A d \in Caller : d # c => at[d] = "idle"
        BY <1>1, <1>8, OthersWait DEF StoreInv
  <2>2. ofd[c] = NoInode /\ offer[c].created = CreatedOf(expected) /\ offer[c].updated # 0
        BY <1>1, <2>1 DEF OneCaller, CallerAt
  <2>3. /\ expected' = <<Item(c)>> /\ Item(c).created # 0
        /\ <<Item(c)>> # <<>> /\ <<Item(c)>>[1] = Item(c)
        BY <1>1, <1>2, <2>1, <2>2, PutOverIs
  <2>4. MapHeld'
        BY <1>3, <2>3 DEF MapHeld
  <2>5. CallerAt(c)'
        BY <1>1, <1>4, <2>2 DEF CallerAt, FileStep
  <2> QED
      BY <1>1, <1>2, <2>1, <2>4, <2>5, CallerMoves DEF StoreStep
<1> QED
    BY <1>6, <1>7, <1>8 DEF StoreInv

(* The file store opens the sibling of the item.                           *)
LEMMA OpenInv ==
    ASSUME StoreInv, NEW c \in Caller, put_open(c)
    PROVE  StoreInv'
<1> DEFINE held == {ofd[d] : d \in Caller}
           i == OpenedInode(item, held)
<1>1. /\ at[c] = "open" /\ at' = [at EXCEPT ![c] = "write"]
      /\ item' = OpenTmp(item, held) /\ ofd' = [ofd EXCEPT ![c] = i]
      /\ UNCHANGED <<kind, clock, puts, offer, expected, crossed>>
      BY DEF put_open, Continue
<1>2. StoreTyped /\ item \in FileOf(ItemType) /\ kind = "file" /\ Inodes \in Nat
      BY <1>1, StoreAssumption DEF StoreInv, StoreTyped, FileStep
<1>3. item.tmp # NoInode \/ Inode \ (Linked(item) \cup held) # {}
      BY <1>2, Room
<1> HIDE DEF held
<1>4. /\ i \in Inode
      /\ item.tmp # NoInode => i = item.tmp
      /\ item.tmp = NoInode => i \notin Linked(item)
      /\ item' \in FileOf(ItemType) /\ item'.path = item.path /\ item'.tmp = i
      /\ item'.data[i] = <<>> /\ \A j \in Inode : j # i => item'.data[j] = item.data[j]
      BY <1>1, <1>2, <1>3, OpenIs
<1> HIDE DEF i
<1>5. /\ at' \in [Caller -> StoreStep] /\ at'[c] = "write"
      /\ \A d \in Caller : d # c => at'[d] = at[d]
      BY <1>1, <1>2 DEF StoreTyped, StoreStep, FileStep
<1>6. /\ i # NoInode /\ ofd'[c] = i /\ ofd' \in [Caller -> 0..Inodes]
      /\ \A d \in Caller : d # c => ofd'[d] = ofd[d]
      BY <1>1, <1>2, <1>4 DEF StoreTyped, Inode, NoInode
<1>7. StoreTyped'
  <2>1. \A d \in Caller : (at'[d] \in FileStep => kind = "file") /\ (at'[d] = "store" => kind # "file")
        BY <1>2, <1>5 DEF StoreTyped, FileStep
  <2> QED
      BY <1>1, <1>2, <1>4, <1>5, <1>6, <2>1 DEF StoreTyped
<1>8. Stamps'
  <2>1. \A j \in Inode : item'.data[j] # <<>> => item'.data[j] = item.data[j]
        BY <1>4
  <2>2. \A d \in Caller : at'[d] \in FileStep => at[d] \in FileStep
        BY <1>1, <1>5 DEF FileStep
  <2> QED
      BY <1>1, <2>1, <2>2 DEF StoreInv, Stamps, Stamped
<1>9. ASSUME ~crossed' PROVE MapHeld' /\ OneCaller'
  <2>1. MapHeld /\ OneCaller /\ \A d \in Caller : d # c => at[d] = "idle"
        BY <1>1, <1>9, OthersWait DEF StoreInv
  <2>2. offer[c].created = CreatedOf(expected) /\ offer[c].updated # 0
        BY <1>1, <2>1 DEF OneCaller, CallerAt, FileStep
  <2>3. item.path # NoInode => i # item.path /\ item'.data[item.path] = item.data[item.path]
    <3>1. ASSUME item.path # NoInode PROVE i # item.path
      <4>1. CASE item.tmp # NoInode
            BY <1>4, <2>1, <3>1, <4>1 DEF MapHeld
      <4>2. CASE item.tmp = NoInode
            BY <1>4, <3>1, <4>2 DEF Linked
      <4> QED
          BY <4>1, <4>2
    <3>2. item.path \in 0..Inodes
          BY <1>2 DEF FileOf
    <3>3. item.path # NoInode => item.path \in Inode
          BY <3>2 DEF Inode, NoInode
    <3> QED
        BY <1>4, <3>1, <3>3
  <2>4. MapHeld'
        BY <1>1, <1>4, <2>1, <2>3 DEF MapHeld
  <2>5. CallerAt(c)'
        BY <1>1, <1>4, <1>5, <1>6, <2>2 DEF CallerAt
  <2> QED
      BY <1>1, <1>2, <1>6, <2>1, <2>4, <2>5, CallerMoves DEF StoreStep, FileStep
<1> QED
    BY <1>7, <1>8, <1>9 DEF StoreInv

(* The file store writes the item to the inode that this caller opened.    *)
LEMMA WriteInv ==
    ASSUME StoreInv, NEW c \in Caller, put_write(c)
    PROVE  StoreInv'
<1>1. /\ at[c] = "write" /\ at' = [at EXCEPT ![c] = "replace"]
      /\ item' = WriteOpened(item, ofd[c], Item(c)) /\ ofd' = [ofd EXCEPT ![c] = NoInode]
      /\ UNCHANGED <<kind, clock, puts, offer, expected, crossed>>
      BY DEF put_write, Continue
<1>2. /\ StoreTyped /\ item \in FileOf(ItemType) /\ kind = "file" /\ Inodes \in Nat
      /\ Item(c) \in ItemType
      BY <1>1, StoreAssumption, ItemIs DEF StoreInv, StoreTyped, FileStep
<1>3. ofd[c] \in Linked(item) =>
          /\ item' \in FileOf(ItemType) /\ item'.path = item.path /\ item'.tmp = item.tmp
          /\ item'.data[ofd[c]] = <<Item(c)>>
          /\ \A j \in Inode : j # ofd[c] => item'.data[j] = item.data[j]
      BY <1>1, <1>2, WriteIs
<1>4. ofd[c] \notin Linked(item) => item' = item
      BY <1>1 DEF WriteOpened
<1>5. /\ at' \in [Caller -> StoreStep] /\ at'[c] = "replace"
      /\ \A d \in Caller : d # c => at'[d] = at[d]
      BY <1>1, <1>2 DEF StoreTyped, StoreStep, FileStep
<1>6. /\ ofd'[c] = NoInode /\ ofd' \in [Caller -> 0..Inodes]
      /\ \A d \in Caller : d # c => ofd'[d] = ofd[d]
      BY <1>1, <1>2 DEF StoreTyped, NoInode
<1>7. StoreTyped'
  <2>1. \A d \in Caller : (at'[d] \in FileStep => kind = "file") /\ (at'[d] = "store" => kind # "file")
        BY <1>2, <1>5 DEF StoreTyped, FileStep
  <2>2. item' \in FileOf(ItemType)
        BY <1>2, <1>3, <1>4
  <2> QED
      BY <1>1, <1>2, <1>5, <1>6, <2>1, <2>2 DEF StoreTyped
<1>8. Stamps'
  <2>1. Stamped(Item(c))
    <3>1. offer[c] \in ItemType
          BY <1>2 DEF StoreTyped
    <3>2. offer[c].updated \in Nat /\ offer[c].created \in Nat /\ clock \in Nat
          BY <1>2, <3>1 DEF StoreTyped, ItemType
    <3>3. Stamped(offer[c])
          BY <1>1, <1>2 DEF StoreInv, Stamps, FileStep
    <3> QED
        BY <1>2, <3>2, <3>3, ItemIs DEF Stamped
  <2>2. <<Item(c)>>[1] = Item(c)
        OBVIOUS
  <2>3. \A j \in Inode : item'.data[j] # <<>> => Stamped(item'.data[j][1])
    <3> TAKE j \in Inode
    <3>1. item.data[j] # <<>> => Stamped(item.data[j][1])
          BY <1>2 DEF StoreInv, Stamps
    <3>2. item'.data[j] = item.data[j] \/ item'.data[j] = <<Item(c)>>
          BY <1>3, <1>4
    <3> QED
        BY <2>1, <2>2, <3>1, <3>2
  <2>4. \A d \in Caller : at'[d] \in FileStep => at[d] \in FileStep
        BY <1>1, <1>5 DEF FileStep
  <2>5. \A d \in Caller : offer[d].created <= clock /\ (at[d] \in FileStep => Stamped(offer[d]))
        BY <1>2 DEF StoreInv, Stamps
  <2> QED
      BY <1>1, <2>3, <2>4, <2>5 DEF Stamps, Stamped
<1>9. ASSUME ~crossed' PROVE MapHeld' /\ OneCaller'
  <2>1. MapHeld /\ OneCaller /\ \A d \in Caller : d # c => at[d] = "idle"
        BY <1>1, <1>9, OthersWait DEF StoreInv
  <2>2. /\ offer[c].created = CreatedOf(expected) /\ offer[c].updated # 0
        /\ ofd[c] = item.tmp /\ item.tmp # NoInode
        BY <1>1, <2>1 DEF OneCaller, CallerAt, FileStep
  <2>3. /\ item'.path = item.path /\ item'.tmp = item.tmp /\ item'.data[item.tmp] = <<Item(c)>>
        /\ \A j \in Inode : j # item.tmp => item'.data[j] = item.data[j]
        BY <1>3, <2>2 DEF Linked
  <2>4. item.path # NoInode => item'.data[item.path] = item.data[item.path]
    <3>1. item.path \in 0..Inodes
          BY <1>2 DEF FileOf
    <3>2. item.path # NoInode => item.path \in Inode /\ item.path # item.tmp
          BY <2>1, <3>1 DEF Inode, NoInode, MapHeld
    <3> QED
        BY <2>3, <3>2
  <2>5. MapHeld'
        BY <1>1, <2>1, <2>3, <2>4 DEF MapHeld
  <2>6. CallerAt(c)'
        BY <1>1, <1>5, <1>6, <2>2, <2>3 DEF CallerAt, Item
  <2> QED
      BY <1>1, <1>2, <1>6, <2>1, <2>5, <2>6, CallerMoves DEF StoreStep, FileStep
<1> QED
    BY <1>7, <1>8, <1>9 DEF StoreInv

(* The sibling's name is renamed, or taken away with its file; the inodes  *)
(* that stay linked keep what they hold.                                   *)
LEMMA KeptStamps ==
    ASSUME StoreInv, NEW i \in Inode,
           item'.data = [j \in Inode |-> IF j = item.tmp THEN item.data[j] ELSE <<>>],
           item'.data[i] # <<>>
    PROVE  item'.data[i] = item.data[i]
OBVIOUS

(* The rename makes the sibling the item.                                  *)
LEMMA ReplaceInv ==
    ASSUME StoreInv, NEW c \in Caller, put_replace(c)
    PROVE  StoreInv'
<1>1. /\ at[c] = "replace" /\ at' = [at EXCEPT ![c] = "idle"]
      /\ IF CanReplace(item)
         THEN item' = Replace(item) /\ expected' = PutOver(expected, offer[c])
         ELSE UNCHANGED <<item, expected>>
      /\ UNCHANGED <<kind, clock, puts, offer, ofd, crossed>>
      BY DEF put_replace, Continue
<1>2. StoreTyped /\ item \in FileOf(ItemType) /\ Inodes \in Nat
      BY StoreAssumption DEF StoreInv, StoreTyped
<1>3. /\ at' \in [Caller -> StoreStep] /\ at'[c] = "idle"
      /\ \A d \in Caller : d # c => at'[d] = at[d]
      BY <1>1, <1>2 DEF StoreTyped, StoreStep
<1>4. ASSUME item.tmp # NoInode
      PROVE  /\ item' \in FileOf(ItemType) /\ item'.path = item.tmp /\ item'.tmp = NoInode
             /\ item'.data[item.tmp] = item.data[item.tmp]
             /\ item'.data = [j \in Inode |-> IF j = item.tmp THEN item.data[j] ELSE <<>>]
  <2>1. item' = Replace(item)
        BY <1>1, <1>4 DEF CanReplace
  <2>2. /\ item' \in FileOf(ItemType) /\ item'.path = item.tmp /\ item'.tmp = NoInode
        /\ item'.data[item.tmp] = item.data[item.tmp]
        BY <1>2, <1>4, <2>1, ReplaceIs
  <2>3. item'.data = [j \in Inode |-> IF j = item.tmp THEN item.data[j] ELSE <<>>]
        BY <1>2, <2>1 DEF Replace, FileOf
  <2> QED
      BY <2>2, <2>3
<1>5. item.tmp = NoInode => UNCHANGED <<item, expected>>
      BY <1>1 DEF CanReplace
<1>6. StoreTyped'
  <2>1. \A d \in Caller : (at'[d] \in FileStep => kind = "file") /\ (at'[d] = "store" => kind # "file")
        BY <1>2, <1>3 DEF StoreTyped, FileStep
  <2>2. item' \in FileOf(ItemType)
        BY <1>2, <1>4, <1>5
  <2>3. expected' \in Content(ItemType)
    <3>1. expected \in Content(ItemType) /\ PutOver(expected, offer[c]) \in Content(ItemType)
          BY <1>2, PutOverType DEF StoreTyped
    <3> QED
        BY <1>1, <3>1
  <2> QED
      BY <1>1, <1>2, <1>3, <2>1, <2>2, <2>3 DEF StoreTyped
<1>7. Stamps'
  <2>1. \A j \in Inode : item'.data[j] # <<>> => item'.data[j] = item.data[j]
        BY <1>4, <1>5, KeptStamps
  <2>2. \A d \in Caller : at'[d] \in FileStep => at[d] \in FileStep
        BY <1>3 DEF FileStep
  <2> QED
      BY <1>1, <2>1, <2>2 DEF StoreInv, Stamps, Stamped
<1>8. ASSUME ~crossed' PROVE MapHeld' /\ OneCaller'
  <2>1. MapHeld /\ OneCaller /\ \A d \in Caller : d # c => at[d] = "idle"
        BY <1>1, <1>8, OthersWait DEF StoreInv
  <2>2. /\ offer[c].created = CreatedOf(expected) /\ offer[c].updated # 0 /\ ofd[c] = NoInode
        /\ item.tmp # NoInode /\ item.data[item.tmp] = <<Item(c)>>
        BY <1>1, <2>1 DEF OneCaller, CallerAt, FileStep
  <2>3. /\ PutOver(expected, offer[c]) = <<Item(c)>> /\ Item(c).created # 0
        /\ <<Item(c)>> # <<>> /\ <<Item(c)>>[1] = Item(c)
        BY <1>2, <2>1, <2>2, PutOverIs
  <2>4. expected' = <<Item(c)>>
        BY <1>1, <2>2, <2>3 DEF CanReplace
  <2>5. MapHeld'
    <3>1. /\ item'.path # NoInode /\ item'.tmp # item'.path
          /\ item'.data[item'.path] = <<Item(c)>>
          BY <1>4, <2>2
    <3> QED
        BY <2>3, <2>4, <3>1 DEF MapHeld
  <2>6. CallerAt(c)'
        BY <1>1, <1>3, <2>2 DEF CallerAt, FileStep
  <2> QED
      BY <1>1, <1>2, <2>1, <2>5, <2>6, CallerMoves DEF StoreStep
<1> QED
    BY <1>6, <1>7, <1>8 DEF StoreInv

(* The item is deleted.                                                    *)
LEMMA DeleteInv ==
    ASSUME StoreInv, NEW c \in Caller, delete(c)
    PROVE  StoreInv'
<1>1. /\ at[c] = "idle" /\ item' = Unlink(item) /\ expected' = <<>>
      /\ crossed' = (crossed \/ \E d \in Caller \ {c} : at[d] # "idle")
      /\ UNCHANGED <<kind, clock, puts, at, offer, ofd>>
      BY DEF delete, Starts
<1>2. StoreTyped /\ item \in FileOf(ItemType) /\ Inodes \in Nat
      BY StoreAssumption DEF StoreInv, StoreTyped
<1>3. /\ item' \in FileOf(ItemType) /\ item'.path = NoInode
      /\ item'.data = [j \in Inode |-> IF j = item.tmp THEN item.data[j] ELSE <<>>]
  <2>1. item' \in FileOf(ItemType) /\ item'.path = NoInode
        BY <1>1, <1>2, UnlinkIs
  <2>2. item'.data = [j \in Inode |-> IF j = item.tmp THEN item.data[j] ELSE <<>>]
        BY <1>1, <1>2 DEF Unlink, FileOf
  <2> QED
      BY <2>1, <2>2
<1>4. StoreTyped'
      BY <1>1, <1>2, <1>3 DEF StoreTyped, Content
<1>5. Stamps'
  <2>1. \A j \in Inode : item'.data[j] # <<>> => item'.data[j] = item.data[j]
        BY <1>3, KeptStamps
  <2> QED
      BY <1>1, <2>1 DEF StoreInv, Stamps, Stamped
<1>6. ASSUME ~crossed' PROVE MapHeld' /\ OneCaller'
  <2>1. OneCaller /\ \A d \in Caller : at[d] = "idle"
        BY <1>1, <1>6 DEF StoreInv
  <2>2. \A d \in Caller : CallerAt(d)'
        BY <1>1, <2>1 DEF OneCaller, CallerAt, FileStep
  <2> QED
      BY <1>1, <1>3, <2>1, <2>2 DEF MapHeld, OneCaller
<1> QED
    BY <1>4, <1>5, <1>6 DEF StoreInv

(* A caller stops, and leaves what it has done so far.                     *)
LEMMA StopInv ==
    ASSUME StoreInv, NEW c \in Caller, stop(c)
    PROVE  StoreInv'
<1>1. /\ at[c] # "idle" /\ at' = [at EXCEPT ![c] = "idle"] /\ ofd' = [ofd EXCEPT ![c] = NoInode]
      /\ UNCHANGED <<kind, item, clock, puts, offer, expected, crossed>>
      BY DEF stop, Continue
<1>2. StoreTyped /\ Inodes \in Nat
      BY StoreAssumption DEF StoreInv
<1>3. /\ at' \in [Caller -> StoreStep] /\ at'[c] = "idle"
      /\ \A d \in Caller : d # c => at'[d] = at[d]
      BY <1>1, <1>2 DEF StoreTyped, StoreStep
<1>4. /\ ofd'[c] = NoInode /\ ofd' \in [Caller -> 0..Inodes]
      /\ \A d \in Caller : d # c => ofd'[d] = ofd[d]
      BY <1>1, <1>2 DEF StoreTyped, NoInode
<1>5. StoreTyped'
  <2>1. \A d \in Caller : (at'[d] \in FileStep => kind = "file") /\ (at'[d] = "store" => kind # "file")
        BY <1>2, <1>3 DEF StoreTyped, FileStep
  <2> QED
      BY <1>1, <1>2, <1>3, <1>4, <2>1 DEF StoreTyped
<1>6. Stamps'
  <2>1. \A d \in Caller : at'[d] \in FileStep => at[d] \in FileStep
        BY <1>3 DEF FileStep
  <2> QED
      BY <1>1, <2>1 DEF StoreInv, Stamps, Stamped
<1>7. ASSUME ~crossed' PROVE MapHeld' /\ OneCaller'
  <2>1. MapHeld /\ OneCaller /\ \A d \in Caller : d # c => at[d] = "idle"
        BY <1>1, <1>7, OthersWait DEF StoreInv
  <2>2. CallerAt(c)'
        BY <1>3, <1>4 DEF CallerAt, FileStep
  <2>3. OneCaller'
        BY <1>1, <1>2, <1>4, <2>1, <2>2, CallerMoves DEF StoreStep
  <2> QED
      BY <1>1, <2>1, <2>3 DEF MapHeld
<1> QED
    BY <1>5, <1>6, <1>7 DEF StoreInv

(* Every step of a store keeps the invariant.                              *)
LEMMA StoreStepInv == StoreInv /\ [StoreNext]_store => StoreInv'
<1> SUFFICES ASSUME StoreInv, [StoreNext]_store PROVE StoreInv'
    OBVIOUS
<1>1. CASE UNCHANGED store
      BY <1>1 DEF store, StoreInv, StoreTyped, Stamps, Stamped, MapHeld, OneCaller, CallerAt, Item
<1>2. CASE StoreNext
      BY <1>2, PutInv, GetInv, NowInv, StoreCellInv, OpenInv, WriteInv, ReplaceInv,
         DeleteInv, StopInv DEF StoreNext
<1> QED
    BY <1>1, <1>2

(* For names without wildcards that differ in more than case, like is      *)
(* equality, and both searches ask for a prefix.                           *)
LEMMA SearchesAgree ==
    \A p, n \in {s \in Namespace : \A i \in DOMAIN s : s[i] \in {"a", "b"}} :
        search_turso(p, n) <=> search_memory(p, n)
<1> SUFFICES ASSUME NEW p \in Namespace, NEW n \in Namespace,
                    \A i \in DOMAIN p : p[i] \in {"a", "b"},
                    \A i \in DOMAIN n : n[i] \in {"a", "b"}
             PROVE  search_turso(p, n) <=> search_memory(p, n)
    OBVIOUS
<1>1. PICK k \in 1..2 : p \in [1..k -> Part]
      BY DEF Namespace
<1>2. PICK m \in 1..2 : n \in [1..m -> Part]
      BY DEF Namespace
<1>3. p \in Seq(Part) /\ Len(p) = k /\ n \in Seq(Part) /\ Len(n) = m
      BY <1>1, <1>2
<1>4. ASSUME NEW i \in 1..k, NEW j \in 1..m PROVE like(p[i], n[j]) <=> p[i] = n[j]
  <2>1. p[i] \in {"a", "b"} /\ n[j] \in {"a", "b"}
        BY <1>1, <1>2
  <2> QED
      BY <2>1 DEF like, Fold
<1>5. n = p <=> k = m /\ \A i \in 1..k : n[i] = p[i]
      BY <1>1, <1>2, <1>3
<1>6. k <= m => (SubSeq(n, 1, k) = p <=> \A i \in 1..k : n[i] = p[i])
  <2> SUFFICES ASSUME k <= m PROVE SubSeq(n, 1, k) = p <=> \A i \in 1..k : n[i] = p[i]
      OBVIOUS
  <2>1. /\ SubSeq(n, 1, k) \in Seq(Part) /\ Len(SubSeq(n, 1, k)) = k
        /\ \A i \in 1..k : SubSeq(n, 1, k)[i] = n[i]
        BY <1>3
  <2> QED
      BY <1>1, <1>3, <2>1
<1>7. search_memory(p, n) <=> k <= m /\ \A i \in 1..k : n[i] = p[i]
      BY <1>3, <1>6 DEF search_memory
<1>8. search_turso(p, n) <=>
          \/ k = m /\ \A i \in 1..k : n[i] = p[i]
          \/ k < m /\ \A i \in 1..k : n[i] = p[i]
  <2>1. DOMAIN p = 1..k
        BY <1>1
  <2>2. k < m => \A i \in 1..k : like(p[i], n[i]) <=> n[i] = p[i]
        BY <1>4
  <2> QED
      BY <1>3, <1>5, <2>1, <2>2 DEF search_turso
<1> QED
    BY <1>7, <1>8

(* The memory, file and Turso stores are one map for any number of callers *)
(* that put, delete and stop anywhere, as long as no two calls overlapped; *)
(* the file store's stamps are in order, overlaps or not.                  *)
THEOREM StoresAreMaps == StoreSpec => []StoreIsMap
<1>1. StoreInv => StoreIsMap
  <2> SUFFICES ASSUME StoreInv PROVE StoreIsMap
      OBVIOUS
  <2>1. item \in FileOf(ItemType)
        BY DEF StoreInv, StoreTyped
  <2>2. ASSUME ~crossed
        PROVE  IF expected = <<>> THEN ~Exists(item)
               ELSE Loadable(item) /\ Read(item) = expected[1]
        BY <2>2 DEF StoreInv, MapHeld, Exists, Loadable, Read
  <2>3. ASSUME kind = "file", Loadable(item) PROVE Read(item).created <= Read(item).updated
    <3>1. /\ item.path \in Inode /\ item.data[item.path] # <<>>
          /\ item.data[item.path][1] = Read(item)
          BY <2>1, <2>3, ReadIs
    <3> QED
        BY <2>3, <3>1 DEF StoreInv, Stamps, Stamped
  <2> QED
      BY <2>2, <2>3, SearchesAgree DEF StoreIsMap, SameSearch
<1> QED
    BY StoreInitInv, StoreStepInv, <1>1, PTL DEF StoreSpec

-----------------------------------------------------------------------------
(* The proof-case runtime. *)

(* The steps of a call at which its handle is set.                         *)
Served == {"negotiate", "lock", "locked", "write", "release"}

Call ==
    [at : Served \cup {"idle", "ended"}, vector : Nat, fits : BOOLEAN,
     status : {"OK", "MALFORMED_EVIDENCE", "SCHEMA_MISMATCH", "BUFFER_TOO_SMALL", "STALE_HANDLE"}]

CaseType ==
    /\ library_layout \in {"generated", "other"}
    /\ layout \in {"none", "generated"}
    /\ handle \in [Thread -> Nat] /\ output \in [Thread -> Nat]
    /\ thread \in [Thread -> Call]
    /\ validations \in Nat

(* The handle of a call is set, to its own vector, from its validation to  *)
(* its release, whatever the other threads do.                             *)
HandleOwned(t) ==
    /\ thread[t].at \in Served => handle[t] = thread[t].vector /\ thread[t].vector # 0
    /\ thread[t].at \notin Served => handle[t] = 0

(* Only the thread between the two lock steps holds the lock.              *)
LockOwned(t) == layout_lock = t <=> thread[t].at = "locked"

(* A call comes to its write only under the generated layout, and past it  *)
(* without an error only with its own vector copied.                       *)
Progress(t) ==
    /\ thread[t].status # "STALE_HANDLE"
    /\ thread[t].at = "write" => layout = "generated"
    /\ thread[t].at \in {"release", "ended"} /\ thread[t].status = "OK" =>
           output[t] = thread[t].vector /\ layout = "generated"

CaseInv ==
    /\ CaseType
    /\ measurements = (IF layout = "none" THEN 0 ELSE 1)
    /\ \A t \in Thread : HandleOwned(t) /\ LockOwned(t) /\ Progress(t)

(* At first no thread has a handle and nobody holds the lock.              *)
LEMMA CaseInitInv == CaseInit => CaseInv
BY ThreadAssumption
   DEF CaseInit, CaseInv, CaseType, Call, Served, NoCall, HandleOwned, LockOwned, Progress, Free

(* One step of one thread: the obligations of the other threads are about  *)
(* what it leaves alone, their handle, their call and their buffer, about  *)
(* the lock, which it only moves between itself and Free, and about the    *)
(* layout, which once negotiated stays.                                    *)
LEMMA CaseStepInv == CaseInv /\ [CaseNext]_proofcase => CaseInv'
<1> SUFFICES ASSUME CaseInv, [CaseNext]_proofcase PROVE CaseInv'
    OBVIOUS
<1> USE DEF CaseInv, CaseType, Call, Served, HandleOwned, LockOwned, Progress, In, To, Raises,
            scratch, NoCall, Free
<1>1. ASSUME NEW t \in Thread, NEW valid \in BOOLEAN, NEW fits \in BOOLEAN,
             case_init(t, valid, fits)
      PROVE  CaseInv'
      BY <1>1 DEF case_init
<1>2. ASSUME NEW t \in Thread, negotiate_cached(t) PROVE CaseInv'
      BY <1>2 DEF negotiate_cached
<1>3. ASSUME NEW t \in Thread, negotiate_lock(t) PROVE CaseInv'
      BY <1>3, ThreadAssumption DEF negotiate_lock
<1>4. ASSUME NEW t \in Thread, case_measure(t) PROVE CaseInv'
      BY <1>4, ThreadAssumption DEF case_measure
<1>5. ASSUME NEW t \in Thread, case_write(t) PROVE CaseInv'
      BY <1>5 DEF case_write
<1>6. ASSUME NEW t \in Thread, case_release(t) PROVE CaseInv'
      BY SMTT(30), <1>6 DEF case_release
<1>7. ASSUME NEW t \in Thread, case_returns(t) PROVE CaseInv'
      BY <1>7 DEF case_returns
<1>8. CASE UNCHANGED proofcase
      BY <1>8 DEF proofcase
<1> QED
    BY <1>1, <1>2, <1>3, <1>4, <1>5, <1>6, <1>7, <1>8 DEF CaseNext

(* However many threads race through validation, the negotiation of the    *)
(* layout, the copy and the release, every call that ends without an error *)
(* has its own vector under the generated layout, none meets a handle that *)
(* another released, and the layout is measured once.                      *)
THEOREM CallsServed == CaseSpec => []CaseServed
<1>1. CaseInv => CaseServed
      BY DEF CaseInv, CaseServed, HandleOwned, LockOwned, Progress, In, Served
<1> QED
    BY CaseInitInv, CaseStepInv, <1>1, PTL DEF CaseSpec

-----------------------------------------------------------------------------
(* The Scheme load cache. *)

FileStamps == [Files -> Nat]
LoadKeys == [Listed -> Nat]
Texts == [fragment : Int, projection : Int]
Rows == [fragment : Int, projection : Int, library : Int, unlisted : Int,
         made : {"now", "earlier", "before"}]
AtWork ==
    [at : {"warm", "artifact", "aot", "run", "store", "digest", "write"}, key : LoadKeys \cup (Int \X Int),
     cached : BOOLEAN, writes : BOOLEAN, rows : Rows \cup {Nothing}]

(* A key taken at some time: it names the listed files as they are if it   *)
(* is their stamps, and once it is not it never is again.                  *)
KeyOk(key) == key \in LoadKeys /\ \A f \in Listed : key[f] <= touches

(* Texts, and rows, of the files as they are.                              *)
TextsNow(texts) == texts.fragment = content["fragment"] /\ texts.projection = content["projection"]
RowsNow(rows) ==
    /\ TextsNow(rows)
    /\ rows.made # "before" =>
           rows.library = compiled["library"] /\ compiled["library"] = content["library"]

(* Rows made in a call that nothing disturbed are of the whole library as  *)
(* it is compiled.                                                         *)
RowsCompiled(rows) ==
    rows.made = "now" => rows.library = compiled["library"] /\ rows.unlisted = compiled["unlisted"]

(* A loader at work: what it has obtained under a key is of the files as   *)
(* they are if the key still names them, and the digests of an artifact    *)
(* are those of its rows.                                                  *)
LoaderKeyed(j) ==
    /\ j.at # "write" => KeyOk(j.key)
    /\ j.at \in {"store", "digest", "write"} => j.rows \in Rows
    /\ j.at = "write" => j.key \in Int \X Int
LoaderOrderly(j) ==
    /\ j.at \in {"store", "digest"} /\ j.key = scheme_load_cache_key => RowsNow(j.rows)
    /\ j.at = "write" => j.key = <<j.rows.fragment, j.rows.projection>>
LoaderOk(j) == j = Waiting \/ (j \in AtWork /\ LoaderKeyed(j) /\ (orderly => LoaderOrderly(j)))

(* The warm cache, the runners, the artifact and what was last returned:   *)
(* whatever is kept under a key that is still the stamps is of the files   *)
(* as they are, and an artifact's digests are those of its rows.           *)
WarmOk(entries) ==
    \A entry \in entries :
        /\ entry = <<entry[1], entry[2]>> /\ KeyOk(entry[1]) /\ entry[2] \in Rows
        /\ orderly /\ entry[1] = scheme_load_cache_key => RowsNow(entry[2])

RunnersOk(entries) ==
    \A entry \in entries :
        /\ entry = <<entry[1], entry[2]>> /\ KeyOk(entry[1]) /\ entry[2] \in Texts
        /\ entry[1] = scheme_load_cache_key => TextsNow(entry[2])

ArtifactOk(a) ==
    \/ a \in {Nothing, Partly}
    \/ /\ a \in [digests : Int \X Int, rows : Rows] /\ a.rows.made = "before"
       /\ orderly => a.digests = <<a.rows.fragment, a.rows.projection>>

LastOk(rs) ==
    rs # Nothing =>
        /\ rs[1] \in Rows
        /\ orderly =>
               /\ rs[1].fragment = content["fragment"]
               /\ found => rs[1].projection = content["projection"]
               /\ rs[1].made # "before" => rs[1].library = compiled["library"]
        /\ RowsCompiled(rs[1])

FilesOk ==
    /\ stamp \in FileStamps /\ content \in [Files -> Int] /\ compiled \in [Modules -> Int] /\ touches \in Nat
    /\ \A f \in Files : stamp[f] <= touches

UndisturbedOk(j) ==
    /\ j # Waiting /\ (j.at # "write" => j.key = scheme_load_cache_key)
    /\ j.at \in {"store", "digest"} => RowsCompiled(j.rows)

(* The invariant.  A loader that nothing disturbed still has the stamps    *)
(* for its key, so all that it finds under the key is of the files.        *)
LoadInv ==
    /\ FilesOk
    /\ loader = [l \in Loader |-> loader[l]] /\ \A l \in Loader : LoaderOk(loader[l])
    /\ \A l \in undisturbed : l \in Loader /\ UndisturbedOk(loader[l])
    /\ WarmOk(warm) /\ RunnersOk(runners) /\ ArtifactOk(artifact) /\ LastOk(last)

(* No cache has an entry and no loader is at work at first.                *)
LEMMA LoadInitInv == LoadInit => LoadInv
<1> SUFFICES ASSUME LoadInit PROVE LoadInv
    OBVIOUS
<1>1. FilesOk
      BY DEF LoadInit, FilesOk, FileStamps, Files, Modules
<1>2. loader = [l \in Loader |-> Waiting] /\ undisturbed = {}
      BY DEF LoadInit
<1>3. loader = [l \in Loader |-> loader[l]] /\ \A l \in Loader : LoaderOk(loader[l])
      BY <1>2 DEF LoaderOk
<1>4. WarmOk(warm) /\ RunnersOk(runners) /\ ArtifactOk(artifact) /\ LastOk(last)
      BY DEF LoadInit, WarmOk, RunnersOk, ArtifactOk, LastOk
<1> QED
    BY <1>1, <1>2, <1>3, <1>4 DEF LoadInv

(* What a key that still names the listed files after an edit or a build   *)
(* says of them.                                                           *)
KeyStays(key) ==
    /\ key = scheme_load_cache_key
    /\ \A f \in {"fragment", "projection", "library"} : content'[f] = content[f]
    /\ UNCHANGED compiled \/ compiled' = [m \in Modules |-> content[m]]

(* What is still known after an edit, a build or a shipment.               *)
LEMMA TouchInv ==
    ASSUME LoadInv, Touch, content' \in [Files -> Int], compiled' \in [Modules -> Int],
           UNCHANGED <<Caches, loader, orderly>>,
           \/ \E f \in Files : /\ stamp' = [stamp EXCEPT ![f] = touches'] /\ UNCHANGED compiled
                               /\ \A g \in Files : g # f => content'[g] = content[g]
           \/ UNCHANGED <<stamp, content>> /\ compiled' = [m \in Modules |-> content[m]]
           \/ UNCHANGED <<stamp, content, compiled>>
    PROVE  LoadInv'
<1>1. touches' = touches + 1 /\ undisturbed' = {} /\ last' = Nothing
      BY DEF Touch
<1>2. warm' = warm /\ artifact' = artifact /\ runners' = runners /\ loader' = loader /\ orderly' = orderly
      BY DEF Caches
<1>3. FilesOk
      BY DEF LoadInv
<1>4. FilesOk'
      BY <1>1, <1>3 DEF FilesOk, FileStamps
<1>5. ASSUME NEW key, KeyOk(key)
      PROVE  KeyOk(key)' /\ (key = scheme_load_cache_key' => KeyStays(key))
  <2>1. KeyOk(key)'
        BY <1>1, <1>3, <1>5 DEF KeyOk, FilesOk, LoadKeys
  <2>2. ASSUME key = scheme_load_cache_key' PROVE KeyStays(key)
    <3>1. CASE UNCHANGED <<stamp, content>>
          BY <2>2, <3>1 DEF KeyStays, scheme_load_cache_key, Files, Listed, Modules
    <3>2. ASSUME NEW f \in Files, stamp' = [stamp EXCEPT ![f] = touches'], UNCHANGED compiled,
                 \A g \in Files : g # f => content'[g] = content[g]
          PROVE  KeyStays(key)
      <4>1. f \notin Listed
        <5>1. f \in Listed => key[f] = touches + 1 /\ key[f] \in Nat /\ key[f] <= touches
              BY <1>1, <1>3, <1>5, <2>2, <3>2 DEF KeyOk, FilesOk, FileStamps, LoadKeys, scheme_load_cache_key
        <5>2. touches \in Nat
              BY <1>3 DEF FilesOk
        <5> QED
            BY <5>1, <5>2
      <4>2. \A g \in Listed : g \in Files /\ stamp'[g] = stamp[g] /\ content'[g] = content[g]
            BY <1>3, <3>2, <4>1 DEF FilesOk, FileStamps, Listed
      <4>3. "fragment" \in Listed /\ "projection" \in Listed /\ "library" \in Listed
            BY DEF Listed, Files, Modules
      <4> QED
          BY <2>2, <3>2, <4>2, <4>3 DEF KeyStays, scheme_load_cache_key
    <3> QED
        BY <3>1, <3>2
  <2> QED
      BY <2>1, <2>2
<1>6. ASSUME NEW key, KeyOk(key), key = scheme_load_cache_key'
      PROVE  /\ key = scheme_load_cache_key
             /\ \A t : (TextsNow(t) => TextsNow(t)') /\ (RowsNow(t) => RowsNow(t)')
  <2>1. KeyStays(key)
        BY <1>5, <1>6
  <2>2. "library" \in Modules
        BY DEF Modules
  <2> QED
      BY <2>1, <2>2 DEF TextsNow, RowsNow, KeyStays
<1>7. ASSUME NEW j, LoaderOk(j) PROVE LoaderOk(j)'
  <2>1. CASE j = Waiting
        BY <2>1 DEF LoaderOk
  <2>2. CASE j # Waiting
    <3>1. j \in AtWork /\ LoaderKeyed(j) /\ (orderly => LoaderOrderly(j))
          BY <1>7, <2>2 DEF LoaderOk
    <3>2. LoaderKeyed(j)'
          BY <1>5, <3>1 DEF LoaderKeyed
    <3>3. orderly' => LoaderOrderly(j)'
      <4> SUFFICES ASSUME orderly PROVE LoaderOrderly(j)'
          BY <1>2
      <4>1. j.at \in {"store", "digest"} /\ j.key = scheme_load_cache_key' => RowsNow(j.rows)'
            BY <1>6, <3>1 DEF LoaderOrderly, LoaderKeyed
      <4>2. j.at = "write" => j.key = <<j.rows.fragment, j.rows.projection>>
            BY <3>1 DEF LoaderOrderly
      <4> QED
          BY <4>1, <4>2 DEF LoaderOrderly
    <3> QED
        BY <3>1, <3>2, <3>3 DEF LoaderOk
  <2> QED
      BY <2>1, <2>2
<1>8. \A l \in Loader : LoaderOk(loader[l])'
  <2>1. \A l \in Loader : LoaderOk(loader'[l])
        BY <1>2 DEF LoadInv
  <2> QED
      BY <1>7, <2>1
<1>9. WarmOk(warm)'
  <2>1. WarmOk(warm)
        BY DEF LoadInv
  <2> QED
      BY <1>2, <1>5, <1>6, <2>1 DEF WarmOk
<1>10. RunnersOk(runners)'
  <2>1. RunnersOk(runners)
        BY DEF LoadInv
  <2> QED
      BY <1>2, <1>5, <1>6, <2>1 DEF RunnersOk
<1>11. ArtifactOk(artifact)' /\ LastOk(last)'
       BY <1>1, <1>2 DEF LoadInv, ArtifactOk, LastOk
<1>12. loader' = [l \in Loader |-> loader'[l]]
       BY <1>2 DEF LoadInv
<1> QED
    BY <1>1, <1>4, <1>8, <1>9, <1>10, <1>11, <1>12 DEF LoadInv

(* What does not depend on who moves: files and orderliness are as before, *)
(* or less orderly.                                                        *)
LEMMA StillOk ==
    ASSUME UNCHANGED FileState, orderly' => orderly
    PROVE  /\ \A j : LoaderOk(j) => LoaderOk(j)'
           /\ \A e : (WarmOk(e) => WarmOk(e)') /\ (RunnersOk(e) => RunnersOk(e)')
           /\ \A a : (ArtifactOk(a) => ArtifactOk(a)') /\ (LastOk(a) => LastOk(a)')
           /\ \A j : UndisturbedOk(j) => UndisturbedOk(j)'
           /\ FilesOk => FilesOk'
<1>1. /\ scheme_load_cache_key' = scheme_load_cache_key
      /\ stamp' = stamp /\ content' = content /\ compiled' = compiled /\ found' = found /\ touches' = touches
      BY DEF FileState, scheme_load_cache_key
<1>2. \A t : (TextsNow(t) => TextsNow(t)') /\ (RowsNow(t) => RowsNow(t)') /\ (KeyOk(t) => KeyOk(t)')
      BY <1>1 DEF TextsNow, RowsNow, KeyOk
<1>3. ASSUME NEW j, LoaderOk(j) PROVE LoaderOk(j)'
  <2>1. CASE j = Waiting
        BY <2>1 DEF LoaderOk
  <2>2. CASE j # Waiting
    <3>1. j \in AtWork /\ LoaderKeyed(j) /\ (orderly => LoaderOrderly(j))
          BY <1>3, <2>2 DEF LoaderOk
    <3>2. LoaderKeyed(j)'
          BY <1>2, <3>1 DEF LoaderKeyed
    <3>3. orderly' => LoaderOrderly(j)'
          BY <1>1, <1>2, <3>1 DEF LoaderOrderly
    <3> QED
        BY <3>1, <3>2, <3>3 DEF LoaderOk
  <2> QED
      BY <2>1, <2>2
<1>4. \A e : (WarmOk(e) => WarmOk(e)') /\ (RunnersOk(e) => RunnersOk(e)')
      BY <1>1, <1>2 DEF WarmOk, RunnersOk
<1>5. \A a : (ArtifactOk(a) => ArtifactOk(a)') /\ (LastOk(a) => LastOk(a)')
      BY <1>1 DEF ArtifactOk, LastOk, RowsCompiled
<1>6. FilesOk => FilesOk'
      BY <1>1 DEF FilesOk
<1>7. \A j : UndisturbedOk(j) => UndisturbedOk(j)'
      BY <1>1 DEF UndisturbedOk, RowsCompiled
<1> QED
    BY <1>3, <1>4, <1>5, <1>6, <1>7

(* One loader goes on.                                                     *)
LEMMA LoaderMoves ==
    ASSUME LoadInv, UNCHANGED FileState, orderly' => orderly, NEW l \in Loader, NEW new, Goes(l, new),
           LoaderOk(new)', undisturbed' \subseteq undisturbed \cup {l},
           l \in undisturbed' => UndisturbedOk(new),
           WarmOk(warm)', RunnersOk(runners)', ArtifactOk(artifact)', LastOk(last)'
    PROVE  LoadInv'
<1>1. DOMAIN loader = Loader /\ \A v \in Loader : LoaderOk(loader[v])
      BY DEF LoadInv
<1>2. \A v \in Loader : loader'[v] = IF v = l THEN new ELSE loader[v]
      BY <1>1 DEF Goes
<1>3. loader' = [v \in Loader |-> loader'[v]]
      BY <1>1 DEF Goes
<1>4. \A v \in Loader : v # l => LoaderOk(loader'[v])
      BY <1>1, <1>2
<1>5. \A v \in Loader : v # l => LoaderOk(loader[v])'
      BY <1>4, StillOk
<1>6. LoaderOk(loader[l])'
  <2>1. loader'[l] = new
        BY <1>2
  <2> QED
      BY <2>1
<1>7. \A v \in undisturbed' : v \in Loader /\ UndisturbedOk(loader'[v])
      BY <1>2 DEF LoadInv
<1>8. \A v \in undisturbed' : v \in Loader /\ UndisturbedOk(loader[v])'
      BY <1>7, StillOk
<1>9. FilesOk'
      BY StillOk DEF LoadInv
<1> QED
    BY <1>3, <1>5, <1>6, <1>8, <1>9 DEF LoadInv

(* Nobody goes on; caches or what was last returned change.                *)
LEMMA NobodyMoves ==
    ASSUME LoadInv, UNCHANGED <<FileState, orderly, loader, undisturbed>>,
           WarmOk(warm)', RunnersOk(runners)', ArtifactOk(artifact)', LastOk(last)'
    PROVE  LoadInv'
<1>1. /\ UNCHANGED FileState /\ orderly' = orderly /\ loader' = loader /\ undisturbed' = undisturbed
      OBVIOUS
<1>2. \A v \in Loader : LoaderOk(loader'[v])
      BY <1>1 DEF LoadInv
<1>3. (\A v \in Loader : LoaderOk(loader[v])') /\ FilesOk'
      BY <1>1, <1>2, StillOk DEF LoadInv
<1>4. \A v \in undisturbed' : v \in Loader /\ UndisturbedOk(loader'[v])
      BY <1>1 DEF LoadInv
<1>5. loader' = [v \in Loader |-> loader'[v]]
      BY <1>1 DEF LoadInv
<1>6. \A v \in undisturbed' : v \in Loader /\ UndisturbedOk(loader[v])'
      BY <1>1, <1>4, StillOk
<1> QED
    BY <1>3, <1>5, <1>6 DEF LoadInv

(* The caches that a step leaves alone.                                    *)
LEMMA CachesStay ==
    ASSUME LoadInv, UNCHANGED FileState, orderly' => orderly
    PROVE  /\ warm' = warm => WarmOk(warm)'
           /\ runners' = runners => RunnersOk(runners)'
           /\ artifact' = artifact => ArtifactOk(artifact)'
           /\ last' = last => LastOk(last)'
           /\ last' = Nothing => LastOk(last)'
<1>1. WarmOk(warm) /\ RunnersOk(runners) /\ ArtifactOk(artifact) /\ LastOk(last)
      BY DEF LoadInv
<1>2. /\ warm' = warm => WarmOk(warm')
      /\ runners' = runners => RunnersOk(runners')
      /\ artifact' = artifact => ArtifactOk(artifact')
      /\ last' = last => LastOk(last')
      BY <1>1
<1>3. last' = Nothing => LastOk(last)'
      BY DEF LastOk
<1> QED
    BY <1>2, <1>3, StillOk

(* What is known of a loader at work.                                      *)
LEMMA LoaderIs ==
    ASSUME LoadInv, NEW l \in Loader, loader[l].at # "idle"
    PROVE  loader[l] \in AtWork /\ LoaderKeyed(loader[l]) /\ (orderly => LoaderOrderly(loader[l]))
BY DEF LoadInv, LoaderOk, Waiting

(* The rows of an artifact whose digests match are of these texts.         *)
LEMMA ArtifactRows ==
    ASSUME LoadInv, read_artifact_rows # Nothing
    PROVE  /\ read_artifact_rows \in Rows /\ read_artifact_rows.made = "before"
           /\ orderly => /\ read_artifact_rows.fragment = content["fragment"]
                         /\ found => read_artifact_rows.projection = content["projection"]
<1> DEFINE a == artifact
<1>1. /\ a \notin {Nothing, Partly} /\ a.digests[1] = artifact_fingerprints[1]
      /\ found => a.digests = artifact_fingerprints
      /\ read_artifact_rows = a.rows
      BY DEF read_artifact_rows
<1>2. /\ a \in [digests : Int \X Int, rows : Rows] /\ a.rows.made = "before"
      /\ orderly => a.digests = <<a.rows.fragment, a.rows.projection>>
      BY <1>1 DEF LoadInv, ArtifactOk
<1>3. a.rows \in Rows
      BY <1>2
<1> HIDE DEF a
<1>4. orderly => a.rows.fragment = content["fragment"] /\ (found => a.rows.projection = content["projection"])
      BY <1>1, <1>2 DEF artifact_fingerprints
<1> QED
    BY <1>1, <1>2, <1>3, <1>4

(* What is found under a key was put there.                                *)
LEMMA EntryIs ==
    ASSUME NEW entries, NEW key, Found(entries, key)
    PROVE  \E entry \in entries : entry[1] = key /\ Entry(entries, key) = entry[2]
<1>1. PICK entry \in entries : entry = CHOOSE e \in entries : e[1] = key
      BY DEF Found
<1>2. (CHOOSE e \in entries : e[1] = key)[1] = key
      BY DEF Found
<1> QED
    BY <1>1, <1>2 DEF Entry

(* A call begins with the key of the files as they are.                    *)
LEMMA BeginInv ==
    ASSUME LoadInv, NEW l \in Loader, NEW step \in {"warm", "aot"}, NEW cached \in BOOLEAN,
           NEW writes \in BOOLEAN,
           Goes(l, [at |-> step, key |-> scheme_load_cache_key, cached |-> cached,
                    writes |-> writes, rows |-> Nothing]),
           undisturbed' = undisturbed \cup {l}, UNCHANGED <<FileState, Caches, orderly, last>>
    PROVE  LoadInv'
<1>1. PICK new : new = [at |-> step, key |-> scheme_load_cache_key, cached |-> cached, writes |-> writes, rows |-> Nothing]
      OBVIOUS
<1>2. Goes(l, new)
      BY <1>1
<1>3. KeyOk(scheme_load_cache_key) /\ scheme_load_cache_key \in LoadKeys
      BY DEF LoadInv, FilesOk, KeyOk, LoadKeys, FileStamps, Listed, scheme_load_cache_key
<1>4. new \in AtWork /\ new.at = step /\ new.key = scheme_load_cache_key
      BY <1>1, <1>3 DEF AtWork
<1>5. LoaderOk(new)
      BY <1>3, <1>4 DEF LoaderOk, LoaderKeyed, LoaderOrderly
<1>6. UndisturbedOk(new)
      BY <1>4 DEF Waiting, UndisturbedOk
<1>7. LoaderOk(new)'
      BY <1>5, StillOk
<1>8. WarmOk(warm)' /\ RunnersOk(runners)' /\ ArtifactOk(artifact)' /\ LastOk(last)'
      BY CachesStay DEF Caches
<1> QED
    BY <1>2, <1>4, <1>6, <1>7, <1>8, LoaderMoves

(* A call ends.                                                            *)
LEMMA EndInv ==
    ASSUME LoadInv, NEW l \in Loader, Ends(l), UNCHANGED FileState, orderly' => orderly,
           WarmOk(warm)', RunnersOk(runners)', ArtifactOk(artifact)', LastOk(last)'
    PROVE  LoadInv'
<1>1. Goes(l, Waiting) /\ undisturbed' = undisturbed \ {l}
      BY DEF Ends
<1>2. LoaderOk(Waiting)'
      BY DEF LoaderOk
<1> QED
    BY <1>1, <1>2, LoaderMoves DEF Waiting

(* Rows of the files as they are may be returned.                          *)
LEMMA ReturnInv ==
    ASSUME LoadInv, NEW l \in Loader, NEW rows \in Rows, Returns(l, rows), UNCHANGED <<FileState, orderly>>,
           orderly /\ l \in undisturbed => RowsNow(rows), l \in undisturbed => RowsCompiled(rows),
           WarmOk(warm)', RunnersOk(runners)', ArtifactOk(artifact)'
    PROVE  LoadInv'
<1>1. Ends(l) /\ last' = IF l \in undisturbed THEN <<rows>> ELSE Nothing
      BY DEF Returns
<1>2. LastOk(last)'
  <2>1. CASE l \notin undisturbed
        BY <1>1, <2>1 DEF LastOk
  <2>2. CASE l \in undisturbed
    <3>1. last' = <<rows>>
          BY <1>1, <2>2
    <3>2. LastOk(last')
          BY <2>2, <3>1 DEF LastOk, RowsNow, TextsNow
    <3> QED
        BY <3>2, StillOk
  <2> QED
      BY <2>1, <2>2
<1> QED
    BY <1>1, <1>2, EndInv

(* A call of load_projection_rows, with or without the projection source.  *)
LEMMA LoadRowsInv ==
    ASSUME LoadInv, NEW l \in Loader, NEW cached \in BOOLEAN, load_projection_rows(l, cached)
    PROVE  LoadInv'
<1>1. CASE found
      BY <1>1, BeginInv DEF load_projection_rows
<1>2. CASE ~found
  <2>1. /\ last' = IF read_artifact_rows = Nothing THEN Nothing ELSE <<read_artifact_rows>>
        /\ loader' = loader /\ undisturbed' = undisturbed /\ orderly' = orderly
        /\ UNCHANGED FileState /\ UNCHANGED Caches
        BY <1>2 DEF load_projection_rows
  <2>2. WarmOk(warm)' /\ RunnersOk(runners)' /\ ArtifactOk(artifact)'
        BY <2>1, CachesStay DEF Caches
  <2>3. LastOk(last)'
    <3>1. CASE read_artifact_rows = Nothing
          BY <2>1, <3>1 DEF LastOk
    <3>2. CASE read_artifact_rows # Nothing
      <4>1. PICK rows \in Rows :
                /\ rows = read_artifact_rows /\ rows.made = "before"
                /\ orderly => rows.fragment = content["fragment"]
            BY <3>2, ArtifactRows
      <4>2. last' = <<rows>>
            BY <2>1, <3>2, <4>1
      <4>3. LastOk(last')
            BY <1>2, <4>1, <4>2 DEF LastOk, RowsCompiled
      <4> QED
          BY <2>1, <4>3, StillOk
    <3> QED
        BY <3>1, <3>2
  <2> QED
      BY <2>1, <2>2, <2>3, NobodyMoves
<1> QED
    BY <1>1, <1>2

(* A runner is compiled of the texts as they are, for a key that may have  *)
(* been taken before.                                                      *)
LEMMA BuildRunnerInv == ASSUME LoadInv, NEW l \in Loader, build_aot_projection(l) PROVE LoadInv'
<1>1. /\ loader[l].at = "aot" /\ runners' = Put(runners, loader[l].key, included)
      /\ UNCHANGED FileState /\ warm' = warm /\ artifact' = artifact /\ loader' = loader
      /\ orderly' = orderly /\ undisturbed' = undisturbed /\ last' = last
      BY DEF build_aot_projection
<1>2. KeyOk(loader[l].key)
      BY <1>1, LoaderIs DEF LoaderKeyed
<1>3. included \in Texts /\ TextsNow(included)
      BY DEF LoadInv, FilesOk, included, Texts, TextsNow, Files
<1>4. RunnersOk(runners)
      BY DEF LoadInv
<1>5. RunnersOk(runners')
  <2>1. \A entry \in runners' : entry \in runners \/ entry = <<loader[l].key, included>>
        BY <1>1 DEF Put
  <2>2. PICK entry : entry = <<loader[l].key, included>>
        OBVIOUS
  <2>3. entry[1] = loader[l].key /\ entry[2] = included /\ entry = <<entry[1], entry[2]>>
        BY <2>2
  <2> QED
      BY <1>2, <1>3, <1>4, <2>1, <2>2, <2>3 DEF RunnersOk
<1>6. RunnersOk(runners)'
      BY <1>1, <1>5, StillOk
<1>7. WarmOk(warm)' /\ ArtifactOk(artifact)' /\ LastOk(last)'
      BY <1>1, CachesStay
<1> QED
    BY <1>1, <1>6, <1>7, NobodyMoves

(* A loader that only goes to its next step.                               *)
LEMMA StepsInv ==
    ASSUME LoadInv, NEW l \in Loader, loader[l].at \in {"warm", "artifact", "aot"},
           NEW step \in {"artifact", "aot", "run"}, Steps(l, step),
           UNCHANGED <<FileState, Caches, orderly, undisturbed, last>>
    PROVE  LoadInv'
<1>1. PICK j : j = loader[l]
      OBVIOUS
<1>2. PICK new : new = [j EXCEPT !.at = step]
      OBVIOUS
<1>3. Goes(l, new)
      BY <1>1, <1>2 DEF Steps
<1>4. j \in AtWork /\ LoaderKeyed(j) /\ j.at \in {"warm", "artifact", "aot"}
      BY <1>1, LoaderIs
<1>5. new \in AtWork /\ new.at = step /\ new.key = j.key
      BY <1>2, <1>4 DEF AtWork
<1>6. LoaderOk(new)
      BY <1>4, <1>5 DEF LoaderOk, LoaderKeyed, LoaderOrderly
<1>7. LoaderOk(new)'
      BY <1>6, StillOk
<1>8. WarmOk(warm)' /\ RunnersOk(runners)' /\ ArtifactOk(artifact)' /\ LastOk(last)'
      BY CachesStay DEF Caches
<1>9. l \in undisturbed => UndisturbedOk(new)
      BY <1>1, <1>4, <1>5 DEF LoadInv, UndisturbedOk, Waiting
<1> QED
    BY <1>3, <1>7, <1>8, <1>9, LoaderMoves

(* An entry of the warm cache under the key is returned, or passed by.     *)
LEMMA WarmInv == ASSUME LoadInv, NEW l \in Loader, get_cached_projection_rows(l) PROVE LoadInv'
<1>1. /\ loader[l].at = "warm" /\ UNCHANGED FileState /\ UNCHANGED Caches /\ orderly' = orderly
      BY DEF get_cached_projection_rows
<1>2. CASE loader[l].cached /\ Found(warm, loader[l].key)
  <2>1. PICK entry \in warm : entry[1] = loader[l].key /\ Entry(warm, loader[l].key) = entry[2]
        BY <1>2, EntryIs
  <2>2. entry[2] \in Rows /\ (orderly /\ entry[1] = scheme_load_cache_key => RowsNow(entry[2]))
        BY <2>1 DEF LoadInv, WarmOk
  <2>3. Returns(l, FromCache(entry[2]))
        BY <1>2, <2>1 DEF get_cached_projection_rows
  <2>4. l \in undisturbed => loader[l].key = scheme_load_cache_key
        BY <1>1 DEF LoadInv, UndisturbedOk
  <2>5. WarmOk(warm)' /\ RunnersOk(runners)' /\ ArtifactOk(artifact)'
        BY <1>1, CachesStay DEF Caches
  <2>6. PICK rows \in Rows :
            /\ rows = FromCache(entry[2]) /\ rows.made # "now"
            /\ RowsNow(entry[2]) => RowsNow(rows)
    <3>1. PICK kept \in Rows : kept = entry[2]
          BY <2>2
    <3>2. PICK rows : rows = FromCache(kept)
          OBVIOUS
    <3>3. /\ rows \in Rows /\ rows.made # "now" /\ (rows.made # "before" => kept.made # "before")
          /\ rows.fragment = kept.fragment /\ rows.projection = kept.projection
          /\ rows.library = kept.library
          BY <3>2 DEF FromCache, Rows
    <3> QED
        BY <3>1, <3>2, <3>3 DEF RowsNow, TextsNow
  <2>7. Returns(l, rows) /\ (orderly /\ l \in undisturbed => RowsNow(rows)) /\ RowsCompiled(rows)
        BY <2>1, <2>2, <2>3, <2>4, <2>6 DEF RowsCompiled
  <2> QED
      BY <1>1, <2>5, <2>7, ReturnInv
<1>3. CASE ~(loader[l].cached /\ Found(warm, loader[l].key))
  <2>1. Steps(l, "artifact") /\ undisturbed' = undisturbed /\ last' = last
        BY <1>3 DEF get_cached_projection_rows
  <2> QED
      BY <1>1, <2>1, StepsInv
<1> QED
    BY <1>2, <1>3

(* A loader that goes to its next step with the rows in hand.              *)
Holds(l, rows, step) == Goes(l, [loader[l] EXCEPT !.at = step, !.rows = rows])

(* Rows obtained under a key, which are of the files as they are if the    *)
(* key still names them.                                                   *)
LEMMA ObtainInv ==
    ASSUME LoadInv, NEW l \in Loader, loader[l].at \in {"artifact", "aot", "run"}, NEW rows \in Rows,
           NEW step \in {"store", "digest"}, Holds(l, rows, step),
           orderly' => orderly /\ (loader[l].key = scheme_load_cache_key => RowsNow(rows)),
           RowsCompiled(rows),
           UNCHANGED <<FileState, Caches, undisturbed, last>>
    PROVE  LoadInv'
<1>1. PICK j : j = loader[l]
      OBVIOUS
<1>2. PICK new : new = [j EXCEPT !.at = step, !.rows = rows]
      OBVIOUS
<1>3. Goes(l, new)
      BY <1>1, <1>2 DEF Holds
<1>4. j \in AtWork /\ LoaderKeyed(j) /\ j.at \in {"artifact", "aot", "run"}
      BY <1>1, LoaderIs
<1>5. new \in AtWork /\ new.at = step /\ new.key = j.key /\ new.rows = rows
      BY <1>2, <1>4 DEF AtWork
<1>6. /\ scheme_load_cache_key' = scheme_load_cache_key
      /\ content' = content /\ compiled' = compiled /\ touches' = touches
      BY DEF FileState, scheme_load_cache_key
<1>7. LoaderOk(new)'
  <2>1. LoaderKeyed(new)'
        BY <1>4, <1>5, <1>6 DEF LoaderKeyed, KeyOk
  <2>2. orderly' => LoaderOrderly(new)'
        BY <1>1, <1>5, <1>6 DEF LoaderOrderly, RowsNow, TextsNow
  <2> QED
      BY <1>5, <2>1, <2>2 DEF LoaderOk
<1>8. WarmOk(warm)' /\ RunnersOk(runners)' /\ ArtifactOk(artifact)' /\ LastOk(last)'
      BY CachesStay DEF Caches
<1>9. l \in undisturbed => UndisturbedOk(new)
      BY <1>1, <1>4, <1>5 DEF LoadInv, UndisturbedOk, Waiting
<1> QED
    BY <1>3, <1>7, <1>8, <1>9, LoaderMoves

(* An artifact whose digests match is obtained; one that does not match,   *)
(* or is not there, is passed by.                                          *)
LEMMA ArtifactInv == ASSUME LoadInv, NEW l \in Loader, load_projection_artifact(l) PROVE LoadInv'
<1>1. /\ loader[l].at = "artifact" /\ found /\ UNCHANGED FileState /\ UNCHANGED Caches
      /\ orderly' = orderly /\ undisturbed' = undisturbed /\ last' = last
      BY DEF load_projection_artifact
<1>2. CASE read_artifact_rows # Nothing /\ Goes(l, [loader[l] EXCEPT !.at = "store", !.rows = read_artifact_rows])
  <2>1. PICK rows \in Rows :
            rows = read_artifact_rows /\ (orderly => RowsNow(rows)) /\ RowsCompiled(rows)
        BY <1>1, <1>2, ArtifactRows DEF RowsNow, TextsNow, RowsCompiled
  <2>2. Holds(l, rows, "store")
        BY <1>2, <2>1 DEF Holds
  <2>3. orderly' => orderly /\ RowsNow(rows)
        BY <1>1, <2>1
  <2>4. UNCHANGED <<FileState, Caches, undisturbed, last>> /\ loader[l].at = "artifact"
        BY <1>1
  <2> QED
      BY <2>1, <2>2, <2>3, <2>4, ObtainInv
<1>3. CASE Steps(l, "aot")
      BY <1>1, <1>3, StepsInv
<1> QED
    BY <1>2, <1>3 DEF load_projection_artifact

(* Rows that are made of the texts, and of the library that is compiled.   *)
LEMMA MadeInv ==
    ASSUME LoadInv, NEW l \in Loader, loader[l].at \in {"aot", "run"}, NEW texts \in Texts,
           Obtains(l, Made(texts)), loader[l].key = scheme_load_cache_key => TextsNow(texts),
           UNCHANGED <<FileState, Caches, undisturbed, last>>
    PROVE  LoadInv'
<1>1. PICK rows : rows = Made(texts)
      OBVIOUS
<1>2. /\ rows \in Rows /\ rows.fragment = texts.fragment /\ rows.projection = texts.projection
      /\ rows.library = compiled["library"] /\ rows.unlisted = compiled["unlisted"]
      BY <1>1 DEF Made, Rows, Texts, LoadInv, FilesOk, Modules
<1>3. PICK step \in {"store", "digest"} : step = IF loader[l].writes THEN "digest" ELSE "store"
      OBVIOUS
<1>4. Holds(l, rows, step) /\ orderly' = (orderly /\ compiled["library"] = content["library"])
      BY <1>1, <1>3 DEF Obtains, Holds
<1>5. orderly' => orderly /\ compiled["library"] = content["library"]
      BY <1>4
<1>6. orderly' => orderly /\ (loader[l].key = scheme_load_cache_key => RowsNow(rows))
      BY <1>2, <1>5 DEF RowsNow, TextsNow
<1>7. RowsCompiled(rows) /\ rows \in Rows
      BY <1>2 DEF RowsCompiled
<1>8. loader[l].at \in {"artifact", "aot", "run"}
      OBVIOUS
<1> QED
    BY <1>4, <1>6, <1>7, <1>8, ObtainInv

(* Rows that the runner, or Gerbil with the sources, makes of the files.   *)
LEMMA RunInv ==
    ASSUME LoadInv, NEW l \in Loader, run_aot_projection(l) \/ run_scheme_projection(l)
    PROVE  LoadInv'
<1>1. /\ loader[l].at \in {"aot", "run"} /\ UNCHANGED FileState /\ UNCHANGED Caches
      /\ undisturbed' = undisturbed /\ last' = last
      BY DEF run_aot_projection, run_scheme_projection
<1>2. CASE run_scheme_projection(l)
  <2>1. included \in Texts /\ TextsNow(included)
        BY DEF LoadInv, FilesOk, included, Texts, TextsNow, Files
  <2>2. PICK texts \in Texts : texts = included
        BY <2>1
  <2>3. Obtains(l, Made(texts)) /\ TextsNow(texts)
        BY <1>2, <2>1, <2>2 DEF run_scheme_projection
  <2> QED
      BY <1>1, <2>3, MadeInv
<1>3. CASE run_aot_projection(l)
  <2>1. CASE Found(runners, loader[l].key) /\ Obtains(l, Made(Entry(runners, loader[l].key)))
    <3>1. PICK entry \in runners : entry[1] = loader[l].key /\ Entry(runners, loader[l].key) = entry[2]
          BY <2>1, EntryIs
    <3>2. entry[2] \in Texts /\ (entry[1] = scheme_load_cache_key => TextsNow(entry[2]))
          BY <3>1 DEF LoadInv, RunnersOk
    <3>3. PICK texts \in Texts : texts = entry[2]
          BY <3>2
    <3>4. Obtains(l, Made(texts)) /\ (loader[l].key = scheme_load_cache_key => TextsNow(texts))
          BY <2>1, <3>1, <3>2, <3>3
    <3> QED
        BY <1>1, <3>4, MadeInv
  <2>2. CASE Steps(l, "run") /\ UNCHANGED orderly
    <3>1. loader[l].at = "aot"
          BY <1>3 DEF run_aot_projection
    <3> QED
        BY <1>1, <2>2, <3>1, StepsInv
  <2> QED
      BY <1>3, <2>1, <2>2 DEF run_aot_projection
<1> QED
    BY <1>2, <1>3

(* The rows enter the warm cache under the key that was taken at the       *)
(* start.                                                                  *)
LEMMA StoreWarmInv == ASSUME LoadInv, NEW l \in Loader, store_cached_projection_rows(l) PROVE LoadInv'
<1>1. /\ loader[l].at = "store" /\ Returns(l, loader[l].rows) /\ UNCHANGED FileState
      /\ artifact' = artifact /\ runners' = runners /\ orderly' = orderly
      /\ warm' = IF loader[l].cached THEN Put(warm, loader[l].key, loader[l].rows) ELSE warm
      BY DEF store_cached_projection_rows
<1>2. PICK j : j = loader[l]
      OBVIOUS
<1>3. j.rows \in Rows /\ KeyOk(j.key) /\ (orderly /\ j.key = scheme_load_cache_key => RowsNow(j.rows))
      BY <1>1, <1>2, LoaderIs DEF LoaderKeyed, LoaderOrderly
<1>4. WarmOk(warm')
  <2>1. PICK entry : entry = <<j.key, j.rows>>
        OBVIOUS
  <2>2. entry[1] = j.key /\ entry[2] = j.rows /\ entry = <<entry[1], entry[2]>>
        BY <2>1
  <2>3. \A e \in warm' : e \in warm \/ e = entry
        BY <1>1, <1>2, <2>1 DEF Put
  <2>4. WarmOk(warm)
        BY DEF LoadInv
  <2> QED
      BY <1>3, <2>2, <2>3, <2>4 DEF WarmOk
<1>5. WarmOk(warm)'
      BY <1>1, <1>4, StillOk
<1>6. RunnersOk(runners)' /\ ArtifactOk(artifact)'
      BY <1>1, CachesStay
<1>7. l \in undisturbed => j.key = scheme_load_cache_key /\ RowsCompiled(j.rows)
      BY <1>1, <1>2 DEF LoadInv, UndisturbedOk
<1> QED
    BY <1>1, <1>2, <1>3, <1>5, <1>6, <1>7, ReturnInv

(* The artifact is written with the digests of the texts that were read.   *)
LEMMA WriteArtifactInv == ASSUME LoadInv, NEW l \in Loader, write_projection_artifact(l) PROVE LoadInv'
<1>1. PICK j : j = loader[l]
      OBVIOUS
<1>2. UNCHANGED FileState /\ warm' = warm /\ runners' = runners /\ last' = last
      BY DEF write_projection_artifact
<1>3. CASE loader[l].at = "digest"
  <2>1. PICK digests : digests = artifact_fingerprints
        OBVIOUS
  <2>2. PICK new : new = [j EXCEPT !.at = "write", !.key = digests]
        OBVIOUS
  <2>3. /\ Goes(l, new) /\ artifact' = Partly /\ orderly' = (orderly /\ l \in undisturbed)
        /\ undisturbed' = undisturbed
        BY <1>1, <1>3, <2>1, <2>2 DEF write_projection_artifact
  <2>4. orderly' => orderly /\ l \in undisturbed
        BY <2>3
  <2>5. j \in AtWork /\ j.rows \in Rows /\ (orderly /\ j.key = scheme_load_cache_key => RowsNow(j.rows))
        BY <1>1, <1>3, LoaderIs DEF LoaderKeyed, LoaderOrderly
  <2>6. l \in undisturbed => j.key = scheme_load_cache_key
        BY <1>1, <1>3 DEF LoadInv, UndisturbedOk
  <2>7. digests \in Int \X Int /\ digests = <<content["fragment"], content["projection"]>>
        BY <2>1 DEF artifact_fingerprints, LoadInv, FilesOk, Files
  <2>8. new \in AtWork /\ new.at = "write" /\ new.key = digests /\ new.rows = j.rows
        BY <2>2, <2>5, <2>7 DEF AtWork
  <2>9. LoaderOk(new)'
    <3>1. LoaderKeyed(new)'
          BY <2>5, <2>7, <2>8 DEF LoaderKeyed
    <3>2. orderly' => LoaderOrderly(new)'
          BY <2>4, <2>5, <2>6, <2>7, <2>8 DEF LoaderOrderly, RowsNow, TextsNow
    <3> QED
        BY <2>8, <3>1, <3>2 DEF LoaderOk
  <2>10. WarmOk(warm)' /\ RunnersOk(runners)' /\ LastOk(last)'
         BY <1>2, <2>4, CachesStay
  <2>11. ArtifactOk(artifact)'
         BY <2>3 DEF ArtifactOk
  <2>12. UndisturbedOk(new)
         BY <2>8 DEF Waiting, UndisturbedOk
  <2> QED
      BY <1>2, <2>3, <2>4, <2>8, <2>9, <2>10, <2>11, <2>12, LoaderMoves
<1>4. CASE loader[l].at = "write"
  <2>1. PICK rows : rows = [j.rows EXCEPT !.made = "before"]
        OBVIOUS
  <2>2. PICK a : a = [digests |-> j.key, rows |-> rows]
        OBVIOUS
  <2>3. Ends(l) /\ artifact' = a /\ orderly' = orderly
        BY <1>1, <1>4, <2>1, <2>2 DEF write_projection_artifact
  <2>4. /\ j.rows \in Rows /\ j.key \in Int \X Int
        /\ orderly => j.key = <<j.rows.fragment, j.rows.projection>>
        BY <1>1, <1>4, LoaderIs DEF LoaderKeyed, LoaderOrderly
  <2>5. /\ rows \in Rows /\ rows.made = "before" /\ rows.fragment = j.rows.fragment
        /\ rows.projection = j.rows.projection
        BY <2>1, <2>4 DEF Rows
  <2>6. ArtifactOk(a)
    <3>1. a \in [digests : Int \X Int, rows : Rows] /\ a.rows = rows /\ a.digests = j.key
          BY <2>2, <2>4, <2>5
    <3> QED
        BY <2>4, <2>5, <3>1 DEF ArtifactOk
  <2>7. ArtifactOk(artifact)'
    <3>1. ArtifactOk(artifact')
          BY <2>3, <2>6
    <3> QED
        BY <1>2, <2>3, <3>1, StillOk
  <2>8. WarmOk(warm)' /\ RunnersOk(runners)' /\ LastOk(last)'
        BY <1>2, <2>3, CachesStay
  <2> QED
      BY <1>2, <2>3, <2>7, <2>8, EndInv
<1> QED
    BY <1>3, <1>4 DEF write_projection_artifact

(* Every step of a loader, an editor or a build keeps what is known.       *)
LEMMA LoadStepInv == LoadInv /\ [LoadNext]_loading => LoadInv'
<1> SUFFICES ASSUME LoadInv, [LoadNext]_loading PROVE LoadInv'
    OBVIOUS
<1>1. CASE UNCHANGED loading
  <2>1. /\ UNCHANGED FileState /\ orderly' = orderly /\ loader' = loader /\ undisturbed' = undisturbed
        /\ warm' = warm /\ runners' = runners /\ artifact' = artifact /\ last' = last
        BY <1>1 DEF loading, FileState
  <2> QED
      BY <2>1, CachesStay, NobodyMoves
<1>2. ASSUME NEW f \in Files, EditFile(f) PROVE LoadInv'
  <2>1. content' \in [Files -> Int]
        BY <1>2 DEF EditFile, LoadInv, FilesOk
  <2>2. compiled' \in [Modules -> Int]
        BY <1>2 DEF EditFile, LoadInv, FilesOk
  <2>3. \A g \in Files : g # f => content'[g] = content[g]
        BY <1>2 DEF EditFile, LoadInv, FilesOk
  <2> QED
      BY <1>2, <2>1, <2>2, <2>3, TouchInv DEF EditFile
<1>3. CASE BuildLibrary
  <2>1. content' \in [Files -> Int] /\ compiled' \in [Modules -> Int]
        BY <1>3 DEF BuildLibrary, LoadInv, FilesOk, Files
  <2> QED
      BY <1>3, <2>1, TouchInv DEF BuildLibrary
<1>4. CASE Ship
  <2>1. content' \in [Files -> Int] /\ compiled' \in [Modules -> Int]
        BY <1>4 DEF Ship, LoadInv, FilesOk
  <2> QED
      BY <1>4, <2>1, TouchInv DEF Ship
<1>5. CASE clear_load_cache
  <2>1. /\ UNCHANGED FileState /\ orderly' = orderly /\ loader' = loader /\ undisturbed' = undisturbed
        /\ warm' = {} /\ runners' = runners /\ artifact' = artifact /\ last' = last
        BY <1>5 DEF clear_load_cache
  <2>2. WarmOk(warm)'
        BY <2>1 DEF WarmOk
  <2> QED
      BY <2>1, <2>2, CachesStay, NobodyMoves
<1>6. ASSUME NEW l \in Loader, NEW force \in BOOLEAN, preproject_load(l, force) PROVE LoadInv'
      BY <1>6, BeginInv DEF preproject_load
<1>7. ASSUME NEW l \in Loader, load_raises(l) PROVE LoadInv'
      BY <1>7, CachesStay, EndInv DEF load_raises, Caches
<1> QED
    BY <1>1, <1>2, <1>3, <1>4, <1>5, <1>6, <1>7, LoadRowsInv, BuildRunnerInv, WarmInv, ArtifactInv, RunInv,
       StoreWarmInv, WriteArtifactInv DEF LoadNext

(* For any number of loaders that overlap with edits, builds and each      *)
(* other: a load that nothing disturbed returns rows of the files as they  *)
(* are, of the whole library if the call made them, of the modules that    *)
(* the key lists if the warm cache kept them, and of the sources alone if  *)
(* an artifact did, under the conditions that LoadFresh states.            *)
THEOREM LoadsFresh == LoadSpec => []LoadFresh
<1>1. LoadInv => LoadFresh
      BY DEF LoadInv, LoadFresh, LastOk, RowsCompiled
<1> QED
    BY <1>1, LoadInitInv, LoadStepInv, PTL DEF LoadSpec

-----------------------------------------------------------------------------
(* The declaration-closure pipeline. *)

(* The steps of a job that has its closure, those with the digests of the  *)
(* sources too, and those with the text that AXLE sees.                    *)
Composed == AxlePhase \cup {"bundle"}
Resolved == Composed \cup {"compose"}
Closed == Resolved \cup {"resolve"}

Versions == [root : Int, import : Int]
Keys == Nat \X Versions
Job ==
    [step : {"build", "lookup", "export", "store"} \cup Closed, mode : {"run", "batch", "mixed"},
     request : Nat, key : {<< >>} \cup Keys, payload : {<< >>} \cup {<<v>> : v \in Versions},
     closure : {<< >>} \cup Keys, digests : {<< >>} \cup Versions, text : {<< >>} \cup Versions,
     quiet : BOOLEAN]

(* The conditions of ExportSound.                                          *)
Trusted == visible /\ ~raced

(* A driver at work.  A key is of the artifacts that are about to be       *)
(* exported; with no edit since the start the artifacts are those of the   *)
(* sources, and so is all that was taken from either.                      *)
JobKeyed(j) ==
    /\ j.step \in {"export", "store"} => j.key \in Keys
    /\ j.step = "store" => j.closure \in Keys
    /\ j.step = "build" => j.payload = << >>
    /\ j.quiet /\ j.step # "build" => built = source

JobTrusted(j) ==
    /\ j.step = "export" => j.key = <<j.request, built>>
    /\ j.payload # << >> => j.payload = <<built>>
    /\ j.step = "store" => j.key = j.closure
    /\ j.step \in {"store"} \cup Closed /\ j.quiet => j.closure[2] = source
    /\ j.step \in Resolved /\ j.quiet => j.digests = source
    /\ j.step \in Composed /\ j.quiet => j.text = source

(* A driver, the cache and the bundles written.                            *)
JobOk(j) == j = NoJob \/ (j \in Job /\ JobKeyed(j) /\ (Trusted => JobTrusted(j)))

CacheOk(entries) == entries \subseteq Keys \X Keys /\ (Trusted => \A entry \in entries : entry[1] = entry[2])

BundleOk(bs) ==
    Trusted => \A b \in {bs[i] : i \in DOMAIN bs} :
                   b.quiet => b.closure[2] = b.digests /\ b.text = b.digests

(* The invariant.                                                          *)
ExportInv ==
    /\ source \in Versions /\ built \in Versions
    /\ job = [d \in Driver |-> job[d]] /\ \A d \in Driver : JobOk(job[d])
    /\ CacheOk(cache) /\ BundleOk(bundle)

(* Nothing is at work and nothing is cached at first.                      *)
LEMMA ExportInitInv == ExportInit => ExportInv
<1> SUFFICES ASSUME ExportInit PROVE ExportInv
    OBVIOUS
<1>1. source \in Versions /\ built \in Versions
      BY DEF ExportInit, Versions
<1>2. job = [d \in Driver |-> NoJob]
      BY DEF ExportInit
<1>3. \A d \in Driver : JobOk(job[d])
      BY <1>2 DEF JobOk
<1>4. job = [d \in Driver |-> job[d]]
      BY <1>2
<1>5. CacheOk(cache)
      BY DEF ExportInit, CacheOk
<1>6. BundleOk(bundle)
      BY DEF ExportInit, BundleOk, NoBundle
<1> QED
    BY <1>1, <1>3, <1>4, <1>5, <1>6 DEF ExportInv

(* One driver goes on, on the files as they are.                           *)
LEMMA DriverMoves ==
    ASSUME ExportInv, NEW d \in Driver, NEW new, Becomes(d, new), JobOk(new), CacheOk(cache'),
           BundleOk(bundle'), UNCHANGED <<source, built, visible, raced>>
    PROVE  ExportInv'
<1>1. DOMAIN job = Driver /\ \A v \in Driver : JobOk(job[v])
      BY DEF ExportInv
<1>2. job' = [job EXCEPT ![d] = new]
      BY DEF Becomes
<1>3. \A v \in Driver : job'[v] = IF v = d THEN new ELSE job[v]
      BY <1>1, <1>2
<1>4. job' = [v \in Driver |-> job'[v]]
      BY <1>1, <1>2
<1>5. Trusted' <=> Trusted
      BY DEF Trusted
<1>6. \A j : JobOk(j) => JobOk(j)'
      BY <1>5 DEF JobOk, JobKeyed, JobTrusted
<1>7. \A v \in Driver : JobOk(job'[v])
      BY <1>1, <1>3
<1>8. \A v \in Driver : JobOk(job[v])'
      BY <1>6, <1>7
<1>9. CacheOk(cache)' /\ BundleOk(bundle)'
      BY <1>5 DEF CacheOk, BundleOk
<1> QED
    BY <1>4, <1>8, <1>9 DEF ExportInv

(* An edit leaves no job quiet.                                            *)
LEMMA EditInv == ASSUME ExportInv, NEW f \in {"root", "import"}, edit(f) PROVE ExportInv'
<1>1. /\ source' = [source EXCEPT ![f] = 1 - @]
      /\ job' = [d \in Driver |-> IF job[d] = NoJob THEN NoJob ELSE [job[d] EXCEPT !.quiet = FALSE]]
      /\ built' = built /\ visible' = visible /\ cache' = cache /\ raced' = raced /\ bundle' = bundle
      BY DEF edit
<1>2. Trusted' <=> Trusted
      BY <1>1 DEF Trusted
<1>3. source' \in Versions /\ built' \in Versions
      BY <1>1 DEF ExportInv, Versions
<1>4. job' = [d \in Driver |-> job'[d]]
      BY <1>1
<1>5. ASSUME NEW j, JobOk(j), j # NoJob, NEW k, k = [j EXCEPT !.quiet = FALSE] PROVE JobOk(k)'
  <2>1. j \in Job /\ JobKeyed(j) /\ (Trusted => JobTrusted(j))
        BY <1>5 DEF JobOk
  <2>2. /\ k \in Job /\ k.step = j.step /\ k.request = j.request /\ k.key = j.key
        /\ k.payload = j.payload /\ k.closure = j.closure
        BY <1>5, <2>1 DEF Job
  <2>3. ~k.quiet
        BY <1>5, <2>1 DEF Job
  <2>4. JobKeyed(k)'
        BY <1>1, <2>1, <2>2, <2>3 DEF JobKeyed
  <2>5. Trusted' => JobTrusted(k)'
        BY <1>1, <1>2, <2>1, <2>2, <2>3 DEF JobTrusted
  <2> QED
      BY <2>2, <2>4, <2>5 DEF JobOk
<1>7. JobOk(NoJob)'
      BY DEF JobOk
<1>8. \A d \in Driver : job'[d] = IF job[d] = NoJob THEN NoJob ELSE [job[d] EXCEPT !.quiet = FALSE]
      BY <1>1
<1>9. \A d \in Driver : JobOk(job[d])
      BY DEF ExportInv
<1>10. \A d \in Driver : JobOk(job[d])'
       BY <1>5, <1>7, <1>8, <1>9
<1>6. CacheOk(cache)' /\ BundleOk(bundle)'
      BY <1>1, <1>2 DEF CacheOk, BundleOk, ExportInv
<1> QED
    BY <1>3, <1>4, <1>6, <1>10 DEF ExportInv

(* A build brings the artifacts to the sources.  While the conditions hold *)
(* it changes nothing, or nobody is between a key and its export.          *)
LEMMA BuildInv == ASSUME ExportInv, NEW d \in Driver, lake_build(d) PROVE ExportInv'
<1> DEFINE new == [job[d] EXCEPT !.step = "lookup"]
<1>1. /\ job[d].step = "build" /\ built' = source /\ job' = [job EXCEPT ![d] = new]
      /\ source' = source /\ visible' = visible /\ cache' = cache /\ bundle' = bundle
      BY DEF lake_build, At, Moves, Becomes
<1>2. raced' = (raced \/ (built # source /\ \E v \in Driver \ {d} : BetweenKeyAndExport(v)))
      BY DEF lake_build
<1>3. Trusted' => Trusted /\ (built = source \/ \A v \in Driver \ {d} : ~BetweenKeyAndExport(v))
      BY <1>1, <1>2 DEF Trusted
<1>4. DOMAIN job = Driver /\ \A v \in Driver : JobOk(job[v])
      BY DEF ExportInv
<1>5. \A v \in Driver : job'[v] = IF v = d THEN new ELSE job[v]
      BY <1>1, <1>4
<1>6. job' = [v \in Driver |-> job'[v]]
      BY <1>1, <1>4
<1>7. job[d] \in Job /\ JobKeyed(job[d]) /\ (Trusted => JobTrusted(job[d]))
      BY <1>1, <1>4 DEF JobOk, NoJob
<1>8. new \in Job /\ new.step = "lookup" /\ new.payload = << >>
  <2> DEFINE j == job[d]
  <2>1. j.payload = << >>
        BY <1>1, <1>7 DEF JobKeyed
  <2> HIDE DEF j
  <2>2. new \in Job /\ new.step = "lookup" /\ new.payload = j.payload
        BY <1>7 DEF Job, j
  <2> QED
      BY <2>1, <2>2
<1>9. ASSUME NEW j, j \in Job, j.step = "lookup", j.payload = << >> PROVE JobOk(j)'
  <2>1. JobKeyed(j)'
        BY <1>1, <1>9 DEF JobKeyed
  <2>2. JobTrusted(j)'
        BY <1>1, <1>9 DEF JobTrusted, Closed, Resolved, Composed, AxlePhase
  <2> QED
      BY <1>9, <2>1, <2>2 DEF JobOk
<1>10. ASSUME NEW j, JobOk(j), Trusted' /\ j # NoJob => built' = built \/ (j.step # "export" /\ j.payload = << >>)
       PROVE  JobOk(j)'
  <2>1. CASE j = NoJob
        BY <2>1 DEF JobOk
  <2>2. CASE j # NoJob
    <3>1. j \in Job /\ JobKeyed(j) /\ (Trusted => JobTrusted(j))
          BY <1>10, <2>2 DEF JobOk
    <3>2. JobKeyed(j)'
          BY <1>1, <3>1 DEF JobKeyed
    <3>3. Trusted' => JobTrusted(j)'
          BY <1>1, <1>3, <1>10, <2>2, <3>1 DEF JobTrusted
    <3> QED
        BY <3>1, <3>2, <3>3 DEF JobOk
  <2> QED
      BY <2>1, <2>2
<1> HIDE DEF new
<1>11. ASSUME NEW v \in Driver PROVE JobOk(job[v])'
  <2>1. CASE v = d
    <3>1. job'[v] = new
          BY <1>5, <2>1
    <3> QED
        BY <1>8, <1>9, <3>1
  <2>2. CASE v # d
    <3>1. job'[v] = job[v] /\ JobOk(job[v])
          BY <1>4, <1>5, <2>2
    <3>2. job[v] # NoJob => job[v].step # "idle"
          BY <3>1 DEF JobOk, Job, Closed, Resolved, Composed, AxlePhase
    <3>3. Trusted' /\ job[v] # NoJob => built' = built \/ (job[v].step # "export" /\ job[v].payload = << >>)
          BY <1>1, <1>3, <2>2, <3>2 DEF BetweenKeyAndExport, At
    <3> QED
        BY <1>10, <3>1, <3>3
  <2> QED
      BY <2>1, <2>2
<1>12. CacheOk(cache)' /\ BundleOk(bundle)'
       BY <1>1, <1>3 DEF CacheOk, BundleOk, ExportInv
<1>13. source' \in Versions /\ built' \in Versions
       BY <1>1 DEF ExportInv
<1> QED
    BY <1>6, <1>11, <1>12, <1>13 DEF ExportInv

(* A closure that is trusted, and of the sources while no edit was made.   *)
ClosureOk(j, c) == Trusted /\ j.quiet => c[2] = source

(* What becomes of a job that has obtained a closure.                      *)
LEMMA ObtainedOk ==
    ASSUME ExportInv, NEW j \in Job, JobKeyed(j), Trusted => JobTrusted(j), NEW c \in Keys, ClosureOk(j, c),
           j.step \in {"lookup", "store"}
    PROVE  JobOk(Obtained(j, c))
<1> DEFINE again == [j EXCEPT !.step = "lookup", !.request = j.request + 1, !.key = << >>]
           onward == [j EXCEPT !.step = "resolve", !.closure = c, !.key = << >>]
<1>1. Obtained(j, c) \in {again, onward, NoJob}
      BY DEF Obtained
<1>2. /\ again \in Job /\ again.step = "lookup" /\ again.payload = j.payload /\ again.quiet = j.quiet
  <2>1. PICK request \in Nat : request = j.request + 1
        BY DEF Job
  <2>2. again = [j EXCEPT !.step = "lookup", !.request = request, !.key = << >>]
        BY <2>1
  <2> HIDE DEF again
  <2> QED
      BY <2>2 DEF Job
<1>3. /\ onward \in Job /\ onward.step = "resolve" /\ onward.payload = j.payload
      /\ onward.quiet = j.quiet /\ onward.closure = c
      BY DEF Job, Closed
<1> HIDE DEF again, onward
<1>4. JobOk(again)
      BY <1>2 DEF JobOk, JobKeyed, JobTrusted, Closed, Resolved, Composed, AxlePhase
<1>5. JobOk(onward)
  <2>1. JobKeyed(onward)
        BY <1>3 DEF JobKeyed
  <2>2. Trusted => JobTrusted(onward)
        BY <1>3 DEF JobTrusted, ClosureOk, Closed, Resolved, Composed, AxlePhase
  <2> QED
      BY <1>3, <2>1, <2>2 DEF JobOk
<1>6. JobOk(NoJob)
      BY DEF JobOk
<1> QED
    BY <1>1, <1>4, <1>5, <1>6

(* What is known of a driver at work.                                      *)
LEMMA JobIs ==
    ASSUME ExportInv, NEW d \in Driver, job[d].step # "idle"
    PROVE  job[d] \in Job /\ JobKeyed(job[d]) /\ (Trusted => JobTrusted(job[d]))
BY DEF ExportInv, JobOk, NoJob

(* An entry under the key is the closure of the artifacts as they are.     *)
LEMMA ReadCacheInv == ASSUME ExportInv, NEW d \in Driver, read_cache(d) PROVE ExportInv'
<1> DEFINE j == job[d]
           key == cache_key(j.request, built)
           hits == {entry \in cache : entry[1] = key}
           new == [j EXCEPT !.step = "export", !.key = key]
<1>1. j.step = "lookup" /\ UNCHANGED <<source, built, visible, cache, raced, bundle>>
      BY DEF read_cache, At
<1>2. j \in Job /\ JobKeyed(j) /\ (Trusted => JobTrusted(j))
      BY <1>1, JobIs
<1>3. key \in Keys /\ (Trusted => key = <<j.request, built>>)
  <2>1. built \in Versions /\ j.request \in Nat
        BY <1>2 DEF ExportInv, Job
  <2>2. olean(built) \in Versions /\ (Trusted => olean(built) = built)
        BY <2>1 DEF olean, Versions, Trusted
  <2> HIDE DEF j
  <2> QED
      BY <2>1, <2>2 DEF cache_key, Keys
<1>4. CacheOk(cache') /\ BundleOk(bundle')
      BY <1>1 DEF ExportInv
<1>5. CASE hits = {}
  <2>1. Becomes(d, new)
        BY <1>5 DEF read_cache
  <2>2. JobOk(new)
    <3> HIDE DEF j, key
    <3>1. /\ new \in Job /\ new.step = "export" /\ new.key = key /\ new.request = j.request
          /\ new.payload = j.payload /\ new.quiet = j.quiet
          BY <1>2, <1>3 DEF Job
    <3> HIDE DEF new
    <3>2. JobKeyed(new)
          BY <1>1, <1>2, <1>3, <3>1 DEF JobKeyed, j
    <3>3. Trusted => JobTrusted(new)
          BY <1>2, <1>3, <3>1 DEF JobTrusted, Closed, Resolved, Composed, AxlePhase
    <3> QED
        BY <3>1, <3>2, <3>3 DEF JobOk
  <2> HIDE DEF new
  <2> QED
      BY <1>1, <1>4, <2>1, <2>2, DriverMoves
<1>6. CASE hits # {}
  <2>1. PICK entry \in hits : entry = CHOOSE e \in hits : TRUE
        BY <1>6
  <2>2. Becomes(d, Obtained(j, entry[2]))
        BY <1>6, <2>1 DEF read_cache
  <2>3. entry \in Keys \X Keys /\ entry[1] = key /\ (Trusted => entry[1] = entry[2])
        BY <2>1 DEF ExportInv, CacheOk
  <2>4. ClosureOk(j, entry[2])
    <3>1. Trusted => entry[2] = <<j.request, built>>
          BY <1>3, <2>3
    <3>2. j.quiet => built = source
          BY <1>1, <1>2 DEF JobKeyed
    <3> HIDE DEF j
    <3> QED
        BY <3>1, <3>2 DEF ClosureOk
  <2>5. JobOk(Obtained(j, entry[2]))
        BY <1>1, <1>2, <2>3, <2>4, ObtainedOk
  <2> QED
      BY <1>1, <1>4, <2>2, <2>5, DriverMoves
<1> QED
    BY <1>5, <1>6

(* What is exported is of the artifacts that the key names.                *)
LEMMA LeanExportInv == ASSUME ExportInv, NEW d \in Driver, lean_export(d) PROVE ExportInv'
<1> DEFINE j == job[d]
           exported == IF j.payload = << >> THEN <<built>> ELSE j.payload
           kept == IF j.mode = "batch" THEN exported ELSE << >>
           made == Closure(j.request, exported[1])
           new == [j EXCEPT !.step = "store", !.payload = kept, !.closure = made]
<1>1. j.step = "export" /\ UNCHANGED <<source, built, visible, cache, raced, bundle>>
      BY DEF lean_export, At
<1>2. j \in Job /\ JobKeyed(j) /\ (Trusted => JobTrusted(j))
      BY <1>1, JobIs
<1>3. Becomes(d, new)
      BY DEF lean_export
<1>4. CacheOk(cache') /\ BundleOk(bundle')
      BY <1>1 DEF ExportInv
<1>5. built \in Versions /\ j.request \in Nat /\ j.payload \in {<< >>} \cup {<<v>> : v \in Versions}
      BY <1>2 DEF ExportInv, Job
<1>6. PICK v \in Versions : exported = <<v>>
      BY <1>5
<1>7. Trusted => exported = <<built>>
      BY <1>2 DEF JobTrusted
<1>8. made \in Keys /\ made = <<j.request, v>>
      BY <1>5, <1>6 DEF Closure, Keys
<1>9. kept \in {<< >>} \cup {<<w>> : w \in Versions} /\ (kept # << >> => kept = exported)
      BY <1>6
<1>10. Trusted => v = built
       BY <1>6, <1>7
<1> HIDE DEF j, exported, kept, made
<1>11. /\ new \in Job /\ new.step = "store" /\ new.key = j.key /\ new.request = j.request
       /\ new.payload = kept /\ new.closure = made /\ new.quiet = j.quiet
       BY <1>2, <1>8, <1>9 DEF Job
<1> HIDE DEF new
<1>12. j.quiet => built = source
       BY <1>1, <1>2 DEF JobKeyed
<1>13. JobKeyed(new)
       BY <1>1, <1>2, <1>8, <1>11 DEF JobKeyed
<1>14. Trusted => JobTrusted(new)
  <2> SUFFICES ASSUME Trusted PROVE JobTrusted(new)
      OBVIOUS
  <2>1. j.key = made
        BY <1>1, <1>2, <1>8, <1>10 DEF JobTrusted
  <2>2. new.payload # << >> => new.payload = <<built>>
        BY <1>7, <1>9, <1>11
  <2>3. j.quiet => made[2] = source
        BY <1>8, <1>10, <1>12
  <2> QED
      BY <1>11, <2>1, <2>2, <2>3 DEF JobTrusted, Closed, Resolved, Composed, AxlePhase
<1>15. JobOk(new)
       BY <1>11, <1>13, <1>14 DEF JobOk
<1> QED
    BY <1>1, <1>3, <1>4, <1>15, DriverMoves

(* The entry that is written pairs a key with its closure.                 *)
LEMMA WriteCacheInv == ASSUME ExportInv, NEW d \in Driver, write_cache(d) PROVE ExportInv'
<1> DEFINE j == job[d]
<1>1. j.step = "store" /\ UNCHANGED <<source, built, visible, raced, bundle>>
      BY DEF write_cache, At
<1>2. j \in Job /\ JobKeyed(j) /\ (Trusted => JobTrusted(j))
      BY <1>1, JobIs
<1>3. Becomes(d, Obtained(j, j.closure))
      BY DEF write_cache
<1>4. /\ j.key \in Keys /\ j.closure \in Keys
      BY <1>1, <1>2 DEF JobKeyed
<1>5. CacheOk(cache')
  <2>1. cache' = {entry \in cache : entry[1] # j.key} \cup {<<j.key, j.closure>>}
        BY DEF write_cache
  <2>2. Trusted => j.key = j.closure
        BY <1>1, <1>2 DEF JobTrusted
  <2> HIDE DEF j
  <2>3. CacheOk(cache)
        BY DEF ExportInv
  <2> QED
      BY <1>4, <2>1, <2>2, <2>3 DEF CacheOk
<1>6. BundleOk(bundle')
      BY <1>1 DEF ExportInv
<1>7. ClosureOk(j, j.closure)
      BY <1>1, <1>2 DEF JobTrusted, ClosureOk
<1>8. JobOk(Obtained(j, j.closure))
      BY <1>1, <1>2, <1>4, <1>7, ObtainedOk
<1> QED
    BY <1>1, <1>3, <1>5, <1>6, <1>8, DriverMoves

(* A job that is given up, or ends.                                        *)
LEMMA GivenUp ==
    ASSUME ExportInv, NEW d \in Driver, Becomes(d, NoJob), UNCHANGED <<source, built, visible, cache, raced>>,
           BundleOk(bundle')
    PROVE  ExportInv'
<1>1. CacheOk(cache') /\ JobOk(NoJob)
      BY DEF ExportInv, JobOk
<1> QED
    BY <1>1, DriverMoves

(* The sources are read for their digests and again for their text: with   *)
(* no edit in between both are those of the closure.                       *)
LEMMA ResolveInv ==
    ASSUME ExportInv, NEW d \in Driver, resolve_owner_sources(d) \/ compose_owner_sources(d)
    PROVE  ExportInv'
<1> DEFINE j == job[d]
           digested == [j EXCEPT !.step = "compose", !.digests = source]
           composed == [j EXCEPT !.step = "owner-source-extract", !.text = source]
<1>1. /\ UNCHANGED <<source, built, visible, cache, raced>>
      /\ bundle' = bundle \/ bundle' = NoBundle
      BY DEF resolve_owner_sources, compose_owner_sources, preflight
<1>2. CacheOk(cache') /\ BundleOk(bundle')
  <2>1. BundleOk(bundle) /\ BundleOk(NoBundle)
        BY DEF ExportInv, BundleOk, NoBundle
  <2> QED
      BY <1>1, <2>1 DEF ExportInv
<1>3. source \in Versions
      BY DEF ExportInv
<1>4. CASE resolve_owner_sources(d)
  <2>1. j.step = "resolve" /\ Becomes(d, digested)
        BY <1>4 DEF resolve_owner_sources, At
  <2>2. j \in Job /\ JobKeyed(j) /\ (Trusted => JobTrusted(j))
        BY <2>1, JobIs
  <2> HIDE DEF j
  <2>3. /\ digested \in Job /\ digested.step = "compose" /\ digested.payload = j.payload
        /\ digested.closure = j.closure /\ digested.quiet = j.quiet /\ digested.digests = source
        BY <1>3, <2>2 DEF Job, Closed, Resolved
  <2> HIDE DEF digested
  <2>4. JobKeyed(digested)
        BY <2>1, <2>2, <2>3 DEF JobKeyed
  <2>5. Trusted => JobTrusted(digested)
        BY <2>1, <2>2, <2>3 DEF JobTrusted, Closed, Resolved, Composed, AxlePhase
  <2>6. JobOk(digested)
        BY <2>3, <2>4, <2>5 DEF JobOk
  <2> QED
      BY <1>1, <1>2, <2>1, <2>6, DriverMoves
<1>5. CASE compose_owner_sources(d)
  <2>1. j.step = "compose" /\ Becomes(d, composed)
        BY <1>5 DEF compose_owner_sources, At
  <2>2. j \in Job /\ JobKeyed(j) /\ (Trusted => JobTrusted(j))
        BY <2>1, JobIs
  <2> HIDE DEF j
  <2>3. /\ composed \in Job /\ composed.step = "owner-source-extract" /\ composed.payload = j.payload
        /\ composed.closure = j.closure /\ composed.quiet = j.quiet /\ composed.digests = j.digests
        /\ composed.text = source
        BY <1>3, <2>2 DEF Job, Closed, Resolved, Composed, AxlePhase
  <2> HIDE DEF composed
  <2>4. JobKeyed(composed)
        BY <2>1, <2>2, <2>3 DEF JobKeyed
  <2>5. Trusted => JobTrusted(composed)
        BY <2>1, <2>2, <2>3 DEF JobTrusted, Closed, Resolved, Composed, AxlePhase
  <2>6. JobOk(composed)
        BY <2>3, <2>4, <2>5 DEF JobOk
  <2> QED
      BY <1>1, <1>2, <2>1, <2>6, DriverMoves
<1> QED
    BY <1>4, <1>5

(* The AXLE phases take nothing from the workspace.                        *)
LEMMA PhaseInv == ASSUME ExportInv, NEW d \in Driver, axle_phase(d) PROVE ExportInv'
<1> DEFINE j == job[d]
<1>1. PICK step \in Composed : j.step \in AxlePhase /\ Becomes(d, [j EXCEPT !.step = step])
      BY DEF axle_phase, run_phase, At, Moves, Composed, AxlePhase
<1>2. UNCHANGED <<source, built, visible, cache, raced, bundle>>
      BY DEF axle_phase
<1>3. j \in Job /\ JobKeyed(j) /\ (Trusted => JobTrusted(j))
      BY <1>1, JobIs DEF AxlePhase
<1> DEFINE new == [j EXCEPT !.step = step]
<1> HIDE DEF j
<1>4. /\ new \in Job /\ new.step = step /\ new.payload = j.payload /\ new.closure = j.closure
      /\ new.quiet = j.quiet /\ new.digests = j.digests /\ new.text = j.text
      BY <1>1, <1>3 DEF Job, Closed, Resolved
<1> HIDE DEF new
<1>5. JobKeyed(new)
      BY <1>1, <1>3, <1>4 DEF JobKeyed, Composed, AxlePhase
<1>6. Trusted => JobTrusted(new)
      BY <1>1, <1>3, <1>4 DEF JobTrusted, Closed, Resolved, Composed, AxlePhase
<1>7. JobOk(new)
      BY <1>4, <1>5, <1>6 DEF JobOk
<1>8. Becomes(d, new)
      BY <1>1 DEF new
<1>9. CacheOk(cache') /\ BundleOk(bundle')
      BY <1>2 DEF ExportInv
<1> QED
    BY <1>2, <1>7, <1>8, <1>9, DriverMoves

(* The bundle binds what the job has.                                      *)
LEMMA WriteBundleInv == ASSUME ExportInv, NEW d \in Driver, write_bundle(d) PROVE ExportInv'
<1> DEFINE j == job[d]
           b == [closure |-> j.closure, digests |-> j.digests, text |-> j.text, quiet |-> j.quiet]
<1>1. /\ j.step = "bundle" /\ Becomes(d, NoJob) /\ UNCHANGED <<source, built, visible, cache, raced>>
      /\ bundle' = <<b>>
      BY DEF write_bundle, At
<1>2. j \in Job /\ JobKeyed(j) /\ (Trusted => JobTrusted(j))
      BY <1>1, JobIs
<1>3. Trusted /\ j.quiet => j.closure[2] = source /\ j.digests = source /\ j.text = source
      BY <1>1, <1>2 DEF JobTrusted, Closed, Resolved, Composed
<1> HIDE DEF j
<1>4. /\ b.closure = j.closure /\ b.digests = j.digests /\ b.text = j.text /\ b.quiet = j.quiet
      OBVIOUS
<1> HIDE DEF b
<1>5. {bundle'[i] : i \in DOMAIN bundle'} = {b}
      BY <1>1
<1>6. BundleOk(bundle')
      BY <1>3, <1>4, <1>5 DEF BundleOk
<1> QED
    BY <1>1, <1>6, GivenUp

(* Every step of a driver, an editor or a build keeps what is known.       *)
LEMMA ExportStepInv == ExportInv /\ [ExportNext]_pipeline => ExportInv'
<1> SUFFICES ASSUME ExportInv, [ExportNext]_pipeline PROVE ExportInv'
    OBVIOUS
<1>1. CASE UNCHANGED pipeline
  <2>1. Trusted' <=> Trusted
        BY <1>1 DEF pipeline, Trusted
  <2>2. \A j : JobOk(j) => JobOk(j)'
        BY <1>1, <2>1 DEF pipeline, JobOk, JobKeyed, JobTrusted
  <2>3. \A d \in Driver : JobOk(job[d])'
        BY <1>1, <2>2 DEF pipeline, ExportInv
  <2> QED
      BY <1>1, <2>1, <2>3 DEF pipeline, ExportInv, CacheOk, BundleOk
<1>2. ASSUME NEW f \in {"root", "import"}, edit(f) PROVE ExportInv'
      BY <1>2, EditInv
<1>3. ASSUME NEW d \in Driver, NEW how \in {"run", "batch", "mixed"}, start_export(d, how) PROVE ExportInv'
  <2>1. Becomes(d, NewJob(how)) /\ UNCHANGED <<source, built, visible, cache, raced, bundle>>
        BY <1>3 DEF start_export, Becomes
  <2>2. NewJob(how) \in Job /\ NewJob(how).step = "build" /\ NewJob(how).payload = << >>
        BY DEF NewJob, Job
  <2>3. JobOk(NewJob(how))
        BY <2>2 DEF JobOk, JobKeyed, JobTrusted, Closed, Resolved, Composed, AxlePhase
  <2>4. CacheOk(cache') /\ BundleOk(bundle')
        BY <2>1 DEF ExportInv
  <2> QED
      BY <2>1, <2>3, <2>4, DriverMoves
<1>4. ASSUME NEW d \in Driver, closure_deadline_exceeded(d) \/ reject(d) PROVE ExportInv'
  <2>1. Becomes(d, NoJob) /\ UNCHANGED <<source, built, visible, cache, raced, bundle>>
        BY <1>4 DEF closure_deadline_exceeded, reject
  <2>2. BundleOk(bundle')
        BY <2>1 DEF ExportInv
  <2> QED
      BY <2>1, <2>2, GivenUp
<1> QED
    BY <1>1, <1>2, <1>3, <1>4, BuildInv, ReadCacheInv, LeanExportInv, WriteCacheInv, ResolveInv, PhaseInv,
       WriteBundleInv DEF ExportNext

(* For any number of drivers that share the cache and the workspace: while *)
(* every change shows in the root's .olean and no driver rebuilds between  *)
(* another's key and its export, read_cache never serves a closure of      *)
(* other artifacts, and a run with no edit under it binds closure, digests *)
(* and text of one version of the sources.                                 *)
THEOREM ExportsSound == ExportSpec => []ExportSound
<1>1. ExportInv => ExportSound
  <2> SUFFICES ASSUME ExportInv, Trusted
               PROVE  /\ \A entry \in cache : entry[1] = <<entry[2][1], entry[2][2]>>
                      /\ \A b \in {bundle[i] : i \in DOMAIN bundle} :
                             b.quiet => b.closure[2] = b.digests /\ b.text = b.digests
      BY DEF ExportSound, Trusted
  <2>1. \A entry \in cache : entry[1] = <<entry[2][1], entry[2][2]>>
    <3>1. \A c \in Keys : c = <<c[1], c[2]>>
          BY DEF Keys
    <3> QED
        BY <3>1 DEF ExportInv, CacheOk
  <2> QED
      BY <2>1 DEF ExportInv, BundleOk
<1> QED
    BY <1>1, ExportInitInv, ExportStepInv, PTL DEF ExportSpec

-----------------------------------------------------------------------------
(* The AXLE command line. *)

(* The steps of a verification task and what it holds.                     *)
TaskStep == {"read", "theorem2sorry", "verify", "done", "cancelled"}
TaskType == [at : TaskStep, content : Nat, statement : Nat, okay : {"none", "yes", "no"}]

(* What a task has is of the text that it read, and is the file as it is   *)
(* unless somebody edited one; it has passed only with that text.          *)
TaskRight(i) ==
    /\ task[i] \in TaskType
    /\ file_edits = 0 /\ task[i].at \in {"theorem2sorry", "verify", "done"} =>
           task[i].content = file[paths[i]]
    /\ task[i].okay = "yes" =>
           task[i].at = "done" /\ task[i].content = task[i].statement /\ task[i].content % 2 = 1

(* What is printed at an end that is a failure, and with status one.       *)
Failures == {"traceback", "axle-operation-deadline-exceeded"}
Outcomes == Failures \cup {"receipts"}

(* The invariant: the exit status is of the tasks as they are at the end,  *)
(* and nothing but an edit changes a file after it was read.               *)
VerifyInv ==
    /\ file \in [File -> Nat] /\ file_edits \in Nat
    /\ task = [i \in DOMAIN paths |-> task[i]]
    /\ \A i \in DOMAIN paths : paths[i] \in File /\ TaskRight(i)
    /\ process \in {"running", "0", "1"} => paths # << >>
    /\ process \in {"starting", "2"} => \A i \in DOMAIN paths : task[i] = NewTask
    /\ process = "0" => printed = "receipts" /\ \A i \in DOMAIN paths : task[i].okay = "yes"
    /\ process = "1" => printed \in Outcomes
    /\ process = "1" /\ printed = "receipts" =>
           (\E i \in DOMAIN paths : task[i].okay # "yes") /\ \A i \in DOMAIN paths : task[i].at = "done"
    /\ printed \in Failures => process = "1"
    /\ printed = "traceback" => \E i \in DOMAIN paths : task[i].at = "cancelled"
    /\ process \in {"0", "1"} => \A i \in DOMAIN paths : task[i].at \in {"done", "cancelled"}
    /\ process = "closure" => {"lean-root", "root-module", "root-declaration"} \subseteq options

(* Every task is new at first.                                             *)
LEMMA VerifyInitInv == ASSUME NEW given, VerificationInit(given) PROVE VerifyInv
<1>1. NewTask \in TaskType /\ NewTask.at = "read" /\ NewTask.okay = "none"
      BY DEF NewTask, TaskType, TaskStep
<1>2. PICK n \in 0..MaxPaths : paths \in [1..n -> File]
      BY DEF VerificationInit
<1>3. DOMAIN paths = 1..n /\ \A i \in 1..n : paths[i] \in File
      BY <1>2
<1>4. /\ file \in [File -> Nat] /\ file_edits = 0 /\ task = [i \in DOMAIN paths |-> NewTask]
      /\ process = "starting" /\ printed = "nothing"
      BY DEF VerificationInit
<1>5. \A i \in DOMAIN paths : task[i] = NewTask
      BY <1>4
<1>6. task = [i \in DOMAIN paths |-> task[i]]
      BY <1>4
<1>7. \A i \in DOMAIN paths : TaskRight(i)
      BY <1>1, <1>5 DEF TaskRight
<1> QED
    BY <1>3, <1>4, <1>5, <1>6, <1>7 DEF VerifyInv, Failures

(* One task goes on and nothing else changes.                              *)
LEMMA TaskMoves ==
    ASSUME VerifyInv, process = "running", NEW i \in DOMAIN paths, NEW new \in TaskType,
           task' = [task EXCEPT ![i] = new],
           UNCHANGED <<options, paths, file, file_edits, process, printed>>,
           file_edits = 0 /\ new.at \in {"theorem2sorry", "verify", "done"} => new.content = file[paths[i]],
           new.okay = "yes" => new.at = "done" /\ new.content = new.statement /\ new.content % 2 = 1
    PROVE  VerifyInv'
<1>1. DOMAIN task = DOMAIN paths /\ task = [j \in DOMAIN paths |-> task[j]]
      BY DEF VerifyInv
<1>2. task'[i] = new /\ \A j \in DOMAIN paths : j # i => task'[j] = task[j]
      BY <1>1
<1>3. task' = [j \in DOMAIN paths' |-> task'[j]]
      BY <1>1
<1>4. TaskRight(i)'
      BY <1>2 DEF TaskRight
<1>5. \A j \in DOMAIN paths : j # i => TaskRight(j)'
      BY <1>2 DEF TaskRight, VerifyInv
<1>6. \A j \in DOMAIN paths' : TaskRight(j)'
      BY <1>4, <1>5
<1>7. process' = "running" /\ printed' # "traceback" /\ printed' \notin Failures
      BY DEF VerifyInv, Failures
<1>8. file' \in [File -> Nat] /\ file_edits' \in Nat /\ paths' # << >> /\ \A j \in DOMAIN paths' : paths'[j] \in File
      BY DEF VerifyInv
<1> QED
    BY <1>3, <1>6, <1>7, <1>8 DEF VerifyInv

(* Every task is left as it was, or cancelled.                             *)
LEMMA CancelInv ==
    ASSUME VerifyInv, process = "running", task' = Cancelled, NEW outcome \in Failures, Fails(outcome),
           outcome = "traceback" => \E i \in DOMAIN paths : task[i].at # "done"
    PROVE  VerifyInv'
<1>1. DOMAIN task = DOMAIN paths /\ \A i \in DOMAIN paths : TaskRight(i)
      BY DEF VerifyInv
<1>2. task' = [i \in DOMAIN paths |-> IF task[i].at = "done" THEN task[i]
                                      ELSE [task[i] EXCEPT !.at = "cancelled"]]
      BY <1>1 DEF Cancelled
<1>3. process' = "1" /\ printed' = outcome /\ UNCHANGED <<options, paths, file, file_edits>>
      BY DEF Fails
<1>4. task' = [i \in DOMAIN paths' |-> task'[i]]
      BY <1>2, <1>3
<1>5. ASSUME NEW i \in DOMAIN paths
      PROVE  /\ TaskRight(i)' /\ task'[i].at \in {"done", "cancelled"}
             /\ task[i].at # "done" => task'[i].at = "cancelled"
  <2>1. CASE task[i].at = "done"
    <3>1. task'[i] = task[i]
          BY <1>2, <2>1
    <3> QED
        BY <1>1, <1>3, <2>1, <3>1 DEF TaskRight
  <2>2. CASE task[i].at # "done"
    <3>1. task'[i] = [task[i] EXCEPT !.at = "cancelled"] /\ task[i] \in TaskType /\ task[i].okay # "yes"
          BY <1>1, <1>2, <2>2 DEF TaskRight
    <3>2. task'[i] \in TaskType /\ task'[i].at = "cancelled" /\ task'[i].okay # "yes"
          BY <3>1 DEF TaskType, TaskStep
    <3> QED
        BY <1>3, <3>2 DEF TaskRight
  <2> QED
      BY <2>1, <2>2
<1> QED
    BY <1>3, <1>5, <1>4 DEF VerifyInv, Failures, Outcomes

(* Every step of a task, of the process or of an editor keeps what is      *)
(* known.                                                                  *)
LEMMA VerifyStepInv == VerifyInv /\ [VerificationNext]_verification => VerifyInv'
<1> SUFFICES ASSUME VerifyInv, [VerificationNext]_verification PROVE VerifyInv'
    OBVIOUS
<1>1. CASE UNCHANGED verification
      BY <1>1 DEF VerifyInv, TaskRight, verification
<1>2. CASE main
  <2>1. \A i \in DOMAIN paths : TaskRight(i)'
        BY <1>2 DEF VerifyInv, TaskRight, main
  <2> QED
      BY <1>2, <2>1 DEF VerifyInv, main, mode, Failures
<1>3. CASE run_ends
  <2>1. \A i \in DOMAIN paths : TaskRight(i)'
        BY <1>3 DEF VerifyInv, TaskRight, run_ends
  <2>2. DOMAIN task = DOMAIN paths
        BY DEF VerifyInv
  <2> QED
      BY <1>3, <2>1, <2>2 DEF VerifyInv, run_ends, receipt_succeeded, Failures, Outcomes
<1>4. CASE deadline_exceeded
      BY <1>4, CancelInv DEF deadline_exceeded, Failures
<1>5. ASSUME NEW f \in File, edit_file(f) PROVE VerifyInv'
  <2>1. file' \in [File -> Nat] /\ file_edits' \in Nat /\ file_edits' # 0
        BY <1>5 DEF edit_file, VerifyInv
  <2>2. \A i \in DOMAIN paths : TaskRight(i)'
        BY <1>5, <2>1 DEF VerifyInv, TaskRight, edit_file
  <2> QED
      BY <1>5, <2>1, <2>2 DEF VerifyInv, edit_file
<1>6. ASSUME NEW i \in DOMAIN paths
      PROVE  task[i] \in TaskType /\ paths[i] \in File /\ file[paths[i]] \in Nat /\ DOMAIN task = DOMAIN paths
      BY DEF VerifyInv, TaskRight
<1>7. ASSUME NEW i \in DOMAIN paths, read_text(i) PROVE VerifyInv'
  <2> DEFINE new == [task[i] EXCEPT !.at = "theorem2sorry", !.content = file[paths[i]]]
  <2>1. task' = [task EXCEPT ![i] = new]
        BY <1>6, <1>7 DEF read_text
  <2>2. /\ new \in TaskType /\ new.at = "theorem2sorry" /\ new.content = file[paths[i]]
        /\ new.okay = task[i].okay
        BY <1>6 DEF TaskType, TaskStep
  <2>3. task[i].okay # "yes"
        BY <1>7 DEF VerifyInv, TaskRight, read_text, TaskAt
  <2> HIDE DEF new
  <2> QED
      BY <1>7, <2>1, <2>2, <2>3, TaskMoves DEF read_text, TaskAt
<1>8. ASSUME NEW i \in DOMAIN paths, theorem2sorry(i) PROVE VerifyInv'
  <2>1. task[i].at = "theorem2sorry" /\ task[i].okay # "yes"
        BY <1>8 DEF VerifyInv, TaskRight, theorem2sorry, TaskAt
  <2>2. file_edits = 0 => task[i].content = file[paths[i]]
        BY <2>1 DEF VerifyInv, TaskRight
  <2>3. ASSUME NEW new, task' = [task EXCEPT ![i] = new],
               \/ new = [task[i] EXCEPT !.at = "verify", !.statement = task[i].content]
               \/ new = [task[i] EXCEPT !.at = "done"]
        PROVE  VerifyInv'
    <3>1. new \in TaskType /\ new.content = task[i].content /\ new.okay = task[i].okay
          BY <1>6, <2>3 DEF TaskType, TaskStep
    <3> QED
        BY <1>8, <2>1, <2>2, <2>3, <3>1, TaskMoves DEF theorem2sorry, TaskAt
  <2> QED
      BY <1>6, <1>8, <2>3 DEF theorem2sorry
<1>9. ASSUME NEW i \in DOMAIN paths, verify_proof(i) PROVE VerifyInv'
  <2>1. PICK okay : okay = IF task[i].content = task[i].statement /\ task[i].content % 2 = 1
                           THEN "yes" ELSE "no"
        OBVIOUS
  <2> DEFINE new == [task[i] EXCEPT !.at = "done", !.okay = okay]
  <2>2. task' = [task EXCEPT ![i] = new]
        BY <1>6, <1>9, <2>1 DEF verify_proof
  <2>3. /\ new \in TaskType /\ new.at = "done" /\ new.content = task[i].content
        /\ new.statement = task[i].statement /\ new.okay = okay
        BY <1>6, <2>1 DEF TaskType, TaskStep
  <2>4. file_edits = 0 => task[i].content = file[paths[i]]
        BY <1>9 DEF VerifyInv, TaskRight, verify_proof, TaskAt
  <2>5. new.okay = "yes" => new.content = new.statement /\ new.content % 2 = 1
        BY <2>1, <2>3
  <2>6. process = "running" /\ UNCHANGED <<options, paths, file, file_edits, process, printed>>
        BY <1>9 DEF verify_proof, TaskAt
  <2> HIDE DEF new
  <2> QED
      BY <2>2, <2>3, <2>4, <2>5, <2>6, TaskMoves
<1>10. ASSUME NEW i \in DOMAIN paths, operation_raises(i) PROVE VerifyInv'
  <2>1. process = "running" /\ task[i].at # "done" /\ task' = Cancelled
        BY <1>10 DEF operation_raises, TaskAt
  <2>2. PICK outcome \in Failures : Fails(outcome)
        BY <1>10 DEF operation_raises, Failures
  <2> QED
      BY <2>1, <2>2, CancelInv
<1> QED
    BY <1>1, <1>2, <1>3, <1>4, <1>5, <1>7, <1>8, <1>9, <1>10 DEF VerificationNext

(* For any list of paths and whatever tasks fail, time out, or read a file *)
(* that is edited under them: exit status zero means every proof was       *)
(* verified against the text that was read for it; one with receipts means *)
(* that some proof was not, and one without that the deadline struck or an *)
(* operation failed; no end leaves a task running.                         *)
THEOREM ExitStatusTells == ASSUME NEW given PROVE VerificationSpec(given) => []ExitTells
<1>1. VerifyInv => ExitTells
  <2> SUFFICES ASSUME VerifyInv PROVE ExitTells
      OBVIOUS
  <2>1. DOMAIN task = DOMAIN paths
        BY DEF VerifyInv
  <2>2. ASSUME process = "0", NEW i \in DOMAIN paths
        PROVE  /\ task[i].content = task[i].statement /\ task[i].content % 2 = 1
               /\ file_edits = 0 => task[i].content = file[paths[i]]
        BY <2>2 DEF VerifyInv, TaskRight
  <2> QED
      BY <2>1, <2>2 DEF ExitTells, VerifyInv, Failures, Outcomes
<1>2. VerificationInit(given) => VerifyInv
      BY VerifyInitInv
<1> QED
    BY <1>1, <1>2, VerifyStepInv, PTL DEF VerificationSpec
=============================================================================
