-------------------------- MODULE FileCheckpointer --------------------------
(***************************************************************************)
(* FileRuntimeGraphCheckpointer (checkpoints.py): one thread's head file,  *)
(* its history directory, and workers that save and clear it.  A worker is *)
(* a process; each step is one call to the file system, and a worker may   *)
(* stop before any of them.  Checkpoint ids are assigned in order, as the  *)
(* clock prefix of the real ids makes them.                                *)
(***************************************************************************)
EXTENDS ReplacedFile

CONSTANTS Worker, MaxSaves

(* There is always a free inode: a writer has at most one open, and two    *)
(* are linked.                                                             *)
ASSUME CkptAssumption ==
    /\ Inodes \in Nat /\ IsFiniteSet(Worker)
    /\ Cardinality(Worker) + 2 <= Inodes

VARIABLES
    head,       \* the head file and its temporary sibling
    hdir,       \* does the history directory exist?
    history,    \* the checkpoints with a file in it
    htmp,       \* the checkpoints with only a temporary file in it
    saves,      \* checkpoint ids assigned so far
    pc,         \* the next step of each worker
    saving,     \* the checkpoint a worker is saving
    fd,         \* the inode a worker has open
    listing,    \* the history files a clearing worker has yet to unlink
    reported,   \* ghost: checkpoints whose save returned
    unlinked,   \* ghost: checkpoints whose history file a clear removed
    dropped,    \* ghost: checkpoints reported when a clear removed the head
    overlapped  \* ghost: has a call ever begun while another was under way?

files == <<head, hdir, history, htmp>>
ghosts == <<reported, unlinked, dropped, overlapped>>
checkpointer == <<files, saves, pc, saving, fd, listing, ghosts>>

CkptInit ==
    /\ head = NoFile /\ hdir = FALSE /\ history = {} /\ htmp = {}
    /\ saves = 0
    /\ pc = [w \in Worker |-> "idle"]
    /\ saving = [w \in Worker |-> 0]
    /\ fd = [w \in Worker |-> NoInode]
    /\ listing = [w \in Worker |-> {}]
    /\ reported = {} /\ unlinked = {} /\ dropped = {} /\ overlapped = FALSE

Begins(w, step) ==
    /\ pc[w] = "idle"
    /\ pc' = [pc EXCEPT ![w] = step]
    /\ overlapped' = (overlapped \/ \E v \in Worker \ {w} : pc[v] # "idle")

Goto(w, step) == pc' = [pc EXCEPT ![w] = step]

(* save and save_interrupted; update_state is a load, which must succeed,  *)
(* followed by a save of the edited checkpoint.                            *)
save(w) ==
    /\ saves < MaxSaves
    /\ Begins(w, "open")
    /\ saves' = saves + 1
    /\ saving' = [saving EXCEPT ![w] = saves + 1]
    /\ UNCHANGED <<files, fd, listing, reported, unlinked, dropped>>

update_state(w) == Loadable(head) /\ save(w)

(* Fault: the head is written in place. *)
open_tmp_in_place(w) ==
    /\ pc[w] = "open"
    /\ LET f == IF Exists(head)
                THEN [head EXCEPT !.data[head.path] = <<>>, !.tmp = head.path]
                ELSE OpenTmp(head, {fd[v] : v \in Worker})
       IN  head' = f /\ fd' = [fd EXCEPT ![w] = f.tmp]
    /\ Goto(w, "write")
    /\ UNCHANGED <<hdir, history, htmp, saves, saving, listing, ghosts>>

(* write_bytes of the temporary file: open and truncate, then write.       *)
open_tmp(w) ==
    /\ pc[w] = "open"
    /\ LET held == {fd[v] : v \in Worker}
       IN  /\ head' = OpenTmp(head, held)
           /\ fd' = [fd EXCEPT ![w] = OpenedInode(head, held)]
    /\ Goto(w, "write")
    /\ UNCHANGED <<hdir, history, htmp, saves, saving, listing, ghosts>>

write_tmp(w) ==
    /\ pc[w] = "write"
    /\ head' = WriteOpened(head, fd[w], saving[w])
    /\ fd' = [fd EXCEPT ![w] = NoInode]
    /\ Goto(w, "replace")
    /\ UNCHANGED <<hdir, history, htmp, saves, saving, listing, ghosts>>

(* The rename fails when another writer has renamed the temporary file:    *)
(* the save raises.                                                        *)
replace_head(w) ==
    /\ pc[w] = "replace"
    /\ IF CanReplace(head)
       THEN head' = Replace(head) /\ Goto(w, "mkdir")
       ELSE UNCHANGED head /\ Goto(w, "idle")
    /\ UNCHANGED <<hdir, history, htmp, saves, saving, fd, listing, ghosts>>

make_history_dir(w) ==
    /\ pc[w] = "mkdir"
    /\ hdir' = TRUE
    /\ Goto(w, "write_history")
    /\ UNCHANGED <<head, history, htmp, saves, saving, fd, listing, ghosts>>

(* The history file and its temporary sibling are named after the          *)
(* checkpoint, so no other writer has them; only the directory is shared.  *)
write_history(w) ==
    /\ pc[w] = "write_history"
    /\ IF hdir
       THEN htmp' = htmp \cup {saving[w]} /\ Goto(w, "replace_history")
       ELSE UNCHANGED htmp /\ Goto(w, "idle")
    /\ UNCHANGED <<head, hdir, history, saves, saving, fd, listing, ghosts>>

replace_history(w) ==
    /\ pc[w] = "replace_history"
    /\ htmp' = htmp \ {saving[w]}
    /\ history' = history \cup {saving[w]}
    /\ reported' = reported \cup {saving[w]}
    /\ Goto(w, "idle")
    /\ UNCHANGED <<head, hdir, saves, saving, fd, listing, unlinked, dropped, overlapped>>

(* clear: the head first, then the history files it finds, one by one,     *)
(* then the directory, which must be empty of temporary files too.         *)
clear(w) ==
    /\ Begins(w, "list")
    /\ head' = Unlink(head)
    /\ dropped' = dropped \cup reported
    /\ UNCHANGED <<hdir, history, htmp, saves, saving, fd, listing, reported, unlinked>>

clear_list(w) ==
    /\ pc[w] = "list"
    /\ IF hdir
       THEN listing' = [listing EXCEPT ![w] = history] /\ Goto(w, "unlink")
       ELSE UNCHANGED listing /\ Goto(w, "idle")
    /\ UNCHANGED <<files, saves, saving, fd, ghosts>>

clear_unlink(w) ==
    /\ pc[w] = "unlink"
    /\ \E id \in listing[w] :
           /\ history' = history \ {id}
           /\ unlinked' = unlinked \cup {id}
           /\ IF id \in history
              THEN listing' = [listing EXCEPT ![w] = @ \ {id}] /\ UNCHANGED pc
              ELSE listing' = [listing EXCEPT ![w] = {}] /\ Goto(w, "idle")
    /\ UNCHANGED <<head, hdir, htmp, saves, saving, fd, reported, dropped, overlapped>>

(* rmdir raises when the directory is gone or not empty.                   *)
clear_rmdir(w) ==
    /\ pc[w] = "unlink" /\ listing[w] = {}
    /\ hdir' = (hdir /\ (htmp # {} \/ history # {}))
    /\ Goto(w, "idle")
    /\ UNCHANGED <<head, history, htmp, saves, saving, fd, listing, ghosts>>

(* The worker stops; what it has written so far stays.                     *)
crash(w) ==
    /\ pc[w] # "idle"
    /\ Goto(w, "idle")
    /\ fd' = [fd EXCEPT ![w] = NoInode]
    /\ listing' = [listing EXCEPT ![w] = {}]
    /\ UNCHANGED <<files, saves, saving, ghosts>>

CkptNext ==
    \E w \in Worker :
        \/ save(w) \/ update_state(w)
        \/ open_tmp(w) \/ write_tmp(w) \/ replace_head(w)
        \/ make_history_dir(w) \/ write_history(w) \/ replace_history(w)
        \/ clear(w) \/ clear_list(w) \/ clear_unlink(w) \/ clear_rmdir(w)
        \/ crash(w)

CkptSpec == CkptInit /\ [][CkptNext]_checkpointer

-----------------------------------------------------------------------------
(* Properties. *)

(* However saves, clears and stops of several workers interleave, a        *)
(* checkpoint whose save returned has its history file, and load_at finds  *)
(* it, until a clear removes that file.                                    *)
SavedResolvable == reported \subseteq history \cup unlinked

(* As long as no two calls overlapped, a save that returned is what load   *)
(* gives, or something newer, until a clear: no worker that stops, at any  *)
(* step of any later call, can make the head unreadable or take it back.   *)
HeadWhole ==
    ~overlapped =>
        /\ Exists(head) => Loadable(head)
        /\ \A id \in reported \ dropped : Loadable(head) /\ Read(head) >= id

(* What a save returned for is not lost, by history or by head.            *)
CheckpointsKept == SavedResolvable /\ HeadWhole

=============================================================================
