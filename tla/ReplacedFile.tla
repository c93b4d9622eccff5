---------------------------- MODULE ReplacedFile ----------------------------
(***************************************************************************)
(* A file that is rewritten through a temporary sibling and a rename: the  *)
(* way the file checkpointer and the file store write.  Two names, inodes  *)
(* behind them, and the bytes of each inode: <<>> while write_bytes has    *)
(* opened it and not yet written, <<value>> once it is whole.  The name of *)
(* the sibling is the same for every writer of the file.                   *)
(***************************************************************************)
EXTENDS Naturals, FiniteSets

CONSTANT Inodes   \* how many inodes there are: two names and one per writer

Inode == 1..Inodes
NoInode == 0

NoFile == [path |-> NoInode, tmp |-> NoInode, data |-> [i \in Inode |-> <<>>]]

Linked(f) == {f.path, f.tmp} \ {NoInode}

(* Opening for writing takes the inode the name has, or a new one; held    *)
(* are the inodes that other writers have open.                            *)
OpenedInode(f, held) ==
    IF f.tmp # NoInode THEN f.tmp
    ELSE CHOOSE i \in Inode \ (Linked(f) \cup held) :
             \A j \in Inode \ (Linked(f) \cup held) : i <= j

OpenTmp(f, held) ==
    LET i == OpenedInode(f, held)
    IN  [f EXCEPT !.tmp = i, !.data[i] = <<>>]

(* The bytes go to the inode that was opened, under whatever name it has   *)
(* by now, or nowhere.                                                     *)
WriteOpened(f, i, value) ==
    IF i \in Linked(f) THEN [f EXCEPT !.data[i] = <<value>>] ELSE f

CanReplace(f) == f.tmp # NoInode

Replace(f) ==
    [f EXCEPT !.path = f.tmp, !.tmp = NoInode,
              !.data = [i \in Inode |-> IF i = f.tmp THEN f.data[i] ELSE <<>>]]

Unlink(f) ==
    [f EXCEPT !.path = NoInode,
              !.data = [i \in Inode |-> IF i = f.tmp THEN f.data[i] ELSE <<>>]]

Exists(f) == f.path # NoInode
Loadable(f) == Exists(f) /\ f.data[f.path] # <<>>
Read(f) == f.data[f.path][1]

=============================================================================
