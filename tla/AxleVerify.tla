----------------------------- MODULE AxleVerify -----------------------------
(***************************************************************************)
(* The AXLE command line (axle_verify.py): which of its two modes the      *)
(* options select, and the mode that verifies Lean files: one task per     *)
(* path, all of them started together, each with two remote operations,    *)
(* under one deadline for all.  Files may be edited while it runs.  The    *)
(* other mode is the closure pipeline.                                     *)
(***************************************************************************)
EXTENDS Naturals, Sequences, FiniteSets

CONSTANTS MaxPaths, MaxFileEdits

VARIABLES
    options,   \* given on the command line
    paths,     \* the file behind each positional argument
    file,      \* the version of each file, odd when its proof is right
    file_edits,
    task,      \* of each path: where it is, what it read, its receipt
    process,   \* "starting", "running", "closure", or the exit status
    printed    \* what it printed at its end

verification == <<options, paths, file, file_edits, task, process, printed>>

File == {1, 2}
ClosureOptions == {"lean-root", "root-module", "root-declaration", "base-import", "closure-output"}
NewTask == [at |-> "read", content |-> 0, statement |-> 0, okay |-> "none"]

(* main: proof-base imports alone do not select the closure mode.          *)
closure_mode(given) == given \cap ClosureOptions # {}
mode(given, positional) ==
    IF closure_mode(given)
    THEN IF {"lean-root", "root-module", "root-declaration"} \subseteq given THEN "closure" ELSE "2"
    ELSE IF positional = << >> THEN "2" ELSE "running"

VerificationInit(given) ==
    /\ options = given
    /\ paths \in UNION {[1..n -> File] : n \in 0..MaxPaths}
    /\ file = [f \in File |-> 1] /\ file_edits = 0
    /\ task = [i \in DOMAIN paths |-> NewTask]
    /\ process = "starting" /\ printed = "nothing"

main ==
    /\ process = "starting"
    /\ process' = mode(options, paths)
    /\ printed' = IF process' = "2" THEN "usage" ELSE printed
    /\ UNCHANGED <<options, paths, file, file_edits, task>>

edit_file(f) ==
    /\ process = "running" /\ file_edits < MaxFileEdits
    /\ file_edits' = file_edits + 1 /\ file' = [file EXCEPT ![f] = @ + 1]
    /\ UNCHANGED <<options, paths, task, process, printed>>

TaskAt(i, step) == process = "running" /\ task[i].at = step

(* verify_one: the file is read once; imports are kept or replaced.        *)
read_text(i) ==
    /\ TaskAt(i, "read")
    /\ task' = [task EXCEPT ![i].at = "theorem2sorry", ![i].content = file[paths[i]]]
    /\ UNCHANGED <<options, paths, file, file_edits, process, printed>>

(* The statements of what was read, unless messages carry errors: then the *)
(* receipt has no verification.                                            *)
theorem2sorry(i) ==
    /\ TaskAt(i, "theorem2sorry")
    /\ \/ task' = [task EXCEPT ![i].at = "verify", ![i].statement = task[i].content]
       \/ task' = [task EXCEPT ![i].at = "done"]
    /\ UNCHANGED <<options, paths, file, file_edits, process, printed>>

verify_proof(i) ==
    /\ TaskAt(i, "verify")
    /\ task' = [task EXCEPT ![i].at = "done",
           ![i].okay = IF task[i].content = task[i].statement /\ task[i].content % 2 = 1 THEN "yes" ELSE "no"]
    /\ UNCHANGED <<options, paths, file, file_edits, process, printed>>

Cancelled == [i \in DOMAIN task |-> IF task[i].at = "done" THEN task[i] ELSE [task[i] EXCEPT !.at = "cancelled"]]

Fails(outcome) == process' = "1" /\ printed' = outcome /\ UNCHANGED <<options, paths, file, file_edits>>

(* A file that cannot be read or a service that fails: gather raises it,   *)
(* and the others are cancelled when the loop is closed.  An operation     *)
(* that raises a TimeoutError of its own is reported as the deadline is.   *)
operation_raises(i) ==
    /\ \E step \in {"read", "theorem2sorry", "verify"} : TaskAt(i, step)
    /\ task' = Cancelled
    /\ \E outcome \in {"traceback", "axle-operation-deadline-exceeded"} : Fails(outcome)

(* Fault: a receipt without verification has nothing against it. *)
receipt_succeeded_unless_refuted(i) == task[i].okay # "no"

receipt_succeeded(i) == task[i].okay = "yes"

(* run: the receipts in the order of the paths; zero if all succeeded.     *)
run_ends ==
    /\ process = "running" /\ \A i \in DOMAIN task : task[i].at = "done"
    /\ process' = IF \A i \in DOMAIN task : receipt_succeeded(i) THEN "0" ELSE "1"
    /\ printed' = "receipts"
    /\ UNCHANGED <<options, paths, file, file_edits, task>>

(* wait_for: it may strike when all is done and not yet reported.          *)
deadline_exceeded ==
    /\ process = "running"
    /\ task' = Cancelled
    /\ Fails("axle-operation-deadline-exceeded")

VerificationNext ==
    \/ main \/ run_ends \/ deadline_exceeded
    \/ \E f \in File : edit_file(f)
    \/ \E i \in DOMAIN paths :
           read_text(i) \/ theorem2sorry(i) \/ verify_proof(i) \/ operation_raises(i)

VerificationSpec(given) == VerificationInit(given) /\ [][VerificationNext]_verification

-----------------------------------------------------------------------------
(* Properties. *)

(* Exit status zero means that every path was verified, each against the   *)
(* statements of the text that was read for it, although its file may have *)
(* changed since, and that no edit made a difference when there was none.  *)
(* Status one means that a path was not verified only when the receipts    *)
(* were printed: the deadline and an error exit with it too, an error with *)
(* some path unfinished, the deadline even when all paths have just been   *)
(* verified.  Whatever the end, no task is left running, and a usage error *)
(* starts none.                                                            *)
ExitTells ==
    /\ process = "0" =>
           /\ printed = "receipts" /\ paths # << >>
           /\ \A i \in DOMAIN paths : /\ task[i].content = task[i].statement /\ task[i].content % 2 = 1
                                      /\ file_edits = 0 => task[i].content = file[paths[i]]
    /\ process = "1" => paths # << >> /\ printed \in {"receipts", "traceback", "axle-operation-deadline-exceeded"}
    /\ process = "1" /\ printed = "receipts" =>
           /\ \E i \in DOMAIN paths : task[i].okay # "yes"
           /\ \A i \in DOMAIN paths : task[i].at = "done"
    /\ printed = "traceback" => \E i \in DOMAIN paths : task[i].at = "cancelled"
    /\ process \in {"0", "1"} => \A i \in DOMAIN task : task[i].at \in {"done", "cancelled"}
    /\ process = "2" => \A i \in DOMAIN task : task[i] = NewTask
    /\ process = "closure" => {"lean-root", "root-module", "root-declaration"} \subseteq options

=============================================================================
