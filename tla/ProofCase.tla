------------------------------ MODULE ProofCase ------------------------------
(***************************************************************************)
(* NativeProofCaseRuntime (proof_case_runtime.py) over the proof-case      *)
(* library (proof_case_v1.c): threads share one runtime object, validate   *)
(* their vectors through a handle of their own and negotiate the layout of *)
(* the library once, under a lock.  Calls into C run without the           *)
(* interpreter lock, so every one of them is a step.                       *)
(***************************************************************************)
EXTENDS Naturals, FiniteSets

CONSTANTS Thread, MaxValidations

VARIABLES
    library_layout,  \* is the layout of the library the generated one?
    layout,          \* _layout, once negotiated
    layout_lock,     \* the thread that holds it, or "free"
    measurements,    \* _layout_measurements
    handle,          \* the vector behind each scratch handle, 0 when released
    thread,          \* the vector and buffer of each call, where it is, what it raised
    output,          \* the caller's buffer
    validations

proofcase == <<library_layout, layout, layout_lock, measurements, handle, thread, output, validations>>

Free == "free"

ASSUME ThreadAssumption == Free \notin Thread /\ MaxValidations \in Nat

NoCall == [at |-> "idle", vector |-> 0, fits |-> TRUE, status |-> "OK"]

CaseInit ==
    /\ library_layout \in {"generated", "other"}
    /\ layout = "none" /\ layout_lock = Free /\ measurements = 0
    /\ handle = [t \in Thread |-> 0] /\ output = [t \in Thread |-> 0]
    /\ thread = [t \in Thread |-> NoCall]
    /\ validations = 0

(* Fault: one scratch handle for all threads. *)
scratch_shared(t) == CHOOSE s \in Thread : TRUE

(* The handle is thread local.                                             *)
scratch(t) == t

In(t, step) == thread[t].at = step
To(t, step) == thread' = [thread EXCEPT ![t].at = step]
Raises(t, step, status) == thread' = [thread EXCEPT ![t].at = step, ![t].status = status]

(* proof_case_init: the vector, a different one for every call, is         *)
(* validated; the handle is set only if it is valid.                       *)
case_init(t, valid, fits) ==
    /\ In(t, "idle") /\ validations < MaxValidations
    /\ validations' = validations + 1
    /\ handle' = [handle EXCEPT ![scratch(t)] = IF valid THEN validations' ELSE 0]
    /\ thread' = [thread EXCEPT ![t] =
           [at |-> IF valid THEN "negotiate" ELSE "ended", vector |-> validations', fits |-> fits,
            status |-> IF valid THEN "OK" ELSE "MALFORMED_EVIDENCE"]]
    /\ output' = [output EXCEPT ![t] = 0]
    /\ UNCHANGED <<library_layout, layout, layout_lock, measurements>>

(* _negotiate_layout: the cached layout is read without the lock.          *)
negotiate_cached(t) ==
    /\ In(t, "negotiate")
    /\ To(t, IF layout # "none" THEN "write" ELSE "lock")
    /\ UNCHANGED <<library_layout, layout, layout_lock, measurements, handle, output, validations>>

negotiate_lock(t) ==
    /\ In(t, "lock") /\ layout_lock = Free
    /\ layout_lock' = t
    /\ To(t, "locked")
    /\ UNCHANGED <<library_layout, layout, measurements, handle, output, validations>>

(* Under the lock it is read again, else measured and compared.            *)
case_measure(t) ==
    /\ In(t, "locked")
    /\ layout_lock' = Free
    /\ IF layout # "none"
       THEN To(t, "write") /\ UNCHANGED <<layout, measurements>>
       ELSE IF handle[scratch(t)] = 0
       THEN Raises(t, "release", "STALE_HANDLE") /\ UNCHANGED <<layout, measurements>>
       ELSE IF library_layout # "generated"
       THEN Raises(t, "release", "SCHEMA_MISMATCH") /\ UNCHANGED <<layout, measurements>>
       ELSE /\ layout' = library_layout /\ measurements' = measurements + 1
            /\ To(t, "write")
    /\ UNCHANGED <<library_layout, handle, output, validations>>

case_write(t) ==
    /\ In(t, "write")
    /\ IF handle[scratch(t)] = 0 THEN Raises(t, "release", "STALE_HANDLE") /\ UNCHANGED output
       ELSE IF ~thread[t].fits THEN Raises(t, "release", "BUFFER_TOO_SMALL") /\ UNCHANGED output
       ELSE /\ output' = [output EXCEPT ![t] = handle[scratch(t)]]
            /\ To(t, "release")
    /\ UNCHANGED <<library_layout, layout, layout_lock, measurements, handle, validations>>

(* finally: the handle is released; a failing release is what is raised.   *)
case_release(t) ==
    /\ In(t, "release")
    /\ IF handle[scratch(t)] = 0 THEN Raises(t, "ended", "STALE_HANDLE") ELSE To(t, "ended")
    /\ handle' = [handle EXCEPT ![scratch(t)] = 0]
    /\ UNCHANGED <<library_layout, layout, layout_lock, measurements, output, validations>>

case_returns(t) ==
    /\ In(t, "ended")
    /\ thread' = [thread EXCEPT ![t] = NoCall]
    /\ UNCHANGED <<library_layout, layout, layout_lock, measurements, handle, output, validations>>

CaseNext ==
    \E t \in Thread :
        \/ \E valid, fits \in BOOLEAN : case_init(t, valid, fits)
        \/ negotiate_cached(t) \/ negotiate_lock(t) \/ case_measure(t)
        \/ case_write(t) \/ case_release(t) \/ case_returns(t)

CaseSpec == CaseInit /\ [][CaseNext]_proofcase

-----------------------------------------------------------------------------
(* Properties. *)

(* A call that ends without an error has copied its own vector, under the  *)
(* generated layout, and no call meets a handle that another one released. *)
(* However many threads race for it, the layout is measured with success   *)
(* once, and a call that has ended leaves neither a handle nor the lock.   *)
CaseServed ==
    /\ measurements = (IF layout = "none" THEN 0 ELSE 1)
    /\ \A t \in Thread :
           /\ thread[t].status # "STALE_HANDLE"
           /\ In(t, "ended") =>
                  /\ handle[t] = 0 /\ layout_lock # t
                  /\ thread[t].status = "OK" =>
                         output[t] = thread[t].vector /\ layout = "generated"

=============================================================================
