---------------------------- MODULE EffectLedger ----------------------------
(***************************************************************************)
(* What mediated execution promises: each one-shot token is reserved before *)
(* its effect runs, the effect runs at most once, the token then has at    *)
(* most one outcome, and effects are settled in the order in which they    *)
(* were mediated.  Kernels, crashes and tables are not visible here.       *)
(***************************************************************************)
EXTENDS Naturals, Sequences

CONSTANT Nonce

VARIABLES
    log,    \* the mediated tokens in order, each with its status
    runs    \* how often the adapter was started for a token

Status == {"reserved", "buffered", "committed", "indeterminate"}

(* At most the last entry is open: nothing else is mediated meanwhile.     *)
Open == log # <<>> /\ log[Len(log)].status = "reserved"

Buffered == {i \in DOMAIN log : log[i].status = "buffered"}

Init == log = <<>> /\ runs = [n \in Nonce |-> 0]

Reserve(n) ==
    /\ ~Open
    /\ \A i \in DOMAIN log : log[i].nonce # n
    /\ log' = Append(log, [nonce |-> n, status |-> "reserved"])
    /\ UNCHANGED runs

Execute ==
    /\ Open
    /\ LET n == log[Len(log)].nonce
       IN  runs[n] = 0 /\ runs' = [runs EXCEPT ![n] = 1]
    /\ UNCHANGED log

(* A strict or unknown outcome is recorded only when nothing is buffered.  *)
Record(outcome) ==
    /\ Open
    /\ runs[log[Len(log)].nonce] = 1
    /\ outcome = "buffered" \/ Buffered = {}
    /\ log' = [log EXCEPT ![Len(log)].status = outcome]
    /\ UNCHANGED runs

Flush ==
    /\ Buffered # {}
    /\ log' = [i \in DOMAIN log |->
                  IF i \in Buffered THEN [log[i] EXCEPT !.status = "committed"] ELSE log[i]]
    /\ UNCHANGED runs

Next ==
    \/ \E n \in Nonce : Reserve(n)
    \/ Execute
    \/ \E outcome \in Status \ {"reserved"} : Record(outcome)
    \/ Flush

Spec == Init /\ [][Next]_<<log, runs>>
=============================================================================
