--------------------------- MODULE MCGraphRuntime ---------------------------
(* What a program of the Python runtime does with its graph: one run of    *)
(* the executor, the custom streams of two runs, or an ordered map of up   *)
(* to three inputs (abatch), by up to two workers or one task each.  part  *)
(* says which of them a behaviour is about; the others stay as they are.   *)
EXTENDS MCGraphExecutor, StreamSink, OrderedMap

VARIABLE part

runtime == <<part, vars, streams, mapping>>

RuntimeInit ==
    /\ part \in {"graph", "streams", "map"}
    /\ part # "map" => inputs = 0 /\ limit = 0 /\ blocking = TRUE
    /\ Init /\ SinkInit /\ MapInit

RuntimeNext ==
    /\ \/ part = "graph" /\ Next /\ UNCHANGED <<streams, mapping>>
       \/ part = "streams" /\ SinkNext /\ UNCHANGED <<vars, mapping>>
       \/ part = "map" /\ MapNext /\ UNCHANGED <<vars, streams>>
    /\ UNCHANGED part

RuntimeSpec ==
    /\ RuntimeInit /\ [][RuntimeNext]_runtime
    /\ part = "graph" => WF_vars(Run)
    /\ part = "map" => MapFair

(* Every map ends, with its results or with the failure: no task waits for *)
(* another for ever.                                                       *)
MapEnds == part = "map" ~> outcome # "running"

(* Whatever is called comes back.                                          *)
CallsReturn == Terminates /\ MapEnds
=============================================================================
