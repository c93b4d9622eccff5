----------------------------- MODULE StreamSink -----------------------------
(***************************************************************************)
(* The custom stream of a runtime (_runtime_graph_stream.py, runtime.py):  *)
(* every stream installs its own list as the sink in the metadata of the   *)
(* runtime, which all streams of one program share, and its finalizer puts *)
(* back the sink it found.  Streams are generators: their steps interleave *)
(* as their consumers ask for chunks, and a node may run another stream.   *)
(* An exception that ends a generator holds its frame, and so its          *)
(* publisher, until somebody lets go of the exception.                     *)
(***************************************************************************)
EXTENDS Naturals, Sequences

CONSTANTS Stream, MaxValues

NoSink == "none"

ASSUME StreamAssumption == NoSink \notin Stream

VARIABLES
    sink,      \* metadata[_CUSTOM_STREAM_KEY]: the stream whose list it is
    previous,  \* the sink a stream found and will restore
    phase,     \* see Phases
    values,    \* custom_values of each stream
    start,     \* their number when the last node started
    upcoming,  \* position of the value that is yielded next
    until,     \* and of the last one of the slice being yielded
    emitted,   \* the custom chunks each stream has yielded
    sent,      \* ghost: what the nodes of each stream emitted
    nesting,   \* ghost: the streams not yet finalized, outermost first, while they nest
    unnested   \* ghost: has a stream emitted or been finalized while not innermost?

streams == <<sink, previous, phase, values, start, upcoming, until, emitted, sent, nesting, unnested>>

(* Between nodes, in the action of one, after it, while its values are     *)
(* yielded, after an exception; and before the first and after the last    *)
(* step of the generator.                                                  *)
Live == {"open", "node", "finished", "yielding", "failed"}
Phases == Live \cup {"new", "closed"}

SinkInit ==
    /\ sink = NoSink
    /\ previous = [s \in Stream |-> NoSink]
    /\ phase = [s \in Stream |-> "new"]
    /\ values = [s \in Stream |-> <<>>] /\ start = [s \in Stream |-> 0]
    /\ upcoming = [s \in Stream |-> 1] /\ until = [s \in Stream |-> 0]
    /\ emitted = [s \in Stream |-> <<>>] /\ sent = [s \in Stream |-> <<>>]
    /\ nesting = <<>> /\ unnested = FALSE

Goes(s, new) == phase' = [phase EXCEPT ![s] = new]
Innermost(s) == nesting # <<>> /\ nesting[Len(nesting)] = s

install_custom_sink(s) ==
    /\ phase[s] = "new" /\ Goes(s, "open")
    /\ previous' = [previous EXCEPT ![s] = sink]
    /\ sink' = s
    /\ nesting' = Append(nesting, s)
    /\ UNCHANGED <<values, start, upcoming, until, emitted, sent, unnested>>

start_stream_node(s) ==
    /\ phase[s] = "open" /\ Goes(s, "node")
    /\ start' = [start EXCEPT ![s] = Len(values[s])]
    /\ UNCHANGED <<sink, previous, values, upcoming, until, emitted, sent, nesting, unnested>>

(* An action of a node of s calls emit_custom on the runtime; without a    *)
(* sink the value is only returned.                                        *)
emit_custom(s) ==
    /\ phase[s] = "node" /\ Len(sent[s]) < MaxValues
    /\ LET value == <<s, Len(sent[s]) + 1>>
       IN  /\ values' = IF sink = NoSink THEN values
                        ELSE [values EXCEPT ![sink] = Append(@, value)]
           /\ sent' = [sent EXCEPT ![s] = Append(@, value)]
    /\ unnested' = (unnested \/ ~Innermost(s))
    /\ UNCHANGED <<sink, previous, phase, start, upcoming, until, emitted, nesting>>

(* The action returns; the events of the node are yielded before its       *)
(* values, so that the generator may be suspended here.                    *)
finish_stream_node(s) ==
    /\ phase[s] = "node" /\ Goes(s, "finished")
    /\ UNCHANGED <<sink, previous, values, start, upcoming, until, emitted, sent, nesting, unnested>>

(* Fault: every node yields the whole list again. *)
node_outputs_from_zero(s) ==
    /\ phase[s] = "finished" /\ Goes(s, "yielding")
    /\ upcoming' = [upcoming EXCEPT ![s] = 1] /\ until' = [until EXCEPT ![s] = Len(values[s])]
    /\ UNCHANGED <<sink, previous, values, start, emitted, sent, nesting, unnested>>

(* node_outputs yields what the list gained since the node started, before *)
(* the checkpoint, the update, the values and the messages of the node.    *)
node_outputs(s) ==
    /\ phase[s] = "finished" /\ Goes(s, "yielding")
    /\ upcoming' = [upcoming EXCEPT ![s] = start[s] + 1] /\ until' = [until EXCEPT ![s] = Len(values[s])]
    /\ UNCHANGED <<sink, previous, values, start, emitted, sent, nesting, unnested>>

custom(s) ==
    /\ phase[s] = "yielding"
    /\ IF upcoming[s] > until[s]
       THEN Goes(s, "open") /\ UNCHANGED <<upcoming, emitted>>
       ELSE /\ emitted' = [emitted EXCEPT ![s] = Append(@, values[s][upcoming[s]])]
            /\ upcoming' = [upcoming EXCEPT ![s] = @ + 1] /\ UNCHANGED phase
    /\ UNCHANGED <<sink, previous, values, start, until, sent, nesting, unnested>>

(* A node that raises or interrupts, a step beyond the limit, a router, a  *)
(* reducer or a checkpoint store that fails: the exception leaves through  *)
(* the generator, and what the node emitted is not yielded.                *)
stream_raises(s) ==
    /\ phase[s] \in {"open", "node", "finished", "yielding"} /\ Goes(s, "failed")
    /\ UNCHANGED <<sink, previous, values, start, upcoming, until, emitted, sent, nesting, unnested>>

(* __del__, when a suspended or exhausted generator is dropped, or the     *)
(* exception that ended it.                                                *)
restore_sink(s) ==
    /\ phase[s] \in Live \ {"node"} /\ Goes(s, "closed")
    /\ sink' = previous[s]
    /\ unnested' = (unnested \/ ~Innermost(s))
    /\ nesting' = IF Innermost(s) THEN SubSeq(nesting, 1, Len(nesting) - 1) ELSE nesting
    /\ UNCHANGED <<previous, values, start, upcoming, until, emitted, sent>>

SinkNext ==
    \E s \in Stream :
        \/ install_custom_sink(s) \/ start_stream_node(s) \/ emit_custom(s) \/ finish_stream_node(s)
        \/ node_outputs(s) \/ custom(s) \/ stream_raises(s) \/ restore_sink(s)

SinkSpec == SinkInit /\ [][SinkNext]_streams

-----------------------------------------------------------------------------
(* Properties. *)

(* As long as every stream is finalized before the one around it emits     *)
(* again or is finalized, each yields what its own nodes emitted, once and *)
(* in order, and between two nodes it has yielded all of it: an exception  *)
(* or a consumer that stops early costs the values of the last node and no *)
(* others.  When no publisher is left the runtime has no sink.             *)
(* A stream whose exception is kept is not finalized: what the outer one   *)
(* then emits goes to its dead list, as it does when streams take turns;   *)
(* nothing in the code keeps them apart.                                   *)
StreamsApart ==
    ~unnested =>
        /\ \A s \in Stream :
               /\ Len(emitted[s]) <= Len(sent[s])
               /\ \A i \in 1..Len(emitted[s]) : emitted[s][i] = sent[s][i]
               /\ start[s] <= Len(emitted[s])
               /\ phase[s] = "open" => Len(emitted[s]) = Len(sent[s])
        /\ (\A s \in Stream : phase[s] \notin Live) => sink = NoSink

=============================================================================
