---------------------------- MODULE ClosureExport ----------------------------
(***************************************************************************)
(* The declaration-closure pipeline of the proof package over one Lake     *)
(* workspace: export_declaration_closure and export_declaration_closures   *)
(* with their on-disk cache (lean_declaration_closure.py), and the run of  *)
(* axle_closure_verify.py that takes the closure through resolve, compose, *)
(* the AXLE phases and the bundle.  Drivers are processes; an editor       *)
(* changes the sources under them.  A closure, a digest and a text are     *)
(* the versions of the files they were taken from.                         *)
(***************************************************************************)
EXTENDS Naturals, Sequences, FiniteSets

CONSTANTS Driver, MaxEdits, MaxStarts

VARIABLES
    source,    \* the version of the root module and of a module it imports
    built,     \* the versions the artifacts under .lake/build were built from
    visible,   \* does the import's version show in the root's .olean bytes?
    cache,     \* the cache directory: pairs of a key and a closure
    edits, starts,
    job,       \* what each driver is doing, and (ghost) was there no edit since it started?
    raced,     \* ghost: were artifacts rebuilt between a key and its export?
    bundle     \* the bundle in the output file; none beside a preflight receipt

pipeline == <<source, built, visible, cache, edits, starts, job, raced, bundle>>

NoBundle == << >>
NoJob == [step |-> "idle"]

(* A verification run asks for one closure; a generation for two, either   *)
(* exported together or, when their imports differ, one by one.            *)
Requests(mode) == IF mode = "run" THEN 1 ELSE 2
NewJob(mode) ==
    [step |-> "build", mode |-> mode, request |-> 1, key |-> << >>,
     payload |-> << >>, closure |-> << >>, digests |-> << >>, text |-> << >>, quiet |-> TRUE]

Closure(request, versions) == <<request, versions>>

ExportInit ==
    /\ source = [root |-> 0, import |-> 0] /\ built = source
    /\ visible \in BOOLEAN
    /\ cache = {} /\ edits = 0 /\ starts = 0
    /\ job = [d \in Driver |-> NoJob]
    /\ raced = FALSE /\ bundle = NoBundle

edit(file) ==
    /\ edits < MaxEdits
    /\ edits' = edits + 1
    /\ source' = [source EXCEPT ![file] = 1 - @]
    /\ job' = [d \in Driver |-> IF job[d] = NoJob THEN NoJob ELSE [job[d] EXCEPT !.quiet = FALSE]]
    /\ UNCHANGED <<built, visible, cache, starts, raced, bundle>>

(* The arguments are checked: at least one request, each with a root, and  *)
(* a positive finite budget, from which the deadline is computed.          *)
start_export(d, mode) ==
    /\ job[d].step = "idle" /\ starts < MaxStarts
    /\ starts' = starts + 1
    /\ job' = [job EXCEPT ![d] = NewJob(mode)]
    /\ UNCHANGED <<source, built, visible, cache, edits, raced, bundle>>

At(d, step) == job[d].step = step
Becomes(d, new) == job' = [job EXCEPT ![d] = new]
Moves(d, step) == Becomes(d, [job[d] EXCEPT !.step = step])

(* A driver whose next cache entry would pair artifacts of two moments.    *)
BetweenKeyAndExport(d) == At(d, "export") \/ (~At(d, "idle") /\ job[d].payload # << >>)

(* lake build of the root and the exporter, once for the whole generation. *)
lake_build(d) ==
    /\ At(d, "build")
    /\ built' = source
    /\ raced' = (raced \/ (built # source /\ \E v \in Driver \ {d} : BetweenKeyAndExport(v)))
    /\ Moves(d, "lookup")
    /\ UNCHANGED <<source, visible, cache, edits, starts, bundle>>

olean(versions) == IF visible THEN versions ELSE [versions EXCEPT !.import = 0]

(* Fault: the artifacts are left out of the cache key. *)
cache_key_of_request(request, versions) == <<request, [versions EXCEPT !.root = 0]>>

cache_key(request, versions) == <<request, olean(versions)>>

(* The closure for the request is there: on to the next, or to the rest of *)
(* the run.  Only a run goes on from its closure.                          *)
Obtained(j, closure) ==
    IF j.request < Requests(j.mode)
    THEN [j EXCEPT !.step = "lookup", !.request = @ + 1, !.key = << >>]
    ELSE IF j.mode = "run"
    THEN [j EXCEPT !.step = "resolve", !.closure = closure, !.key = << >>]
    ELSE NoJob

(* The artifacts are hashed into the key and the entry, if any, is read.   *)
read_cache(d) ==
    /\ At(d, "lookup")
    /\ LET key  == cache_key(job[d].request, built)
           hits == {entry \in cache : entry[1] = key}
       IN  IF hits = {}
           THEN Becomes(d, [job[d] EXCEPT !.step = "export", !.key = key])
           ELSE Becomes(d, Obtained(job[d], (CHOOSE entry \in hits : TRUE)[2]))
    /\ UNCHANGED <<source, built, visible, cache, edits, starts, raced, bundle>>

(* The exporter reads the artifacts; a batch is exported for all requests  *)
(* at the first miss and kept.                                             *)
lean_export(d) ==
    /\ At(d, "export")
    /\ LET exported == IF job[d].payload = << >> THEN <<built>> ELSE job[d].payload
       IN  Becomes(d, [job[d] EXCEPT
               !.step = "store",
               !.payload = IF job[d].mode = "batch" THEN exported ELSE << >>,
               !.closure = Closure(job[d].request, exported[1])])
    /\ UNCHANGED <<source, built, visible, cache, edits, starts, raced, bundle>>

(* The closure is parsed and compared with the request (a difference       *)
(* rejects the run), written beside the entry and renamed over it.         *)
write_cache(d) ==
    /\ At(d, "store")
    /\ cache' = {entry \in cache : entry[1] # job[d].key} \cup {<<job[d].key, job[d].closure>>}
    /\ Becomes(d, Obtained(job[d], job[d].closure))
    /\ UNCHANGED <<source, built, visible, edits, starts, raced, bundle>>

(* The environment must be of the closure's Lean version and the paths     *)
(* given must be the owners' (a difference rejects the run); the preflight *)
(* receipt is written over what an earlier run left.                       *)
preflight == bundle' = NoBundle

(* Each owner module must have one source; their digests go into the       *)
(* preflight receipt, which is written out before AXLE is called.          *)
resolve_owner_sources(d) ==
    /\ At(d, "resolve")
    /\ Becomes(d, [job[d] EXCEPT !.step = "compose", !.digests = source])
    /\ preflight
    /\ UNCHANGED <<source, built, visible, cache, edits, starts, raced>>

(* The owner files are read again for the text that AXLE sees.             *)
compose_owner_sources(d) ==
    /\ At(d, "compose")
    /\ Becomes(d, [job[d] EXCEPT !.step = "owner-source-extract", !.text = source])
    /\ UNCHANGED <<source, built, visible, cache, edits, starts, raced, bundle>>

(* An awaited phase completed; started, completed and failed are reported. *)
run_phase(d, phase, next) == At(d, phase) /\ Moves(d, next)

(* The AXLE phases, one await each; theorem roots are stated and proved    *)
(* before the bundle is built, other roots are not.                        *)
axle_phase(d) ==
    /\ \/ run_phase(d, "owner-source-extract", "canonical-roundtrip-extract")
       \/ run_phase(d, "canonical-roundtrip-extract", "root-theorem2sorry")
       \/ run_phase(d, "canonical-roundtrip-extract", "bundle")
       \/ run_phase(d, "root-theorem2sorry", "root-proof-verify")
       \/ run_phase(d, "root-proof-verify", "bundle")
    /\ UNCHANGED <<source, built, visible, cache, edits, starts, raced, bundle>>

write_bundle(d) ==
    /\ At(d, "bundle")
    /\ bundle' = <<[closure |-> job[d].closure, digests |-> job[d].digests,
                    text |-> job[d].text, quiet |-> job[d].quiet]>>
    /\ Becomes(d, NoJob)
    /\ UNCHANGED <<source, built, visible, cache, edits, starts, raced>>

AxlePhase == {"owner-source-extract", "canonical-roundtrip-extract", "root-theorem2sorry", "root-proof-verify"}

(* One deadline for all the AXLE phases cancels the one that is awaited.   *)
closure_deadline_exceeded(d) ==
    /\ job[d].step \in AxlePhase
    /\ Becomes(d, NoJob)
    /\ UNCHANGED <<source, built, visible, cache, edits, starts, raced, bundle>>

(* A failed or late command, an unclean AXLE answer or a mismatch ends the *)
(* call with an error; so does the end of the process.                     *)
reject(d) ==
    /\ ~At(d, "idle")
    /\ Becomes(d, NoJob)
    /\ UNCHANGED <<source, built, visible, cache, edits, starts, raced, bundle>>

ExportNext ==
    \/ \E file \in {"root", "import"} : edit(file)
    \/ \E d \in Driver :
           \/ \E mode \in {"run", "batch", "mixed"} : start_export(d, mode)
           \/ lake_build(d) \/ read_cache(d) \/ lean_export(d) \/ write_cache(d)
           \/ resolve_owner_sources(d) \/ compose_owner_sources(d)
           \/ axle_phase(d) \/ closure_deadline_exceeded(d) \/ write_bundle(d) \/ reject(d)

ExportSpec == ExportInit /\ [][ExportNext]_pipeline

-----------------------------------------------------------------------------
(* Properties. *)

(* As long as every change of a source shows in the root's .olean and no   *)
(* driver rebuilt the artifacts between another one's key and its export,  *)
(* an entry of the cache is the closure of the artifacts its key names,    *)
(* and a run with no edit under it binds its closure, its digests and the  *)
(* text that AXLE verified to one version of the sources.  Neither part    *)
(* survives without its condition: the cache outlives the race, and the    *)
(* key does not name the imported modules.                                 *)
ExportSound ==
    visible /\ ~raced =>
        /\ \A entry \in cache : entry[1] = <<entry[2][1], entry[2][2]>>
        /\ \A b \in {bundle[i] : i \in DOMAIN bundle} :
               b.quiet => b.closure[2] = b.digests /\ b.text = b.digests

=============================================================================
