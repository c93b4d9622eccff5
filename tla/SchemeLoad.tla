----------------------------- MODULE SchemeLoad -----------------------------
(***************************************************************************)
(* load, precompile_load and preproject_load (_scheme_load.py): the rows   *)
(* of a Scheme fragment come from the warm cache of the process, from a    *)
(* projection artifact beside the fragment, from an AOT runner, or from a  *)
(* Gerbil run.  The fragment and the projection source are included as     *)
(* text; the library modules they import are the compiled ones.  The cache *)
(* key lists some of these modules by their source files and not others,   *)
(* such as modules/funflow/profile-library.ss, which the runner imports.   *)
(* Loaders are threads of one process; somebody edits the files and        *)
(* rebuilds.  Rows are the contents of the inputs they were made from.     *)
(***************************************************************************)
EXTENDS Naturals, Sequences, FiniteSets

CONSTANTS Loader, MaxTouches, MaxCalls

VARIABLES
    stamp,      \* modification time of each file
    content,    \* contents of each file; a file may be changed back
    compiled,   \* contents of the library modules when they were last built
    found,      \* is the projection source there, or was only the artifact shipped?
    touches,    \* edits and builds so far
    warm,       \* _SCHEME_LOAD_CACHE: rows by key
    artifact,   \* the adjacent artifact: none, partly written, or digests and rows
    runners,    \* AOT binaries: included texts by key
    loader,     \* what each thread is doing
    calls,
    orderly,    \* ghost: see LoadFresh
    undisturbed,\* ghost: loaders under which nothing was edited, built or shipped
    last        \* ghost: the rows last returned, if nothing changed since the call

loading == <<stamp, content, compiled, found, touches, warm, artifact, runners, loader, calls,
             orderly, undisturbed, last>>

(* The library modules whose files the key lists, and the others.          *)
Modules == {"library", "unlisted"}
Files == {"fragment", "projection"} \cup Modules
Listed == Files \ {"unlisted"}
Nothing == << >>
Partly == <<"partly written">>
Waiting == [at |-> "idle"]

LoadInit ==
    /\ stamp = [f \in Files |-> 0] /\ content = [f \in Files |-> 0]
    /\ compiled = [m \in Modules |-> 0]
    /\ found = TRUE /\ touches = 0 /\ calls = 0
    /\ warm = {} /\ artifact = Nothing /\ runners = {}
    /\ loader = [l \in Loader |-> Waiting]
    /\ orderly = TRUE /\ undisturbed = {} /\ last = Nothing

FileState == <<stamp, content, compiled, found, touches>>
Caches == <<warm, artifact, runners>>

Touch == touches < MaxTouches /\ touches' = touches + 1 /\ undisturbed' = {} /\ last' = Nothing

EditFile(f) ==
    /\ Touch
    /\ stamp' = [stamp EXCEPT ![f] = touches']
    /\ content' = [content EXCEPT ![f] = 1 - @]
    /\ UNCHANGED <<compiled, found, Caches, loader, calls, orderly>>

BuildLibrary ==
    /\ Touch
    /\ compiled' = [m \in Modules |-> content[m]]
    /\ UNCHANGED <<stamp, content, found, Caches, loader, calls, orderly>>

(* The fragment is used with its artifact, away from the Scheme sources.   *)
Ship ==
    /\ found /\ Touch
    /\ found' = FALSE
    /\ UNCHANGED <<stamp, content, compiled, Caches, loader, calls, orderly>>

(* Fault: the key names the fragment and nothing else the rows are made of. *)
scheme_load_cache_key_of_fragment == [f \in Listed |-> stamp["fragment"]]

(* A fingerprint of a file is its time and size, a digest its contents.    *)
scheme_load_cache_key == [f \in Listed |-> stamp[f]]
artifact_fingerprints == <<content["fragment"], content["projection"]>>
included == [fragment |-> content["fragment"], projection |-> content["projection"]]

Found(set, key) == \E entry \in set : entry[1] = key
Entry(set, key) == (CHOOSE entry \in set : entry[1] = key)[2]
Put(set, key, value) == {entry \in set : entry[1] # key} \cup {<<key, value>>}

Goes(l, new) == loader' = [loader EXCEPT ![l] = new]
Steps(l, step) == Goes(l, [loader[l] EXCEPT !.at = step])
Ends(l) == Goes(l, Waiting) /\ undisturbed' = undisturbed \ {l}
Returns(l, rows) == Ends(l) /\ last' = IF l \in undisturbed THEN <<rows>> ELSE Nothing

(* The rows of an artifact whose digests match.  The library modules have  *)
(* no digest in it; without a projection source only the fragment's counts.*)
read_artifact_rows ==
    IF /\ artifact \notin {Nothing, Partly}
       /\ artifact.digests[1] = artifact_fingerprints[1]
       /\ found => artifact.digests = artifact_fingerprints
    THEN artifact.rows ELSE Nothing

(* load_projection_rows: without a projection source only the artifact is  *)
(* tried; else the key is taken and the warm cache asked.                  *)
load_projection_rows(l, cached) ==
    /\ loader[l].at = "idle" /\ calls < MaxCalls
    /\ calls' = calls + 1
    /\ IF found
       THEN /\ Goes(l, [at |-> "warm", key |-> scheme_load_cache_key, cached |-> cached,
                        writes |-> FALSE, rows |-> Nothing])
            /\ undisturbed' = undisturbed \cup {l} /\ UNCHANGED last
       ELSE /\ last' = IF read_artifact_rows = Nothing THEN Nothing ELSE <<read_artifact_rows>>
            /\ UNCHANGED <<loader, undisturbed>>
    /\ UNCHANGED <<FileState, Caches, orderly>>

(* preproject_load: a matching artifact is kept unless it is forced; else  *)
(* the rows are loaded past the warm cache and the artifact.               *)
preproject_load(l, force) ==
    /\ loader[l].at = "idle" /\ calls < MaxCalls /\ found
    /\ force \/ read_artifact_rows = Nothing
    /\ calls' = calls + 1
    /\ undisturbed' = undisturbed \cup {l}
    /\ Goes(l, [at |-> "aot", key |-> scheme_load_cache_key, cached |-> FALSE,
                writes |-> TRUE, rows |-> Nothing])
    /\ UNCHANGED <<FileState, Caches, orderly, last>>

(* precompile_load, and load with compile_aot: the runner is compiled for  *)
(* the key from the texts as they are by then.                             *)
build_aot_projection(l) ==
    /\ loader[l].at = "aot" /\ found
    /\ runners' = Put(runners, loader[l].key, included)
    /\ UNCHANGED <<FileState, warm, artifact, loader, calls, orderly, undisturbed, last>>

FromCache(rows) == [rows EXCEPT !.made = IF @ = "now" THEN "earlier" ELSE @]

get_cached_projection_rows(l) ==
    /\ loader[l].at = "warm"
    /\ IF loader[l].cached /\ Found(warm, loader[l].key)
       THEN Returns(l, FromCache(Entry(warm, loader[l].key)))
       ELSE Steps(l, "artifact") /\ UNCHANGED <<undisturbed, last>>
    /\ UNCHANGED <<FileState, Caches, calls, orderly>>

(* Artifacts may be switched off.                                          *)
load_projection_artifact(l) ==
    /\ loader[l].at = "artifact" /\ found
    /\ \/ /\ read_artifact_rows # Nothing
          /\ Goes(l, [loader[l] EXCEPT !.at = "store", !.rows = read_artifact_rows])
       \/ Steps(l, "aot")
    /\ UNCHANGED <<FileState, Caches, calls, orderly, undisturbed, last>>

(* Rows tell whether they were made in this call, in an earlier one of the *)
(* process, or before, by whoever wrote the artifact.                      *)
Made(texts) ==
    [fragment |-> texts.fragment, projection |-> texts.projection,
     library |-> compiled["library"], unlisted |-> compiled["unlisted"], made |-> "now"]
Obtains(l, rows) ==
    /\ Goes(l, [loader[l] EXCEPT !.at = IF loader[l].writes THEN "digest" ELSE "store", !.rows = rows])
    /\ orderly' = (orderly /\ compiled["library"] = content["library"])

(* The runner found under the key, if there is one and AOT is on; it loads *)
(* the compiled library when it runs.                                      *)
run_aot_projection(l) ==
    /\ loader[l].at = "aot"
    /\ \/ /\ Found(runners, loader[l].key)
          /\ Obtains(l, Made(Entry(runners, loader[l].key)))
       \/ Steps(l, "run") /\ UNCHANGED orderly
    /\ UNCHANGED <<FileState, Caches, calls, undisturbed, last>>

(* Gerbil includes the texts as they are now.                              *)
run_scheme_projection(l) ==
    /\ loader[l].at = "run" /\ found
    /\ Obtains(l, Made(included))
    /\ UNCHANGED <<FileState, Caches, calls, undisturbed, last>>

store_cached_projection_rows(l) ==
    /\ loader[l].at = "store"
    /\ warm' = IF loader[l].cached THEN Put(warm, loader[l].key, loader[l].rows) ELSE warm
    /\ Returns(l, loader[l].rows)
    /\ UNCHANGED <<FileState, artifact, runners, calls, orderly>>

(* write_projection_artifact: the digests are taken after the rows were    *)
(* made; the file is emptied and then written.                             *)
write_projection_artifact(l) ==
    /\ \/ /\ loader[l].at = "digest" /\ found
          /\ Goes(l, [loader[l] EXCEPT !.at = "write", !.key = artifact_fingerprints])
          /\ artifact' = Partly
          /\ orderly' = (orderly /\ l \in undisturbed) /\ UNCHANGED undisturbed
       \/ /\ loader[l].at = "write"
          /\ Ends(l)
          /\ artifact' = [digests |-> loader[l].key, rows |-> [loader[l].rows EXCEPT !.made = "before"]]
          /\ UNCHANGED orderly
    /\ UNCHANGED <<FileState, warm, runners, calls, last>>

(* A missing source, a failed command or unreadable output ends the call.  *)
load_raises(l) ==
    /\ loader[l].at \in {"artifact", "aot", "run", "digest", "write"}
    /\ Ends(l)
    /\ UNCHANGED <<FileState, Caches, calls, orderly, last>>

clear_load_cache ==
    /\ warm # {} /\ warm' = {}
    /\ UNCHANGED <<FileState, artifact, runners, loader, calls, orderly, undisturbed, last>>

LoadNext ==
    \/ \E f \in Files : EditFile(f)
    \/ BuildLibrary \/ Ship \/ clear_load_cache
    \/ \E l \in Loader :
           \/ \E option \in BOOLEAN : load_projection_rows(l, option) \/ preproject_load(l, option)
           \/ build_aot_projection(l) \/ get_cached_projection_rows(l) \/ load_projection_artifact(l)
           \/ run_aot_projection(l) \/ run_scheme_projection(l)
           \/ store_cached_projection_rows(l) \/ write_projection_artifact(l) \/ load_raises(l)

LoadSpec == LoadInit /\ [][LoadNext]_loading

-----------------------------------------------------------------------------
(* Properties. *)

(* A load under which nothing changed returns rows of the fragment as it   *)
(* is, of the projection source as it is when it is there, and of the      *)
(* compiled library as far as its source may know: rows that the call      *)
(* makes are of all of it, rows of the warm cache of the modules that the  *)
(* key lists, and those of an artifact, which has no digest of the         *)
(* library, of none.  An edit and build of a module that is not listed     *)
(* leaves the key as it is, and the warm cache serves the old rows.  What  *)
(* is kept is only right as long as nobody makes rows between an edit of a *)
(* listed module and its build, which the key takes for up to date, or     *)
(* edits a source under a preprojection, whose artifact gets the digests   *)
(* of the new text and the rows of the old.                                *)
LoadFresh ==
    last # Nothing =>
        LET rows == last[1]
        IN  /\ orderly =>
                   /\ rows.fragment = content["fragment"]
                   /\ found => rows.projection = content["projection"]
                   /\ rows.made # "before" => rows.library = compiled["library"]
            /\ rows.made = "now" =>
                   rows.library = compiled["library"] /\ rows.unlisted = compiled["unlisted"]

=============================================================================
