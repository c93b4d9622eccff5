---------------------------- MODULE ExactClosure ----------------------------
(***************************************************************************)
(* From a Lean declaration closure to an independent bundle: the admission *)
(* of the closure and the order of its owner modules                       *)
(* (lean_declaration_closure.py), the collapse to source declarations and  *)
(* their order (axle_exact_closure.py), and the projection and admission   *)
(* of the bundle (independent_bundle_projection.py, independent_bundle.py).*)
(* Names are numbers in their sorted order, so that a name comes after     *)
(* those it begins with.  AXLE gives documents for source declarations; a  *)
(* generated name, such as a.rec, is covered by the document of a name it  *)
(* begins with, or stands for the declaration whose source range it has.   *)
(* Sets of strings are iterated in any order, so pending is popped in any. *)
(***************************************************************************)
EXTENDS Naturals, Sequences, SequencesExt

CONSTANT MaxName

ASSUME MaxNameAssumption == MaxName \in Nat

Name == 1..MaxName
NoDocument == 0

VARIABLES
    within,     \* the names that each name is or, up to a dot, begins with
    depends,    \* the names each name depends on, as AXLE sees it
    syntactic,  \* the pairs that AXLE reports and the exporter does not
    documents,  \* the names that AXLE extracts documents for
    alias,      \* what source_name makes of each name
    normal,     \* what _normalized_source_declaration_name makes of it
    owner,      \* the module that owns each declaration
    external,   \* modules of another package than the root module's
    closure,    \* closure.declarations, in the order Lean exported them
    base,       \* proof_base_interface, in order: names AXLE sees as axioms
    imported,   \* are there proof_base_imports?
    roots,      \* root_declarations
    stage,      \* the phase, or the verdict that ended it
    owners,     \* the waves of owner_modules_in_dependency_order so far
    selected, pending,            \* of source_declaration_closure
    visiting, visited, ordered    \* of _topological_order

closure_inputs == <<within, depends, syntactic, documents, alias, normal, owner, external,
                    closure, base, imported, roots>>
closing == <<closure_inputs, stage, owners, selected, pending, visiting, visited, ordered>>

Owned == ToSet(closure)
BaseNames == ToSet(base)
Longest(names) == CHOOSE n \in names : \A m \in names : m <= n

(* The names that a name begins with begin with one another.               *)
Dotted ==
    \A n \in Name : n \in within[n] /\ \A m \in within[n] : within[m] = {k \in within[n] : k <= m}

(* _source_declaration_aliases: constants of one source range of a module  *)
(* have one of them as their anchor.  Other names have that of the longest *)
(* constant they begin with; or, as generated instances, some anchor.  One *)
(* rule, for internal names, is the normalization's alone.                 *)
Anchors == {alias[n] : n \in Owned}
Aliased ==
    /\ \A n \in Owned : alias[n] \in Owned /\ alias[alias[n]] = alias[n] /\ owner[alias[n]] = owner[n]
    /\ \A n \in Name \ Owned :
           IF within[n] \cap Owned # {} THEN alias[n] = alias[Longest(within[n] \cap Owned)]
                                        ELSE alias[n] \in {n} \cup Anchors
Normalized ==
    \A n \in Name : \/ normal[n] = alias[n]
                    \/ alias[n] = n /\ within[n] \cap Owned = {} /\ normal[n] \in Anchors

(* The names of some of a set, in any order and without repeats.           *)
Orders(set) ==
    {s \in UNION {[1..k -> set] : k \in 0..MaxName} : \A i, j \in DOMAIN s : s[i] = s[j] => i = j}

CloseInit ==
    /\ within \in [Name -> SUBSET Name] /\ Dotted
    /\ depends \in [Name -> SUBSET Name]
    /\ syntactic \in SUBSET (Name \X Name)
    /\ documents \in SUBSET Name
    /\ owner \in [Name -> Name] /\ external \in SUBSET Name
    /\ closure \in Orders(Name) \ {<< >>}
    /\ alias \in [Name -> Name] /\ Aliased
    /\ normal \in [Name -> Name] /\ Normalized
    /\ base \in Orders(Name \ Owned) /\ imported \in BOOLEAN
    /\ roots \in (SUBSET Name) \ {{}}
    /\ stage = "admit"
    /\ owners = << >> /\ selected = {} /\ pending = {}
    /\ visiting = << >> /\ visited = {} /\ ordered = << >>

inputs_kept == UNCHANGED closure_inputs
Result(verdict) == stage' = verdict

(* The members of a sequence before its position i.                        *)
Earlier(names, i) == {names[j] : j \in 1..(i - 1)}

(* The dependencies the exporter lists.                                    *)
local_dependencies(n) == {e \in (depends[n] \cap Owned) \ {n} : <<n, e>> \notin syntactic}

(* LeanDeclarationClosure.__post_init__: no repeats, dependencies first,   *)
(* the roots inside.                                                       *)
admit_closure ==
    /\ stage = "admit"
    /\ Result(IF \E i \in DOMAIN closure :
                     ~(local_dependencies(closure[i]) \subseteq Earlier(closure, i))
              THEN "non-topological-declaration"
              ELSE IF roots \subseteq Owned THEN "owners" ELSE "root-outside-closure")
    /\ inputs_kept
    /\ UNCHANGED <<owners, selected, pending, visiting, visited, ordered>>

OwnerModules == {owner[n] : n \in Owned}
owner_dependencies(m) ==
    {owner[e] : e \in UNION {local_dependencies(n) : n \in {k \in Owned : owner[k] = m}}} \ {m}

(* One wave: every module whose dependencies are emitted; the modules of a *)
(* wave come in name order.                                                *)
emit_ready_owners ==
    /\ stage = "owners"
    /\ LET emitted == UNION ToSet(owners)
           ready == {m \in OwnerModules \ emitted : owner_dependencies(m) \subseteq emitted}
       IN  IF emitted = OwnerModules
           THEN Result("select") /\ UNCHANGED owners
           ELSE /\ Result(IF ready = {} THEN "owner-module-cycle" ELSE "owners")
                /\ owners' = Append(owners, ready)
    /\ inputs_kept
    /\ UNCHANGED <<selected, pending, visiting, visited, ordered>>

(* _covering_document: the longest of the names that one begins with.      *)
covering_document(name, names) ==
    IF within[name] \cap names = {} THEN NoDocument ELSE Longest(within[name] \cap names)

(* The documents of the constants of the closure, its roots among them,    *)
(* and those of the dependencies of each document.                         *)
covered(n) == covering_document(alias[n], documents)
Chosen == {covered(n) : n \in Owned}
links == [d \in Name |-> {covered(e) : e \in depends[d]}]

(* Owner modules of other packages are refused, and so is a constant of    *)
(* the closure that no document covers.                                    *)
select_documents ==
    /\ stage = "select"
    /\ IF OwnerModules \cap external # {} \/ NoDocument \in Chosen
       THEN /\ Result(IF OwnerModules \cap external # {} THEN "external-proof-base-required"
                      ELSE "lean-constant-without-source-declaration")
            /\ UNCHANGED <<selected, pending>>
       ELSE selected' = Chosen /\ pending' = Chosen /\ Result("expand")
    /\ inputs_kept
    /\ UNCHANGED <<owners, visiting, visited, ordered>>

(* A dependency on a name that no document covers rejects the closure.     *)
expand_pending ==
    /\ stage = "expand"
    /\ \E n \in pending :
           IF NoDocument \in links[n]
           THEN /\ Result("local-dependency-without-source-declaration")
                /\ UNCHANGED <<selected, pending>>
           ELSE /\ selected' = selected \cup links[n]
                /\ pending' = (pending \ {n}) \cup (links[n] \ selected)
                /\ Result(IF pending' = {} THEN "order" ELSE "expand")
    /\ inputs_kept
    /\ UNCHANGED <<owners, visiting, visited, ordered>>

source_dependencies(n) == (links[n] \cap selected) \ {n}
Least(set) == CHOOSE n \in set : \A m \in set : n <= m

(* _topological_order: visit descends into the least dependency not yet    *)
(* visited; one that is being visited closes a cycle.                      *)
visit ==
    /\ stage = "order"
    /\ IF visiting = << >>
       THEN IF visited = selected
            THEN Result("roundtrip") /\ UNCHANGED <<visiting, visited, ordered>>
            ELSE /\ visiting' = <<Least(selected \ visited)>>
                 /\ UNCHANGED <<stage, visited, ordered>>
       ELSE LET n == visiting[Len(visiting)]
                open == source_dependencies(n) \ visited
            IN  IF open = {}
                THEN /\ visiting' = Front(visiting)
                     /\ visited' = visited \cup {n} /\ ordered' = Append(ordered, n)
                     /\ UNCHANGED stage
                ELSE IF Least(open) \in ToSet(visiting)
                THEN /\ Result("source-declaration-cycle")
                     /\ UNCHANGED <<visiting, visited, ordered>>
                ELSE /\ visiting' = Append(visiting, Least(open))
                     /\ UNCHANGED <<stage, visited, ordered>>
    /\ inputs_kept
    /\ UNCHANGED <<owners, selected, pending>>

(* Fault: the proof-base names stay among the source declarations. *)
source_names_all == ToSet(ordered)

(* The proof-base names leave the source declarations, which keep their    *)
(* order.                                                                  *)
source_names == ToSet(ordered) \ BaseNames

(* Each root has a document of its own among them; and extracting the      *)
(* source again gives them back, whatever was or was not selected.         *)
canonical_root(r) == covering_document(r, source_names)

round_trip ==
    /\ stage = "roundtrip"
    /\ Result(IF \E r \in roots : canonical_root(r) = NoDocument THEN "root-without-source-declaration"
              ELSE IF {normal[d] : d \in documents} \ BaseNames # source_names
              THEN "exact-roundtrip-mismatch" ELSE "project")
    /\ inputs_kept
    /\ UNCHANGED <<owners, selected, pending, visiting, visited, ordered>>

(* The projection takes an exact declaration for the closure's own when it *)
(* normalizes to an anchor; the others are of the proof base.              *)
exact_names == source_names \cup (BaseNames \cap documents)
owned_exact == {d \in exact_names : normal[d] \in Anchors}

(* _owner_source and DeclarationIdentity: one module owns the constants    *)
(* that are the declaration or begin with it, and it does not name itself. *)
owner_modules(d) == {owner[n] : n \in {k \in Owned : d \in within[k]}}
refusal(d) ==
    IF owner_modules(d) = {} THEN "source-declaration-owner-missing"
    ELSE IF \E m, k \in owner_modules(d) : m # k THEN "source-declaration-owner-ambiguous"
    ELSE IF d \in depends[d] THEN "self-dependency" ELSE "none"

(* In the bundle the proof base comes first, with its dependencies on      *)
(* itself, and the source declarations follow.                             *)
base_dependencies(n) == IF n \in documents THEN (depends[n] \cap documents \cap BaseNames) \ {n} ELSE {}
bundle_dependencies(n) == {normal[e] : e \in depends[n] \cap documents} \ {n}

(* IndependentDeclarationBundle.__post_init__: an interface exactly when   *)
(* it is imported, no overlap, no repeats, the roots inside and different, *)
(* dependencies first.                                                     *)
bundle_admitted ==
    /\ imported = (base # << >>)
    /\ owned_exact \cap BaseNames = {}
    /\ \A r, q \in roots : canonical_root(r) \in source_names /\ (canonical_root(r) = canonical_root(q) => r = q)
    /\ \A i, j \in DOMAIN ordered : ordered[i] = ordered[j] => i = j
    /\ \A i \in DOMAIN base : base_dependencies(base[i]) \subseteq Earlier(base, i)
    /\ \A i \in DOMAIN ordered : ordered[i] \in source_names =>
           bundle_dependencies(ordered[i]) \subseteq
               BaseNames \cup (Earlier(ordered, i) \cap source_names)

(* A declaration that is of neither rejects the projection, and then the   *)
(* first that is refused, which may be any here.                           *)
build_bundle ==
    /\ stage = "project"
    /\ IF exact_names # owned_exact \cup (BaseNames \cap documents)
       THEN Result("unclassified-exact-declaration")
       ELSE IF \E d \in owned_exact : refusal(d) # "none"
       THEN \E d \in owned_exact : refusal(d) # "none" /\ Result(refusal(d))
       ELSE Result(IF bundle_admitted THEN "accepted" ELSE "bundle-validation-error")
    /\ inputs_kept
    /\ UNCHANGED <<owners, selected, pending, visiting, visited, ordered>>

(* A source that cannot be composed, an AXLE phase or a manifest that      *)
(* fails, or a proof that AXLE does not verify.                            *)
phase_fails ==
    /\ stage \in {"select", "roundtrip", "project"}
    /\ Result("failed")
    /\ inputs_kept
    /\ UNCHANGED <<owners, selected, pending, visiting, visited, ordered>>

CloseNext ==
    \/ admit_closure \/ emit_ready_owners \/ select_documents
    \/ expand_pending \/ visit \/ round_trip \/ build_bundle \/ phase_fails

CloseSpec == CloseInit /\ [][CloseNext]_closing

-----------------------------------------------------------------------------
(* Properties. *)

(* Every part has a member that leads to no other member of it.            *)
Acyclic(nodes, next) ==
    \A some \in (SUBSET nodes) \ {{}} : \E n \in some : next[n] \cap some \subseteq {n}

(* The documents of the closure and every document they lead to.           *)
Saturated(set) == Chosen \cap documents \subseteq set /\ \A d \in set : links[d] \cap documents \subseteq set
Needed == {d \in documents : \A set \in SUBSET documents : Saturated(set) => d \in set}
Sources == Needed \ BaseNames

(* What may be bundled: a closure in dependency order, its roots inside,   *)
(* whose owner modules are local and do not need each other;               *)
Wellformed ==
    /\ \A i, j \in DOMAIN closure : closure[j] \in local_dependencies(closure[i]) => j < i
    /\ roots \subseteq Owned
    /\ Acyclic(OwnerModules, [m \in OwnerModules |-> owner_dependencies(m)])
    /\ OwnerModules \cap external = {}

(* every constant and every dependency covered, without a cycle; nothing   *)
(* else extracted, each source declaration an anchor of the closure and    *)
(* nothing of the proof base one; each owned by one module and not naming  *)
(* itself;                                                                 *)
Sourced ==
    /\ NoDocument \notin Chosen /\ \A d \in Needed : NoDocument \notin links[d]
    /\ Acyclic(Needed, links)
    /\ {normal[d] : d \in documents} \ BaseNames = Sources
    /\ Sources \subseteq Anchors /\ \A d \in BaseNames \cap documents : normal[d] \notin Anchors
    /\ \A d \in Sources : d \notin depends[d] /\ \A n, k \in Owned : d \in within[n] \cap within[k] => owner[n] = owner[k]

(* roots that begin with different source declarations, and a proof base   *)
(* in order that is there when it is imported.                             *)
Rooted ==
    /\ \A r \in roots : within[r] \cap Sources # {}
    /\ \A r, q \in roots : Longest(within[r] \cap Sources) = Longest(within[q] \cap Sources) => r = q
Based ==
    /\ imported = (base # << >>)
    /\ \A i, j \in DOMAIN base :
           base[i] \in documents /\ base[j] \in depends[base[i]] \cap documents => j <= i

Bundleable == Wellformed /\ Sourced /\ Rooted /\ Based

(* Whatever the order in which sets are iterated, and unless a file or an  *)
(* AXLE phase fails, a closure becomes a bundle exactly when it may: no    *)
(* run refuses one it should accept, none accepts one it should refuse,    *)
(* the bundle has the documents that are needed and no others, and the     *)
(* accepted orders have every dependency, of declarations and of owner     *)
(* modules, before its dependents.                                         *)
ClosureExact ==
    /\ stage = "accepted" =>
           /\ Bundleable
           /\ source_names = Sources
           /\ UNION ToSet(owners) = OwnerModules
           /\ \A i, j \in DOMAIN owners, m \in OwnerModules :
                  m \in owners[i] /\ owner_dependencies(m) \cap owners[j] # {} => j < i
           /\ \A i, j \in DOMAIN ordered : ordered[j] \in links[ordered[i]] => j <= i
    /\ stage \notin {"admit", "owners", "select", "expand", "order", "roundtrip", "project", "accepted", "failed"}
           => ~Bundleable

=============================================================================
