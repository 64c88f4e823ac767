----------------------------- MODULE PluginOrder -----------------------------
(***************************************************************************)
(* The dependency sort of yang-base's plugins: Kahn's algorithm with a     *)
(* stack, run over HashMaps whose iteration order is arbitrary.  It exists *)
(* twice: PluginRegistry (strict) is built after every dependency was      *)
(* found registered and refuses a cycle; PluginManager's get_all and       *)
(* shutdown put whatever cannot be sorted at the end.                      *)
(***************************************************************************)
EXTENDS Naturals, Sequences, FiniteSets

CONSTANT Node   \* plugin names, normalised

NodeAssumption == IsFiniteSet(Node)

VARIABLES
    strict,     \* which sort this is: TRUE for PluginManagerBuilder::build and the registry
    plugins,    \* the registered names
    deps,       \* name -> the names it declares as dependencies
    degree,     \* in_degree
    queue,      \* the stack of names whose dependencies are all sorted
    sorted,
    pc

vars == <<strict, plugins, deps, degree, queue, sorted, pc>>

Elements(s) == {s[i] : i \in DOMAIN s}

(* The sequences that hold every element of S once: HashMap order. *)
Listings(S) ==
    {s \in [1 .. Cardinality(S) -> S] : \A i, j \in DOMAIN s : s[i] = s[j] => i = j}

Init ==
    /\ strict \in BOOLEAN
    /\ plugins \in SUBSET Node
    /\ deps \in [plugins -> SUBSET Node]
    /\ degree = [n \in plugins |-> 0]
    /\ queue = << >>
    /\ sorted = << >>
    /\ pc = "build"

(* build: the registry is refused when a dependency is not registered. *)
RefuseMissing ==
    /\ strict
    /\ pc = "build"
    /\ \E n \in plugins : ~(deps[n] \subseteq plugins)
    /\ pc' = "missing"
    /\ UNCHANGED <<strict, plugins, deps, degree, queue, sorted>>

(* Unregistered dependencies count as well; nothing will ever remove them. *)
InDegree == [n \in plugins |-> Cardinality(deps[n])]

Prepare ==
    /\ pc = "build"
    /\ strict => \A n \in plugins : deps[n] \subseteq plugins
    /\ degree' = InDegree
    /\ queue' \in Listings({n \in plugins : degree'[n] = 0})
    /\ pc' = "sort"
    /\ UNCHANGED <<strict, plugins, deps, sorted>>

Neighbors(node) == {n \in plugins : node \in deps[n]}

(* Variant of the next definition: a name is pushed by its first dependency. *)
FreedEarly(node) == {n \in Neighbors(node) : degree[n] >= 1 /\ n \notin Elements(queue)}

Freed(node) == {n \in Neighbors(node) : degree[n] = 1}

Pop ==
    LET node == queue[Len(queue)]
        rest == SubSeq(queue, 1, Len(queue) - 1)
    IN
    /\ pc = "sort"
    /\ queue # << >>
    /\ sorted' = Append(sorted, node)
    /\ degree' = [n \in plugins |-> IF n \in Neighbors(node) THEN degree[n] - 1 ELSE degree[n]]
    /\ \E freed \in Listings(Freed(node)) : queue' = rest \o freed
    /\ UNCHANGED <<strict, plugins, deps, pc>>

Unsorted == plugins \ Elements(sorted)

(* The registry refuses what is left over, the manager appends it. *)
Finish ==
    /\ pc = "sort"
    /\ queue = << >>
    /\ IF strict
       THEN /\ pc' = IF Unsorted = {} THEN "done" ELSE "circular"
            /\ UNCHANGED sorted
       ELSE /\ pc' = "done"
            /\ \E rest \in Listings(Unsorted) : sorted' = sorted \o rest
    /\ UNCHANGED <<strict, plugins, deps, degree, queue>>

Next == RefuseMissing \/ Prepare \/ Pop \/ Finish

Spec == Init /\ [][Next]_vars

-----------------------------------------------------------------------------
(* A name and its in-degree are well formed, and every name is queued or   *)
(* sorted at most once.                                                    *)
TypeOK ==
    /\ strict \in BOOLEAN
    /\ plugins \subseteq Node
    /\ deps \in [plugins -> SUBSET Node]
    /\ degree \in [plugins -> 0 .. Cardinality(Node)]
    /\ queue \in Seq(plugins) /\ sorted \in Seq(plugins)
    /\ \A i, j \in DOMAIN (sorted \o queue) : (sorted \o queue)[i] = (sorted \o queue)[j] => i = j
    /\ pc \in {"build", "sort", "done", "missing", "circular"}

(* Names that cannot be sorted: those in, or behind, a cycle or a missing  *)
(* dependency -- the largest set whose members all wait for something that *)
(* is in the set or not registered.                                        *)
Waits(S) == \A n \in S : \E d \in deps[n] : d \in S \/ d \notin plugins
Stuck == UNION {S \in SUBSET plugins : Waits(S)}

(* Whatever the map order, a sortable name comes after all of its          *)
(* dependencies, at every moment of the sort.                              *)
DependenciesFirst ==
    \A i \in DOMAIN sorted : sorted[i] \notin Stuck
        => \A d \in deps[sorted[i]] : \E j \in 1 .. i - 1 : sorted[j] = d

(* Nobody is forgotten: the manager's sort lists every plugin once, the    *)
(* unsortable ones last, and the registry's does so too or refuses, which  *)
(* it does for exactly the graphs that have a cycle.                       *)
ListedUnlessCyclic ==
    /\ pc = "done" =>
        /\ Elements(sorted) = plugins /\ Len(sorted) = Cardinality(plugins)
        /\ \A i, j \in DOMAIN sorted : (sorted[i] \in Stuck /\ i < j) => sorted[j] \in Stuck
    /\ strict /\ pc = "done" => Stuck = {}
    /\ pc = "circular" => Stuck # {}

Acyclic == ~ \E S \in SUBSET plugins : S # {} /\ \A n \in S : deps[n] \cap S # {}

(* "on_shutdown is called in the reverse order of the dependencies": a     *)
(* registered dependency is listed before its dependents when no cycle     *)
(* makes that impossible.                                                  *)
ReverseOrderOfDependencies ==
    (pc = "done" /\ Acyclic) =>
        \A i \in DOMAIN sorted : \A d \in deps[sorted[i]] \cap plugins :
            \E j \in 1 .. i - 1 : sorted[j] = d
=============================================================================
