--------------------------- MODULE DependencySort ---------------------------
(***************************************************************************)
(* core/runtime/dependency.go: the providers a run needs are selected by a *)
(* depth-first walk from its target, and sorted by Kahn's algorithm.       *)
(*                                                                         *)
(* Items are numbered in the order they were registered.  A dependency     *)
(* list is a set: validateDependencyList refuses a name listed twice, and  *)
(* inside the list required and optional names are the same edge.  They    *)
(* differ only for a name that is not registered: lacking is the set of    *)
(* items that require such a name, optional ones are skipped everywhere.   *)
(***************************************************************************)
EXTENDS Integers, Sequences, FiniteSets, SequencesExt

CONSTANT N      \* number of registered items

ASSUME SizeAssumption == N \in Nat

Items == 1 .. N
All == 0        \* the target of RunAllProviders: every item

VARIABLES
    deps, lacking,      \* the declarations, fixed
    target,             \* the provider to run, or All
    pc,
    stack, todo,        \* visit: active calls, dependencies they have to walk
    visited,
    sel,                \* the items given to sortDependencyItems
    inDegree, queue, out,
    scan                \* index of the loop that fills the queue

declared == <<deps, lacking, target>>
walk == <<stack, todo, visited>>
sort == <<inDegree, queue, out, scan>>
vars == <<declared, pc, walk, sel, sort>>

Outcomes == {"sorted", "missing", "cycle"}

Init ==
    /\ deps \in [Items -> SUBSET Items]
    /\ lacking \in SUBSET Items
    /\ target \in Items \union {All}
    /\ pc = IF target = All THEN "validate" ELSE "visit"
    /\ stack = IF target \in Items \ lacking THEN <<target>> ELSE <<>>
    /\ todo = deps
    /\ visited = {}
    /\ sel = {}
    /\ inDegree = [i \in Items |-> 0]
    /\ queue = <<>>
    /\ out = <<>>
    /\ scan = 1

-----------------------------------------------------------------------------
(* Selection.                                                              *)

\* validateProviderDependencies, or visit before it walks the target.
Missing ==
    /\ \/ pc = "validate" /\ lacking # {}
       \/ pc = "visit" /\ target \in lacking
    /\ pc' = "missing"
    /\ UNCHANGED <<declared, walk, sel, sort>>

ValidateAll ==
    /\ pc = "validate"
    /\ lacking = {}
    /\ sel' = Items
    /\ pc' = "degrees"
    /\ UNCHANGED <<declared, walk, sort>>

\* visit(d) from the item on top: already visited, or being visited.
Known(d) == d \in visited

\* Faulty: the walk does not move past it.
StayOnVisited(d) ==
    /\ pc = "visit"
    /\ stack # <<>>
    /\ d \in todo[Last(stack)]
    /\ Known(d)
    /\ UNCHANGED vars

SkipVisited(d) ==
    /\ pc = "visit"
    /\ stack # <<>>
    /\ d \in todo[Last(stack)]
    /\ Known(d)
    /\ todo' = [todo EXCEPT ![Last(stack)] = @ \ {d}]
    /\ UNCHANGED <<declared, pc, stack, visited, sel, sort>>

FindCycle(d) ==
    /\ pc = "visit"
    /\ stack # <<>>
    /\ d \in todo[Last(stack)]
    /\ ~Known(d)
    /\ d \in ToSet(stack)
    /\ pc' = "cycle"
    /\ UNCHANGED <<declared, walk, sel, sort>>

\* A new item is walked, or found to require a name that is missing.
Visit(d) ==
    /\ pc = "visit"
    /\ stack # <<>>
    /\ d \in todo[Last(stack)]
    /\ ~Known(d)
    /\ d \notin ToSet(stack)
    /\ IF d \in lacking
       THEN pc' = "missing" /\ UNCHANGED <<stack, todo>>
       ELSE /\ stack' = Append(stack, d)
            /\ todo' = [todo EXCEPT ![Last(stack)] = @ \ {d}]
            /\ UNCHANGED pc
    /\ UNCHANGED <<declared, visited, sel, sort>>

\* Every dependency of the item on top has been walked.
Leave ==
    /\ pc = "visit"
    /\ stack # <<>>
    /\ todo[Last(stack)] = {}
    /\ visited' = visited \union {Last(stack)}
    /\ stack' = Front(stack)
    /\ UNCHANGED <<declared, pc, todo, sel, sort>>

Selected ==
    /\ pc = "visit"
    /\ stack = <<>>
    /\ target \notin lacking
    /\ sel' = visited
    /\ pc' = "degrees"
    /\ UNCHANGED <<declared, walk, sort>>

-----------------------------------------------------------------------------
(* sortDependencyItems.                                                    *)

\* Edges come from the items being sorted; other names are not indexed.
CountDegrees ==
    /\ pc = "degrees"
    /\ inDegree' = [i \in Items |-> Cardinality(deps[i] \intersect sel)]
    /\ pc' = "seed"
    /\ scan' = 1
    /\ UNCHANGED <<declared, walk, sel, queue, out>>

\* The queue starts with the items that have no dependency, in order.
Seed ==
    /\ pc = "seed"
    /\ scan <= N
    /\ queue' = IF scan \in sel /\ inDegree[scan] = 0
                THEN Append(queue, scan) ELSE queue
    /\ scan' = scan + 1
    /\ UNCHANGED <<declared, pc, walk, sel, inDegree, out>>

Seeded ==
    /\ pc = "seed"
    /\ scan > N
    /\ pc' = "sort"
    /\ UNCHANGED <<declared, walk, sel, sort>>

TakeHead ==
    /\ pc = "sort"
    /\ queue # <<>>
    /\ out' = Append(out, Head(queue))
    /\ queue' = Tail(queue)
    /\ scan' = 1
    /\ pc' = "edges"
    /\ UNCHANGED <<declared, walk, sel, inDegree>>

AnyOther(j, i) == j \in sel /\ j # i     \* faulty: not only dependents
DependsOn(j, i) == j \in sel /\ i \in deps[j]

\* Each item that depends on the one just placed loses an edge, and joins
\* the queue with its last.
ReadyAtOne(d) == d = 1      \* faulty: one dependency too early
Ready(d) == d = 0

DropEdge ==
    /\ pc = "edges"
    /\ scan <= N
    /\ DependsOn(scan, Last(out))
    /\ inDegree' = [inDegree EXCEPT ![scan] = @ - 1]
    /\ queue' = IF Ready(inDegree'[scan]) THEN Append(queue, scan) ELSE queue
    /\ scan' = scan + 1
    /\ UNCHANGED <<declared, pc, walk, sel, out>>

NoEdge ==
    /\ pc = "edges"
    /\ scan <= N
    /\ ~DependsOn(scan, Last(out))
    /\ scan' = scan + 1
    /\ UNCHANGED <<declared, pc, walk, sel, inDegree, queue, out>>

EdgesDropped ==
    /\ pc = "edges"
    /\ scan > N
    /\ pc' = "sort"
    /\ UNCHANGED <<declared, walk, sel, sort>>

\* Faulty: the order is returned however long it is.
FinishAnyway ==
    /\ pc = "sort"
    /\ queue = <<>>
    /\ pc' = "sorted"
    /\ UNCHANGED <<declared, walk, sel, sort>>

\* The queue ran dry: items left over sit on a cycle.
Finish ==
    /\ pc = "sort"
    /\ queue = <<>>
    /\ pc' = IF Len(out) = Cardinality(sel) THEN "sorted" ELSE "cycle"
    /\ UNCHANGED <<declared, walk, sel, sort>>

Terminated == pc \in Outcomes /\ UNCHANGED vars

Next ==
    \/ Missing \/ ValidateAll \/ Leave \/ Selected
    \/ \E d \in Items : SkipVisited(d) \/ FindCycle(d) \/ Visit(d)
    \/ CountDegrees \/ Seed \/ Seeded
    \/ TakeHead \/ DropEdge \/ NoEdge \/ EdgesDropped \/ Finish
    \/ Terminated

Spec == Init /\ [][Next]_vars

\* The functions are called and run to their end.
FairSpec == Spec /\ WF_vars(Next)

-----------------------------------------------------------------------------
(* Properties.                                                             *)

\* Every variable stays in its domain.
TypeOK ==
    /\ deps \in [Items -> SUBSET Items]
    /\ lacking \in SUBSET Items
    /\ target \in Items \union {All}
    /\ pc \in {"validate", "visit", "degrees", "seed", "sort", "edges"} \union Outcomes
    /\ stack \in Seq(Items)
    /\ todo \in [Items -> SUBSET Items]
    /\ visited \in SUBSET Items
    /\ sel \in SUBSET Items
    /\ inDegree \in [Items -> Nat]
    /\ queue \in Seq(Items)
    /\ out \in Seq(Items)
    /\ scan \in Nat \ {0}

\* The items reachable from the target: those in every closed set around it.
Closed(S) == \A i \in S : deps[i] \subseteq S
Needed ==
    IF target = All THEN Items
    ELSE {i \in Items : \A S \in SUBSET Items :
                          target \in S /\ Closed(S) => i \in S}

\* An acyclic set has, in every part of it, an item with no dependency there.
Acyclic(S) ==
    \A T \in (SUBSET S) \ {{}} : \E i \in T : deps[i] \intersect T = {}

\* RunProvider starts its target and everything it depends on, nothing else; and
\* sorting succeeds exactly when that is complete and acyclic, and then nothing
\* is left out.
Verdict ==
    /\ pc \in {"degrees", "seed", "sort", "edges", "sorted"} => sel = Needed
    /\ pc = "sorted" => /\ Acyclic(Needed) /\ Needed \intersect lacking = {}
                        /\ ToSet(out) = Needed
    /\ pc = "cycle" => ~Acyclic(Needed)
    /\ pc = "missing" => Needed \intersect lacking # {}

\* Every call ends with an order or an error.
Terminates == <>(pc \in Outcomes)

\* The order is one BootOrder allows.
Boot == INSTANCE BootOrder WITH Items <- Items, deps <- deps, sel <- sel, out <- out
Implements == Boot!Spec

\* In what is handed to App.Run no provider stands before one it depends on,
\* and none stands there twice, at any point of the sort.
DependenciesFirst == Boot!Ordered
=============================================================================
