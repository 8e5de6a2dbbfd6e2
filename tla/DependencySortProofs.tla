------------------------ MODULE DependencySortProofs ------------------------
(***************************************************************************)
(* The order DependencySort returns is one BootOrder allows, for any       *)
(* number of items and any graph: the types hold, every step is a step of  *)
(* BootOrder or a stutter, and so no item precedes one it depends on.      *)
(* What it ends with is right: it has selected what the target needs, and  *)
(* it reports an error exactly if a name is missing or there is a cycle.   *)
(***************************************************************************)
EXTENDS DependencySort, SequenceTheorems, FiniteSetTheorems, TLAPS

Distinct(s) == \A k, l \in DOMAIN s : s[k] = s[l] => k = l

-----------------------------------------------------------------------------
(* The inductive invariant.                                                *)

\* What the selection chooses is chosen before anything is sorted.
Unsorted ==
    /\ pc \in {"validate", "visit"} => sel = {}
    /\ pc \in {"validate", "visit", "degrees"} => queue = <<>>
    /\ pc \in {"validate", "visit", "degrees", "seed"} => out = <<>>

\* What an active item no longer has to walk is visited, or active just above.
WalkedAbove ==
    \A k \in 1 .. Len(stack) : \A d \in deps[stack[k]] \ todo[stack[k]] :
      d \in visited \/ (k < Len(stack) /\ d = stack[k + 1])

\* An item not reached yet has all its dependencies to walk.
Unreached == \A i \in Items \ (visited \union ToSet(stack)) : todo[i] = deps[i]

\* The walk: active items are distinct, visited ones closed.
WalkClosed ==
    pc = "visit" =>
      Distinct(stack) /\ Closed(visited) /\ WalkedAbove /\ Unreached

\* The dependencies of j that its degree still counts.
Pending(j) ==
    IF pc = "edges" /\ scan <= j
    THEN deps[j] \ (ToSet(out) \ {Last(out)})
    ELSE deps[j] \ ToSet(out)

Sorting == pc \in {"seed", "sort", "edges"}

DegreeCounts ==
    Sorting => \A j \in sel : inDegree[j] = Cardinality(Pending(j))

\* An item is queued once, when it has no pending dependency.
OnceReady(q, o) ==
    /\ ToSet(q) \union ToSet(o) \subseteq sel
    /\ \A i \in ToSet(q) \union ToSet(o) : inDegree[i] = 0
    /\ Distinct(q) /\ Distinct(o)
    /\ ToSet(q) \intersect ToSet(o) = {}

QueueReady ==
    Sorting =>
      /\ OnceReady(queue, out)
      /\ pc = "seed" => \A i \in ToSet(queue) : i < scan
      /\ pc = "edges" => out # <<>>

IInv ==
    /\ TypeOK
    /\ Closed(sel)
    /\ Unsorted
    /\ WalkClosed
    /\ DegreeCounts
    /\ QueueReady
-----------------------------------------------------------------------------
(* Sequences and cardinalities.                                            *)

LEMMA NoElements == \A S : <<>> \in Seq(S)
  OBVIOUS

LEMMA NoItems == ToSet(<<>>) = {} /\ Distinct(<<>>)
  BY DEF ToSet, Distinct

\* A new element joins the end of a sequence.
LEMMA Joins ==
  ASSUME NEW S, NEW s \in Seq(S), NEW x \in S
  PROVE  /\ Append(s, x) \in Seq(S)
         /\ Append(s, x) # <<>>
         /\ Last(Append(s, x)) = x
         /\ ToSet(Append(s, x)) = ToSet(s) \union {x}
         /\ Distinct(s) /\ x \notin ToSet(s) => Distinct(Append(s, x))
  <1>1. PICK n \in Nat : n = Len(s)
    OBVIOUS
  <1> DEFINE t == Append(s, x)
  <1>2. /\ t \in Seq(S) /\ Len(t) = n + 1 /\ t[n + 1] = x
        /\ DOMAIN t = 1 .. n + 1 /\ DOMAIN s = 1 .. n
        /\ \A k \in 1 .. n : t[k] = s[k]
    BY <1>1
  <1> HIDE DEF t
  <1>3. t # <<>>
    BY <1>2
  <1>4. Last(t) = x
    BY <1>2 DEF Last
  <1>5. ToSet(t) = ToSet(s) \union {x}
    <2>1. \A k \in 1 .. n + 1 : t[k] \in ToSet(s) \union {x}
      BY <1>2 DEF ToSet
    <2>2. ToSet(s) \union {x} \subseteq ToSet(t)
      BY <1>2 DEF ToSet
    <2>3. QED
      BY <1>2, <2>1, <2>2 DEF ToSet
  <1>6. ASSUME Distinct(s), x \notin ToSet(s)
        PROVE  Distinct(t)
    BY <1>2, <1>6 DEF Distinct, ToSet
  <1>7. QED
    BY <1>2, <1>3, <1>4, <1>5, <1>6 DEF t

\* The head leaves a queue without repetitions.
LEMMA HeadLeaves ==
  ASSUME NEW S, NEW s \in Seq(S), s # <<>>
  PROVE  /\ Head(s) \in S
         /\ Head(s) \in ToSet(s)
         /\ Tail(s) \in Seq(S)
         /\ Distinct(s) => /\ Distinct(Tail(s))
                           /\ ToSet(Tail(s)) = ToSet(s) \ {Head(s)}
  <1>1. PICK n \in Nat : n = Len(s)
    OBVIOUS
  <1> DEFINE t == Tail(s)
  <1>2. /\ t \in Seq(S) /\ n >= 1 /\ Len(t) = n - 1
        /\ DOMAIN t = 1 .. n - 1 /\ DOMAIN s = 1 .. n
        /\ \A k \in 1 .. n - 1 : t[k] = s[k + 1]
        /\ Head(s) = s[1] /\ Head(s) \in S
    BY <1>1
  <1> HIDE DEF t
  <1>3. Head(s) \in ToSet(s)
    BY <1>2 DEF ToSet
  <1>4. ASSUME Distinct(s)
        PROVE  Distinct(t)
    <2>1. SUFFICES ASSUME NEW k \in 1 .. n - 1, NEW l \in 1 .. n - 1,
                          t[k] = t[l]
                   PROVE  k = l
      BY <1>2 DEF Distinct
    <2>2. k + 1 \in DOMAIN s /\ l + 1 \in DOMAIN s /\ s[k + 1] = s[l + 1]
      BY <1>2, <2>1
    <2>3. k + 1 = l + 1
      BY <1>4, <2>2 DEF Distinct
    <2>4. QED
      BY <2>3
  <1>5. ASSUME Distinct(s)
        PROVE  ToSet(t) = ToSet(s) \ {Head(s)}
    <2>1. ASSUME NEW k \in 1 .. n - 1
          PROVE  t[k] \in ToSet(s) \ {s[1]}
      <3>1. k + 1 \in DOMAIN s /\ 1 \in DOMAIN s /\ k + 1 # 1 /\ t[k] = s[k + 1]
        BY <1>2
      <3>2. QED
        BY <1>5, <3>1 DEF Distinct, ToSet
    <2>2. ASSUME NEW k \in 1 .. n, k # 1
          PROVE  s[k] \in ToSet(t)
      <3>1. k - 1 \in DOMAIN t /\ t[k - 1] = s[k]
        BY <1>2, <2>2
      <3>2. QED
        BY <3>1 DEF ToSet
    <2>3. ToSet(t) \subseteq ToSet(s) \ {Head(s)}
      BY <1>2, <2>1 DEF ToSet
    <2>4. ToSet(s) \ {Head(s)} \subseteq ToSet(t)
      BY <1>2, <2>2 DEF ToSet
    <2>5. QED
      BY <2>3, <2>4
  <1>6. QED
    BY <1>2, <1>3, <1>4, <1>5 DEF t

\* The top leaves a stack without repetitions.
LEMMA LastLeaves ==
  ASSUME NEW S, NEW s \in Seq(S), s # <<>>
  PROVE  /\ Last(s) \in S
         /\ Last(s) \in ToSet(s)
         /\ Last(s) = s[Len(s)]
         /\ Front(s) \in Seq(S)
         /\ Len(Front(s)) = Len(s) - 1
         /\ \A k \in 1 .. Len(s) - 1 : Front(s)[k] = s[k]
         /\ ToSet(s) = ToSet(Front(s)) \union {Last(s)}
         /\ Distinct(s) => Distinct(Front(s)) /\ Last(s) \notin ToSet(Front(s))
  <1>1. PICK n \in Nat : n = Len(s)
    OBVIOUS
  <1> DEFINE t == Front(s)
  <1>2. n >= 1 /\ DOMAIN s = 1 .. n
    BY <1>1
  <1>3. Last(s) = s[n] /\ Last(s) \in S
    BY <1>1, <1>2 DEF Last
  <1>4. /\ t \in Seq(S) /\ Len(t) = n - 1 /\ DOMAIN t = 1 .. n - 1
        /\ \A k \in 1 .. n - 1 : t[k] = s[k]
    BY <1>1, <1>2 DEF Front
  <1> HIDE DEF t
  <1>5. Last(s) \in ToSet(s)
    BY <1>2, <1>3 DEF ToSet
  <1>6. ToSet(s) = ToSet(t) \union {Last(s)}
    <2>1. \A k \in 1 .. n : k = n \/ (k \in 1 .. n - 1 /\ t[k] = s[k])
      BY <1>2, <1>4
    <2>2. ToSet(t) \subseteq ToSet(s)
      BY <1>2, <1>4 DEF ToSet
    <2>3. ToSet(s) \subseteq ToSet(t) \union {Last(s)}
      BY <1>2, <1>3, <1>4, <2>1 DEF ToSet
    <2>4. QED
      BY <1>5, <2>2, <2>3
  <1>7. ASSUME Distinct(s)
        PROVE  Distinct(t) /\ Last(s) \notin ToSet(t)
    BY <1>2, <1>3, <1>4, <1>7 DEF Distinct, ToSet
  <1>8. QED
    BY <1>1, <1>3, <1>4, <1>5, <1>6, <1>7 DEF t

\* Parts of the items are finite, and lose one with an element.
LEMMA Counting ==
  ASSUME NEW S \in SUBSET Items
  PROVE  /\ Cardinality(S) \in Nat
         /\ Cardinality(S) = 0 <=> S = {}
         /\ \A x \in S : Cardinality(S \ {x}) = Cardinality(S) - 1
  <1>1. IsFiniteSet(Items)
    BY SizeAssumption, FS_Interval DEF Items
  <1>2. IsFiniteSet(S)
    BY <1>1, FS_Subset
  <1>3. QED
    BY <1>2, FS_CardinalityType, FS_EmptySet, FS_RemoveElement

-----------------------------------------------------------------------------
(* Preservation, one conjunct of the invariant at a time.                  *)

LEMMA InitInv == Init => IInv
  <1> SUFFICES ASSUME Init PROVE IInv
    OBVIOUS
  <1> USE DEF Init
  <1>1. target \in Items => <<target>> \in Seq(Items)
    OBVIOUS
  <1>2. TypeOK
    BY <1>1, NoElements DEF TypeOK
  <1>3. Closed(sel) /\ Unsorted /\ DegreeCounts /\ QueueReady
    BY DEF Closed, Unsorted, DegreeCounts, QueueReady, Sorting
  <1>4. Distinct(stack)
    BY DEF Distinct
  <1>5. WalkClosed
    BY <1>4 DEF WalkClosed, WalkedAbove, Unreached, Closed
  <1>6. QED
    BY <1>2, <1>3, <1>5 DEF IInv

\* An edge that is dropped was counted.
LEMMA EdgeWasPending ==
  ASSUME IInv, DropEdge
  PROVE  /\ scan \in sel /\ scan \in Items
         /\ Last(out) \in Pending(scan)
         /\ inDegree[scan] = Cardinality(Pending(scan))
         /\ inDegree[scan] \in Nat \ {0}
  <1> USE DEF IInv, TypeOK
  <1>1. /\ pc = "edges" /\ scan <= N /\ scan \in sel /\ scan \in Items
        /\ Last(out) \in deps[scan] /\ out # <<>>
    BY DEF DropEdge, DependsOn, QueueReady, Sorting, Items
  <1>2. Last(out) \in Pending(scan) /\ Pending(scan) \in SUBSET Items
    BY <1>1 DEF Pending
  <1>3. inDegree[scan] = Cardinality(Pending(scan))
    BY <1>1 DEF DegreeCounts, Sorting
  <1>4. QED
    BY <1>1, <1>2, <1>3, Counting

\* The queue of DropEdge keeps its type.
LEMMA TypeStep == IInv /\ [Next]_vars => TypeOK'
  <1> SUFFICES ASSUME IInv, [Next]_vars PROVE TypeOK'
    OBVIOUS
  <1> USE DEF IInv, TypeOK, declared, walk, sort, Outcomes
  <1>1. CASE Missing
    BY <1>1 DEF Missing
  <1>2. CASE ValidateAll
    BY <1>2 DEF ValidateAll
  <1>3. CASE Leave
    <2>1. Last(stack) \in Items /\ Front(stack) \in Seq(Items)
      BY <1>3, LastLeaves DEF Leave
    <2>2. visited' \in SUBSET Items /\ stack' \in Seq(Items)
      BY <1>3, <2>1 DEF Leave
    <2>3. QED
      BY <1>3, <2>2 DEF Leave
  <1>4. CASE Selected
    BY <1>4 DEF Selected
  <1>5. ASSUME NEW d \in Items, SkipVisited(d) PROVE TypeOK'
    BY <1>5 DEF SkipVisited
  <1>6. ASSUME NEW d \in Items, FindCycle(d) PROVE TypeOK'
    BY <1>6 DEF FindCycle
  <1>7. ASSUME NEW d \in Items, Visit(d) PROVE TypeOK'
    <2>1. stack' \in Seq(Items)
      <3>1. Append(stack, d) \in Seq(Items)
        BY Joins
      <3>2. QED
        BY <1>7, <3>1 DEF Visit
    <2>2. todo' \in [Items -> SUBSET Items]
      <3>1. todo[Last(stack)] \ {d} \in SUBSET Items
        BY <1>7, LastLeaves DEF Visit
      <3>2. QED
        BY <1>7, <3>1 DEF Visit
    <2>3. pc' \in {"visit", "missing"}
      BY <1>7 DEF Visit
    <2>4. QED
      BY <1>7, <2>1, <2>2, <2>3 DEF Visit
  <1>8. CASE CountDegrees
    <2>1. \A i \in Items : Cardinality(deps[i] \intersect sel) \in Nat
      BY Counting
    <2>2. inDegree' \in [Items -> Nat]
      BY <1>8, <2>1 DEF CountDegrees
    <2>3. pc' = "seed" /\ scan' = 1 /\ UNCHANGED <<declared, walk, sel, queue, out>>
      BY <1>8 DEF CountDegrees
    <2>4. QED
      BY <2>2, <2>3
  <1>9. CASE Seed
    <2>1. scan \in Items
      BY <1>9, SizeAssumption DEF Seed, Items
    <2>2. queue' \in Seq(Items)
      BY <1>9, <2>1, Joins DEF Seed
    <2>3. QED
      BY <1>9, <2>2 DEF Seed
  <1>10. CASE Seeded
    BY <1>10 DEF Seeded
  <1>11. CASE TakeHead
    BY <1>11, HeadLeaves, Joins DEF TakeHead
  <1>12. CASE DropEdge
    <2>1. scan \in Items /\ inDegree[scan] - 1 \in Nat
      BY <1>12, EdgeWasPending
    <2>2. queue' \in Seq(Items)
      BY <1>12, <2>1, Joins DEF DropEdge
    <2>3. inDegree' \in [Items -> Nat] /\ scan' \in Nat \ {0}
      BY <1>12, <2>1 DEF DropEdge
    <2>4. QED
      BY <1>12, <2>2, <2>3 DEF DropEdge
  <1>13. CASE NoEdge
    BY <1>13 DEF NoEdge
  <1>14. CASE EdgesDropped
    BY <1>14 DEF EdgesDropped
  <1>15. CASE Finish
    BY <1>15 DEF Finish
  <1>16. CASE UNCHANGED vars
    BY <1>16 DEF vars
  <1>17. QED
    BY <1>1, <1>2, <1>3, <1>4, <1>5, <1>6, <1>7, <1>8, <1>9, <1>10, <1>11,
      <1>12, <1>13, <1>14, <1>15, <1>16 DEF Next, Terminated

\* Actions of the sort leave the walk alone, and the other way round.
SortActions ==
    \/ CountDegrees \/ Seed \/ Seeded
    \/ TakeHead \/ DropEdge \/ NoEdge \/ EdgesDropped \/ Finish

\* What is selected is closed, and nothing is sorted before.
LEMMA SelectionStep == IInv /\ [Next]_vars => Closed(sel)' /\ Unsorted'
  <1> SUFFICES ASSUME IInv, [Next]_vars PROVE Closed(sel)' /\ Unsorted'
    OBVIOUS
  <1> USE DEF IInv, Unsorted, declared, walk, sort
  <1>1. CASE Missing
    BY <1>1 DEF Missing, Closed
  <1>2. CASE ValidateAll
    BY <1>2 DEF ValidateAll, Closed, TypeOK
  <1>3. CASE Leave
    BY <1>3 DEF Leave, Closed
  <1>4. CASE Selected
    BY <1>4 DEF Selected, Closed, WalkClosed
  <1>5. ASSUME NEW d \in Items, SkipVisited(d) \/ FindCycle(d) \/ Visit(d)
        PROVE  Closed(sel)' /\ Unsorted'
    BY <1>5 DEF SkipVisited, FindCycle, Visit, Closed
  <1>6. CASE SortActions
    <2>1. UNCHANGED <<deps, sel>>
      BY <1>6 DEF SortActions, CountDegrees, Seed, Seeded, TakeHead, DropEdge,
        NoEdge, EdgesDropped, Finish
    <2>2. Unsorted'
      BY <1>6 DEF SortActions, CountDegrees, Seed, Seeded, TakeHead, DropEdge,
        NoEdge, EdgesDropped, Finish
    <2>3. QED
      BY <2>1, <2>2 DEF Closed
  <1>7. CASE UNCHANGED vars
    BY <1>7 DEF vars, Closed
  <1>8. QED
    BY <1>1, <1>2, <1>3, <1>4, <1>5, <1>6, <1>7 DEF Next, Terminated,
      SortActions

\* The walk closes what it visits.
LEMMA WalkStep == IInv /\ [Next]_vars => WalkClosed'
  <1> SUFFICES ASSUME IInv, [Next]_vars, (pc = "visit")' PROVE WalkClosed'
    BY DEF WalkClosed
  <1> USE DEF IInv, TypeOK, declared, walk, sort
  <1>1. CASE Leave
    <2>1. PICK n \in Nat : n = Len(stack)
      OBVIOUS
    <2>2. PICK t \in Items : t = Last(stack)
      BY <1>1, LastLeaves DEF Leave
    <2>3. /\ n \in Nat \ {0} /\ todo[t] = {} /\ pc = "visit"
          /\ visited' = visited \union {t} /\ UNCHANGED <<deps, todo>>
      BY <1>1, <2>1, <2>2 DEF Leave
    <2>4. /\ t = stack[n] /\ stack' \in Seq(Items)
          /\ Len(stack') = n - 1
          /\ \A k \in 1 .. n - 1 : stack'[k] = stack[k]
          /\ ToSet(stack) = ToSet(stack') \union {t}
          /\ Distinct(stack')
      <3>1. /\ stack # <<>> /\ stack' = Front(stack) /\ Distinct(stack)
            /\ stack \in Seq(Items)
        BY <1>1, <2>3 DEF Leave, WalkClosed
      <3>2. QED
        BY <2>1, <2>2, <3>1, LastLeaves
    <2>5. \A k \in 1 .. n : \A d \in deps[stack[k]] \ todo[stack[k]] :
            d \in visited \/ (k < n /\ d = stack[k + 1])
      BY <2>1, <2>3 DEF WalkClosed, WalkedAbove
    <2>6. Closed(visited)'
      <3>1. deps[t] \subseteq visited
        BY <2>3, <2>4, <2>5
      <3>2. QED
        BY <2>3, <3>1 DEF Closed, WalkClosed
    <2>7. \A k \in 1 .. n - 1 : \A d \in deps[stack[k]] \ todo[stack[k]] :
            d \in visited' \/ (k < n - 1 /\ d = stack'[k + 1])
      <3>1. SUFFICES ASSUME NEW k \in 1 .. n - 1,
                            NEW d \in deps[stack[k]] \ todo[stack[k]],
                            d \notin visited'
                     PROVE  k < n - 1 /\ d = stack'[k + 1]
        OBVIOUS
      <3>2. d = stack[k + 1] /\ d # t
        BY <2>3, <2>5, <3>1
      <3>3. k + 1 # n
        BY <2>4, <3>2
      <3>4. k < n - 1 /\ k + 1 \in 1 .. n - 1
        BY <2>3, <3>3
      <3>5. QED
        BY <2>4, <3>2, <3>4
    <2>8. \A i \in Items \ (visited' \union ToSet(stack')) : todo[i] = deps[i]
      BY <2>3, <2>4 DEF WalkClosed, Unreached
    <2>9. WalkedAbove' /\ Unreached'
      <3> HIDE DEF IInv, TypeOK
      <3>1. Len(stack') = n - 1 /\ deps' = deps /\ todo' = todo
        BY <2>3, <2>4
      <3>2. \A k \in 1 .. n - 1 : stack'[k] = stack[k]
        BY <2>4
      <3>3. \A k \in 1 .. n - 1 : \A d \in deps'[stack'[k]] \ todo'[stack'[k]] :
              d \in visited' \/ (k < n - 1 /\ d = stack'[k + 1])
        BY <2>7, <3>1, <3>2
      <3>4. WalkedAbove'
        BY <3>1, <3>3 DEF WalkedAbove
      <3>5. Unreached'
        BY <2>8, <3>1 DEF Unreached
      <3>6. QED
        BY <3>4, <3>5
    <2>10. Distinct(stack)'
      BY <2>4 DEF Distinct
    <2>11. QED
      BY <2>6, <2>9, <2>10 DEF WalkClosed, Distinct
  <1>2. ASSUME NEW d \in Items, SkipVisited(d) PROVE WalkClosed'
    <2>1. PICK n \in Nat : n = Len(stack)
      OBVIOUS
    <2>2. PICK t \in Items : t = Last(stack)
      BY <1>2, LastLeaves DEF SkipVisited
    <2>3. /\ d \in visited /\ pc = "visit"
          /\ todo' = [todo EXCEPT ![t] = @ \ {d}]
          /\ UNCHANGED <<deps, stack, visited>>
      BY <1>2, <2>2 DEF SkipVisited, Known
    <2>4. t \in ToSet(stack)
      BY <1>2, <2>2, LastLeaves DEF SkipVisited
    <2>5. \A i \in Items : todo'[i] = todo[i] \/ (i = t /\ todo'[i] = todo[i] \ {d})
      BY <2>3
    <2>6. Closed(visited)' /\ Distinct(stack)'
      BY <2>3 DEF Closed, WalkClosed
    <2>7. \A k \in 1 .. Len(stack) : \A e \in deps[stack[k]] \ todo'[stack[k]] :
            e \in visited \/ (k < Len(stack) /\ e = stack[k + 1])
      <3>1. \A k \in 1 .. Len(stack) : stack[k] \in Items
        OBVIOUS
      <3>2. QED
        BY <2>3, <2>5, <3>1 DEF WalkClosed, WalkedAbove
    <2>8. \A i \in Items \ (visited \union ToSet(stack)) : todo'[i] = deps[i]
      BY <2>3, <2>4, <2>5 DEF WalkClosed, Unreached
    <2>9. WalkedAbove' /\ Unreached'
      BY <2>3, <2>7, <2>8 DEF WalkedAbove, Unreached
    <2>10. QED
      BY <2>6, <2>9 DEF WalkClosed
  <1>3. ASSUME NEW d \in Items, Visit(d) PROVE WalkClosed'
    <2>1. PICK n \in Nat : n = Len(stack)
      OBVIOUS
    <2>2. PICK t \in Items : t = Last(stack)
      BY <1>3, LastLeaves DEF Visit
    <2>3. /\ d \notin visited /\ d \notin ToSet(stack) /\ pc = "visit"
          /\ stack' = Append(stack, d)
          /\ todo' = [todo EXCEPT ![t] = @ \ {d}]
          /\ UNCHANGED <<deps, visited>>
      BY <1>3, <2>2 DEF Visit, Known
    <2>4. /\ t \in ToSet(stack) /\ t = stack[n] /\ n >= 1
          /\ Distinct(stack')
          /\ ToSet(stack') = ToSet(stack) \union {d}
      BY <1>3, <2>1, <2>2, <2>3, LastLeaves, Joins DEF Visit, WalkClosed
    <2>5. /\ Len(stack') = n + 1 /\ stack'[n + 1] = d
          /\ \A k \in 1 .. n : stack'[k] = stack[k] /\ stack[k] \in Items
      BY <2>1, <2>3
    <2>6. \A i \in Items : i # t => todo'[i] = todo[i]
      BY <2>3
    <2>7. todo'[t] = todo[t] \ {d}
      BY <2>3
    <2>8. \A k, l \in 1 .. n : stack[k] = stack[l] => k = l
      <3>1. DOMAIN stack = 1 .. n /\ Distinct(stack)
        BY <2>1, <2>3 DEF WalkClosed
      <3>2. QED
        BY <3>1 DEF Distinct
    <2>9. \A k \in 1 .. n : \A e \in deps[stack[k]] \ todo[stack[k]] :
            e \in visited \/ (k < n /\ e = stack[k + 1])
      BY <2>1, <2>3 DEF WalkClosed, WalkedAbove
    <2>10. todo'[d] = deps[d] /\ d # t
      BY <2>3, <2>4, <2>6 DEF WalkClosed, Unreached
    <2>11. ASSUME NEW k \in 1 .. n + 1,
                  NEW e \in deps[stack'[k]] \ todo'[stack'[k]]
           PROVE  e \in visited \/ (k < n + 1 /\ e = stack'[k + 1])
      <3>1. CASE k = n + 1
        BY <2>5, <2>10, <2>11, <3>1
      <3>2. CASE k = n
        <4>1. e \in deps[t] /\ (e \notin todo[t] \/ e = d)
          <5>1. n \in 1 .. n /\ stack'[k] = t
            BY <2>4, <2>5, <3>2
          <5>2. QED
            BY <2>7, <2>11, <5>1
        <4>2. QED
          BY <2>4, <2>5, <2>9, <3>2, <4>1
      <3>3. CASE k < n
        <4>1. k \in 1 .. n /\ k + 1 \in 1 .. n /\ n \in 1 .. n /\ k # n
          BY <2>4, <3>3
        <4>2. stack[k] # t
          BY <2>4, <2>8, <4>1
        <4>3. e \in deps[stack[k]] \ todo[stack[k]]
          BY <2>5, <2>6, <4>1, <4>2
        <4>4. e \in visited \/ e = stack[k + 1]
          BY <2>9, <4>1, <4>3
        <4>5. stack'[k + 1] = stack[k + 1] /\ k < n + 1
          BY <2>5, <3>3, <4>1
        <4>6. QED
          BY <4>4, <4>5
      <3>4. QED
        BY <3>1, <3>2, <3>3
    <2>12. \A i \in Items \ (visited \union ToSet(stack')) : todo'[i] = deps[i]
      BY <2>3, <2>4, <2>6 DEF WalkClosed, Unreached
    <2>13. Closed(visited)'
      BY <2>3 DEF Closed, WalkClosed
    <2>14. WalkedAbove' /\ Unreached'
      <3> HIDE DEF IInv, TypeOK
      <3>1. \A k \in 1 .. n + 1 : \A e \in deps[stack'[k]] \ todo'[stack'[k]] :
              e \in visited \/ (k < n + 1 /\ e = stack'[k + 1])
        BY <2>11
      <3>2. Len(stack') = n + 1 /\ deps' = deps /\ visited' = visited
        BY <2>3, <2>5
      <3>3. WalkedAbove'
        BY <3>1, <3>2 DEF WalkedAbove
      <3>4. Unreached'
        BY <2>12, <3>2 DEF Unreached
      <3>5. QED
        BY <3>3, <3>4
    <2>15. Distinct(stack)'
      BY <2>4 DEF Distinct
    <2>16. QED
      BY <2>13, <2>14, <2>15 DEF WalkClosed, Distinct
  <1>4. ASSUME NEW d \in Items, FindCycle(d) PROVE FALSE
    BY <1>4 DEF FindCycle
  <1>5. CASE UNCHANGED vars
    BY <1>5 DEF vars, WalkClosed, WalkedAbove, Unreached, Closed
  <1>6. CASE Missing \/ ValidateAll \/ Selected
    BY <1>6 DEF Missing, ValidateAll, Selected
  <1>7. CASE SortActions
    BY <1>7 DEF SortActions, CountDegrees, Seed, Seeded, TakeHead, DropEdge,
      NoEdge, EdgesDropped, Finish
  <1>8. QED
    BY <1>1, <1>2, <1>3, <1>4, <1>5, <1>6, <1>7 DEF Next, Terminated,
      SortActions

\* The walk and the checks before it sort nothing.
WalkActions ==
    \/ Missing \/ ValidateAll \/ Leave \/ Selected
    \/ \E d \in Items : SkipVisited(d) \/ FindCycle(d) \/ Visit(d)

LEMMA WalkSortsNothing ==
  ASSUME IInv, WalkActions
  PROVE  ~Sorting'
  BY DEF WalkActions, Sorting, IInv, TypeOK, Missing, ValidateAll, Leave,
    Selected, SkipVisited, FindCycle, Visit, walk, declared, sort

\* Each degree counts the dependencies that are still pending.
LEMMA DegreeStep == IInv /\ [Next]_vars => DegreeCounts'
  <1> SUFFICES ASSUME IInv, [Next]_vars, Sorting' PROVE DegreeCounts'
    BY DEF DegreeCounts
  <1> USE DEF IInv, TypeOK, declared, walk, sort
  <1>1. CASE CountDegrees
    <2>1. /\ pc' = "seed" /\ out' = <<>> /\ UNCHANGED <<deps, sel>>
          /\ inDegree' = [i \in Items |-> Cardinality(deps[i] \intersect sel)]
      BY <1>1 DEF CountDegrees, Unsorted
    <2>2. \A j \in sel : Pending(j)' = deps[j]
      BY <2>1, NoItems DEF Pending
    <2>3. \A j \in sel : j \in Items /\ deps[j] \intersect sel = deps[j]
      BY DEF Closed
    <2>4. QED
      BY <2>1, <2>2, <2>3 DEF DegreeCounts
  <1>2. CASE Seed \/ Seeded
    <2>1. /\ pc = "seed" /\ pc' \in {"seed", "sort"}
          /\ UNCHANGED <<deps, sel, inDegree, out>>
      BY <1>2 DEF Seed, Seeded
    <2>2. \A j \in sel : Pending(j)' = Pending(j)
      BY <2>1 DEF Pending
    <2>3. QED
      BY <2>1, <2>2 DEF DegreeCounts, Sorting
  <1>3. CASE TakeHead
    <2>1. /\ pc = "sort" /\ pc' = "edges" /\ scan' = 1 /\ queue # <<>>
          /\ out' = Append(out, Head(queue))
          /\ UNCHANGED <<deps, sel, inDegree>>
      BY <1>3 DEF TakeHead
    <2>2. /\ Head(queue) \in Items /\ Head(queue) \in ToSet(queue)
      BY <2>1, HeadLeaves
    <2>3. /\ Last(out') = Head(queue)
          /\ ToSet(out') = ToSet(out) \union {Head(queue)}
      BY <2>1, <2>2, Joins
    <2>4. Head(queue) \notin ToSet(out)
      BY <2>1, <2>2 DEF QueueReady, OnceReady, Sorting
    <2>5. \A j \in sel : 1 <= j
      BY DEF Items
    <2>6. \A j \in sel : Pending(j)' = Pending(j)
      BY <2>1, <2>3, <2>4, <2>5 DEF Pending
    <2>7. QED
      BY <2>1, <2>6 DEF DegreeCounts, Sorting
  <1>4. CASE DropEdge
    <2>1. /\ pc = "edges" /\ pc' = "edges" /\ scan' = scan + 1
          /\ inDegree' = [inDegree EXCEPT ![scan] = @ - 1]
          /\ UNCHANGED <<deps, sel, out>>
      BY <1>4 DEF DropEdge
    <2>2. /\ scan \in sel /\ scan \in Items /\ Last(out) \in Pending(scan)
          /\ inDegree[scan] = Cardinality(Pending(scan))
      BY <1>4, EdgeWasPending
    <2>3. Last(out) \in ToSet(out)
      BY <2>1, LastLeaves DEF QueueReady, OnceReady, Sorting
    <2>4. PICK i \in sel : i = scan /\ i \in Items
      BY <2>2
    <2>5. Pending(i)' = Pending(i) \ {Last(out)}
      <3>1. ~(scan' <= i) /\ scan <= i
        BY <2>1, <2>4 DEF Items
      <3>2. Pending(i)' = deps[i] \ ToSet(out)
        BY <2>1, <3>1 DEF Pending
      <3>3. Pending(i) = deps[i] \ (ToSet(out) \ {Last(out)})
        BY <2>1, <3>1 DEF Pending
      <3>4. QED
        BY <2>3, <3>2, <3>3
    <2>6. Cardinality(Pending(i)') = inDegree[i] - 1
      <3>1. Pending(i) \in SUBSET Items
        BY <2>4 DEF Pending
      <3>2. Last(out) \in Pending(i) /\ Cardinality(Pending(i)) = inDegree[i]
        BY <2>2, <2>4
      <3>3. Cardinality(Pending(i) \ {Last(out)}) = Cardinality(Pending(i)) - 1
        BY <3>1, <3>2, Counting
      <3>4. QED
        BY <2>5, <3>2, <3>3
    <2>7. \A j \in sel : j # i => Pending(j)' = Pending(j)
      BY <2>1, <2>4 DEF Pending, Items
    <2>8. \A j \in sel : j # i => inDegree'[j] = Cardinality(Pending(j)')
      BY <2>1, <2>4, <2>7 DEF DegreeCounts, Sorting
    <2>9. inDegree'[i] = Cardinality(Pending(i)')
      BY <2>1, <2>4, <2>6
    <2>10. \A j \in sel' : inDegree'[j] = Cardinality(Pending(j)')
      BY <2>1, <2>8, <2>9
    <2>11. QED
      BY <2>10 DEF DegreeCounts
  <1>5. CASE NoEdge
    <2>1. /\ pc = "edges" /\ pc' = "edges" /\ scan' = scan + 1
          /\ scan \in sel => Last(out) \notin deps[scan]
          /\ UNCHANGED <<deps, sel, out, inDegree>>
      BY <1>5 DEF NoEdge, DependsOn
    <2>2. Last(out) \in ToSet(out)
      BY <2>1, LastLeaves DEF QueueReady, OnceReady, Sorting
    <2>3. ASSUME NEW j \in sel
          PROVE  Pending(j)' = Pending(j)
      <3>1. CASE j = scan
        <4>1. ~(scan' <= j) /\ scan <= j
          BY <2>1, <3>1
        <4>2. Pending(j)' = deps[j] \ ToSet(out)
          BY <2>1, <4>1 DEF Pending
        <4>3. Pending(j) = deps[j] \ (ToSet(out) \ {Last(out)})
          BY <2>1, <4>1 DEF Pending
        <4>4. QED
          BY <2>1, <3>1, <4>2, <4>3
      <3>2. CASE j # scan
        <4>1. scan' <= j <=> scan <= j
          BY <2>1, <3>2 DEF Items
        <4>2. QED
          BY <2>1, <4>1 DEF Pending
      <3>3. QED
        BY <3>1, <3>2
    <2>4. QED
      BY <2>1, <2>3 DEF DegreeCounts, Sorting
  <1>6. CASE EdgesDropped
    <2>1. /\ pc = "edges" /\ pc' = "sort" /\ scan > N
          /\ UNCHANGED <<deps, sel, out, inDegree>>
      BY <1>6 DEF EdgesDropped
    <2>2. \A j \in sel : ~(scan <= j)
      BY <2>1, SizeAssumption DEF Items
    <2>3. \A j \in sel : Pending(j)' = Pending(j)
      BY <2>1, <2>2 DEF Pending
    <2>4. QED
      BY <2>1, <2>3 DEF DegreeCounts, Sorting
  <1>7. CASE Finish
    BY <1>7 DEF Finish, Sorting
  <1>8. CASE UNCHANGED vars
    BY <1>8 DEF vars, DegreeCounts, Sorting, Pending
  <1>9. QED
    BY <1>1, <1>2, <1>3, <1>4, <1>5, <1>6, <1>7, <1>8, WalkSortsNothing
    DEF Next, Terminated, WalkActions

\* A new item without pending dependencies may join the queue.
LEMMA JoinsReady ==
  ASSUME NEW q \in Seq(Items), NEW o \in Seq(Items), NEW i \in Items,
         OnceReady(q, o), i \in sel, inDegree[i] = 0,
         i \notin ToSet(q) \union ToSet(o)
  PROVE  OnceReady(Append(q, i), o)
  <1>1. /\ ToSet(Append(q, i)) = ToSet(q) \union {i}
        /\ Distinct(Append(q, i))
    BY Joins DEF OnceReady
  <1>2. QED
    BY <1>1 DEF OnceReady

\* The queue and the order hold ready items, each once.
LEMMA ReadyStep == IInv /\ [Next]_vars => QueueReady'
  <1> SUFFICES ASSUME IInv, [Next]_vars, Sorting' PROVE QueueReady'
    BY DEF QueueReady
  <1> USE DEF IInv, TypeOK, declared, walk, sort
  <1>1. CASE CountDegrees
    <2>1. queue' = <<>> /\ out' = <<>> /\ pc' = "seed"
      BY <1>1 DEF CountDegrees, Unsorted
    <2>2. ToSet(queue') = {} /\ ToSet(out') = {}
      BY <2>1, NoItems
    <2>3. Distinct(queue') /\ Distinct(out')
      BY <2>1, NoItems
    <2>4. OnceReady(queue, out)'
      BY <2>2, <2>3 DEF OnceReady, Distinct
    <2>5. QED
      BY <2>1, <2>2, <2>4 DEF QueueReady
  <1>2. CASE Seed
    <2>1. /\ pc = "seed" /\ pc' = "seed" /\ scan' = scan + 1
          /\ UNCHANGED <<deps, sel, inDegree, out>>
          /\ OnceReady(queue, out) /\ ToSet(out) = {}
          /\ \A i \in ToSet(queue) : i < scan
      BY <1>2, NoItems DEF Seed, QueueReady, Sorting, Unsorted
    <2>2. PICK i \in Items : i = scan
      BY <1>2, SizeAssumption DEF Seed, Items
    <2>3. CASE queue' = queue
      <3>1. OnceReady(queue, out)'
        BY <2>1, <2>3 DEF OnceReady, Distinct
      <3>2. ToSet(queue) \subseteq Items
        BY DEF ToSet
      <3>3. \A k \in ToSet(queue) : k < scan'
        BY <2>1, <2>2, <3>2 DEF Items
      <3>4. QED
        BY <2>1, <2>3, <3>1, <3>3 DEF QueueReady
    <2>4. CASE queue' # queue
      <3>1. queue' = Append(queue, i) /\ i \in sel /\ inDegree[i] = 0
        BY <1>2, <2>2, <2>4 DEF Seed
      <3>2. i \notin ToSet(queue) \union ToSet(out)
        BY <2>1, <2>2 DEF Items
      <3>3. OnceReady(Append(queue, i), out)
        BY <2>1, <3>1, <3>2, JoinsReady
      <3>4. OnceReady(queue, out)'
        BY <2>1, <3>1, <3>3 DEF OnceReady, Distinct
      <3>5. ToSet(queue') = ToSet(queue) \union {i}
        BY <3>1, Joins
      <3>6. ToSet(queue) \subseteq Items
        BY DEF ToSet
      <3>7. \A k \in ToSet(queue') : k < scan'
        BY <2>1, <2>2, <3>5, <3>6 DEF Items
      <3>8. QED
        BY <2>1, <3>4, <3>7 DEF QueueReady
    <2>5. QED
      BY <2>3, <2>4
  <1>3. CASE Seeded \/ NoEdge \/ EdgesDropped
    <2>1. /\ Sorting /\ pc' \in {"sort", "edges"}
          /\ pc' = "edges" => pc = "edges"
          /\ UNCHANGED <<deps, sel, inDegree, queue, out>>
      BY <1>3 DEF Seeded, NoEdge, EdgesDropped, Sorting
    <2>2. OnceReady(queue, out)'
      BY <2>1 DEF QueueReady, OnceReady, Distinct
    <2>3. QED
      BY <2>1, <2>2 DEF QueueReady
  <1>4. CASE TakeHead
    <2>1. /\ pc = "sort" /\ pc' = "edges" /\ queue # <<>>
          /\ out' = Append(out, Head(queue)) /\ queue' = Tail(queue)
          /\ UNCHANGED <<deps, sel, inDegree>>
          /\ OnceReady(queue, out)
      BY <1>4 DEF TakeHead, QueueReady, Sorting
    <2>2. /\ Head(queue) \in Items /\ Head(queue) \in ToSet(queue)
          /\ Distinct(Tail(queue))
          /\ ToSet(Tail(queue)) = ToSet(queue) \ {Head(queue)}
      BY <2>1, HeadLeaves DEF OnceReady
    <2>3. Head(queue) \notin ToSet(out) /\ Distinct(out)
      BY <2>1, <2>2 DEF OnceReady
    <2>4. /\ ToSet(out') = ToSet(out) \union {Head(queue)}
          /\ Distinct(out') /\ out' # <<>>
      BY <2>1, <2>2, <2>3, Joins
    <2>5. OnceReady(Tail(queue), out')
      BY <2>1, <2>2, <2>4 DEF OnceReady
    <2>6. OnceReady(queue, out)'
      BY <2>1, <2>5 DEF OnceReady, Distinct
    <2>7. QED
      BY <2>1, <2>4, <2>6 DEF QueueReady
  <1>5. CASE DropEdge
    <2>1. /\ pc = "edges" /\ pc' = "edges" /\ out # <<>>
          /\ inDegree' = [inDegree EXCEPT ![scan] = @ - 1]
          /\ UNCHANGED <<deps, sel, out>>
          /\ OnceReady(queue, out)
      BY <1>5 DEF DropEdge, QueueReady, Sorting
    <2>2. PICK i \in sel : i = scan /\ i \in Items /\ inDegree[i] \in Nat \ {0}
      BY <1>5, EdgeWasPending
    <2>3. i \notin ToSet(queue) \union ToSet(out)
      BY <2>1, <2>2 DEF OnceReady
    <2>4. \A k \in Items : k # i => inDegree'[k] = inDegree[k]
      BY <2>1, <2>2
    <2>5. ToSet(queue) \union ToSet(out) \subseteq Items
      BY DEF ToSet
    <2>6. OnceReady(queue, out) /\ \A k \in ToSet(queue) \union ToSet(out) :
            inDegree'[k] = 0
      BY <2>1, <2>3, <2>4, <2>5 DEF OnceReady
    <2>7. CASE queue' = queue
      <3>1. OnceReady(queue, out)'
        BY <2>1, <2>6, <2>7 DEF OnceReady, Distinct
      <3>2. QED
        BY <2>1, <3>1 DEF QueueReady
    <2>8. CASE queue' # queue
      <3>1. queue' = Append(queue, i) /\ inDegree'[i] = 0
        BY <1>5, <2>2, <2>8 DEF DropEdge, Ready
      <3>2. ToSet(queue') = ToSet(queue) \union {i} /\ Distinct(queue')
        BY <2>1, <2>3, <3>1, Joins DEF OnceReady
      <3>3. OnceReady(queue, out)'
        BY <2>1, <2>2, <2>3, <2>6, <3>1, <3>2 DEF OnceReady, Distinct
      <3>4. QED
        BY <2>1, <3>3 DEF QueueReady
    <2>9. QED
      BY <2>7, <2>8
  <1>6. CASE Finish
    BY <1>6 DEF Finish, Sorting
  <1>7. CASE UNCHANGED vars
    BY <1>7 DEF vars, QueueReady, OnceReady, Sorting, Distinct
  <1>8. QED
    BY <1>1, <1>2, <1>3, <1>4, <1>5, <1>6, <1>7, WalkSortsNothing
    DEF Next, Terminated, WalkActions

LEMMA Invariant == Spec => []IInv
  <1>1. Init => IInv
    BY InitInv
  <1>2. IInv /\ [Next]_vars => IInv'
    BY TypeStep, SelectionStep, WalkStep, DegreeStep, ReadyStep DEF IInv
  <1>3. QED
    BY <1>1, <1>2, PTL DEF Spec

-----------------------------------------------------------------------------
(* Theorems.                                                               *)

\* Every variable stays in its domain: no degree goes below zero, no index
\* leaves the list.
THEOREM SortTypeCorrect == Spec => []TypeOK
  BY Invariant, PTL DEF IInv

\* A step of the sort places the next item of BootOrder, or does nothing
\* BootOrder sees.
LEMMA StepRefines == IInv /\ IInv' /\ [Next]_vars => [Boot!Next]_(Boot!vars)
  <1> SUFFICES ASSUME IInv, IInv', [Next]_vars PROVE [Boot!Next]_(Boot!vars)
    OBVIOUS
  <1> USE DEF declared, walk, sort, Boot!vars
  <1>1. CASE ValidateAll \/ Selected
    <2>1. sel = {} /\ out = <<>> /\ UNCHANGED <<deps, out>>
      BY <1>1 DEF IInv, Unsorted, ValidateAll, Selected
    <2>2. sel' \in SUBSET Items /\ \A i \in sel' : deps[i] \subseteq sel'
      BY <2>1 DEF IInv, TypeOK, Closed
    <2>3. QED
      BY <2>1, <2>2 DEF Boot!Next, Boot!Select
  <1>2. CASE TakeHead
    <2>1. /\ pc = "sort" /\ queue # <<>> /\ out' = Append(out, Head(queue))
          /\ UNCHANGED <<deps, sel>> /\ queue \in Seq(Items)
      BY <1>2 DEF TakeHead, IInv, TypeOK
    <2>2. PICK i \in Items : i = Head(queue) /\ i \in ToSet(queue)
      BY <2>1, HeadLeaves
    <2>3. i \in sel \ ToSet(out) /\ inDegree[i] = 0
      BY <2>1, <2>2 DEF IInv, QueueReady, OnceReady, Sorting
    <2>4. Cardinality(Pending(i)) = 0 /\ Pending(i) = deps[i] \ ToSet(out)
      BY <2>1, <2>3 DEF IInv, DegreeCounts, Sorting, Pending
    <2>5. deps[i] \subseteq ToSet(out)
      <3>1. deps[i] \ ToSet(out) \in SUBSET Items
        BY <2>2 DEF IInv, TypeOK
      <3>2. QED
        BY <2>4, <3>1, Counting
    <2>6. Boot!Place(i)
      BY <2>1, <2>2, <2>3, <2>5 DEF Boot!Place, Boot!ToSet, ToSet
    <2>7. QED
      BY <2>6 DEF Boot!Next
  <1>3. CASE UNCHANGED <<deps, sel, out>>
    BY <1>3
  <1>4. QED
    BY <1>1, <1>2, <1>3 DEF vars, Next, Terminated, Missing, Leave,
      SkipVisited, FindCycle, Visit, CountDegrees, Seed, Seeded, DropEdge,
      NoEdge, EdgesDropped, Finish

\* SortProviders, SortCapabilities and selectProvidersForRun order their items
\* the way BootOrder does, for any number of items and any declarations.
THEOREM SortRefines == Spec => Implements
  <1>1. Init => Boot!Init
    BY DEF Init, Boot!Init
  <1>2. QED
    BY <1>1, StepRefines, Invariant, PTL DEF Spec, Implements, Boot!Spec

\* Placing one ready item after the other yields such an order: the argument
\* the code relies on when App.Run starts providers in the order returned.
THEOREM PlacesInOrder == Boot!Spec => []Boot!Ordered
  <1> DEFINE TypedOrder == out \in Seq(Items) /\ Boot!Ordered
  <1>1. Boot!Init => TypedOrder
    BY DEF Boot!Init, Boot!Ordered
  <1>2. TypedOrder /\ [Boot!Next]_(Boot!vars) => TypedOrder'
    <2> SUFFICES ASSUME TypedOrder, [Boot!Next]_(Boot!vars) PROVE TypedOrder'
      OBVIOUS
    <2>1. CASE Boot!Select \/ UNCHANGED Boot!vars
      <3>1. UNCHANGED out /\ (UNCHANGED deps)
        BY <2>1 DEF Boot!Select, Boot!vars
      <3>2. QED
        BY <3>1 DEF Boot!Ordered
    <2>2. ASSUME NEW i \in Items, Boot!Place(i)
          PROVE  TypedOrder'
      <3>1. PICK n \in Nat : n = Len(out)
        OBVIOUS
      <3>2. /\ out' \in Seq(Items) /\ DOMAIN out = 1 .. n
            /\ DOMAIN out' = 1 .. n + 1 /\ out'[n + 1] = i
            /\ \A k \in 1 .. n : out'[k] = out[k]
            /\ UNCHANGED deps
        BY <2>2, <3>1 DEF Boot!Place
      <3>3. \A k \in 1 .. n : out[k] # i
        BY <2>2, <3>2 DEF Boot!Place, Boot!ToSet
      <3>4. \A d \in deps[i] : \E l \in 1 .. n : out[l] = d
        BY <2>2, <3>2 DEF Boot!Place, Boot!ToSet
      <3>5. \A k, l \in 1 .. n + 1 : out'[k] = out'[l] => k = l
        <4>1. \A k, l \in 1 .. n : out[k] = out[l] => k = l
          BY <3>2 DEF Boot!Ordered
        <4>2. \A k \in 1 .. n + 1 : k \in 1 .. n \/ k = n + 1
          OBVIOUS
        <4>3. QED
          BY <3>2, <3>3, <4>1, <4>2
      <3>6. ASSUME NEW k \in 1 .. n + 1, NEW d \in deps[out'[k]]
            PROVE  \E l \in 1 .. n + 1 : l < k /\ out'[l] = d
        <4>1. CASE k = n + 1
          <5>1. PICK l \in 1 .. n : out[l] = d
            BY <3>2, <3>4, <4>1
          <5>2. QED
            BY <3>2, <4>1, <5>1
        <4>2. CASE k \in 1 .. n
          <5>1. PICK l \in 1 .. n : l < k /\ out[l] = d
            BY <3>2, <4>2 DEF Boot!Ordered
          <5>2. QED
            BY <3>2, <5>1
        <4>3. QED
          BY <4>1, <4>2
      <3>7. QED
        BY <3>2, <3>5, <3>6 DEF Boot!Ordered
    <2>3. QED
      BY <2>1, <2>2 DEF Boot!Next
  <1>3. QED
    BY <1>1, <1>2, PTL DEF Boot!Spec

\* In what they return, and all along, an item stands after all of its
\* dependencies and only once.
THEOREM SortedByDependency == Spec => []DependenciesFirst
  BY SortRefines, PlacesInOrder, PTL DEF Implements, DependenciesFirst

-----------------------------------------------------------------------------
(* The verdict: what is selected, and when a cycle or a missing name is    *)
(* reported.                                                               *)

\* The walk stays among the items the target needs, none of which lacks a name, and
\* every active item is a dependency of the one below.
Guided ==
    /\ pc = "validate" => target = All
    /\ pc = "visit" =>
         /\ target # All
         /\ visited \union ToSet(stack) \subseteq Needed \ lacking
         /\ target \in lacking \union visited \union ToSet(stack)
         /\ \A i \in Items : todo[i] \subseteq deps[i]
         /\ \A k \in 1 .. Len(stack) - 1 : stack[k + 1] \in deps[stack[k]]

Chosen ==
    pc \in {"degrees", "seed", "sort", "edges", "sorted"} =>
      sel = Needed /\ Needed \intersect lacking = {}

\* What is placed is closed and acyclic by itself.
Placed(o) ==
    /\ Closed(ToSet(o)) /\ Acyclic(ToSet(o))
    /\ Cardinality(ToSet(o)) = Len(o)

\* An item with no dependency left is in the queue, or placed.
Queued ==
    /\ pc = "seed" => \A j \in sel : j < scan /\ inDegree[j] = 0 => j \in ToSet(queue)
    /\ pc \in {"sort", "edges"} =>
         \A j \in sel : inDegree[j] = 0 => j \in ToSet(queue) \union ToSet(out)

VInv == IInv /\ Guided /\ Chosen /\ Placed(out) /\ Queued /\ Verdict

\* What the target needs is the least closed set around it.
LEMMA LeastClosed ==
  ASSUME TypeOK
  PROVE  /\ Needed \subseteq Items
         /\ target = All => Needed = Items
         /\ target # All => /\ target \in Needed
                            /\ Closed(Needed)
                            /\ \A S \in SUBSET Items :
                                 target \in S /\ Closed(S) => Needed \subseteq S
  <1>1. Needed \subseteq Items /\ (target = All => Needed = Items)
    BY DEF Needed
  <1>2. ASSUME target # All
        PROVE  /\ target \in Needed
               /\ \A S \in SUBSET Items : target \in S /\ Closed(S) => Needed \subseteq S
    BY <1>2 DEF TypeOK, Needed
  <1>3. ASSUME target # All, NEW i \in Needed, NEW d \in deps[i]
        PROVE  d \in Needed
    <2>1. d \in Items
      BY <1>1 DEF TypeOK
    <2>2. ASSUME NEW S \in SUBSET Items, target \in S, Closed(S)
          PROVE  d \in S
      BY <1>2, <1>3, <2>2 DEF Closed
    <2>3. QED
      BY <1>3, <2>1, <2>2 DEF Needed
  <1>4. QED
    BY <1>1, <1>2, <1>3 DEF Closed

\* The declarations are fixed.
LEMMA DeclaredFixed ==
  ASSUME [Next]_vars
  PROVE  UNCHANGED <<deps, lacking, target>>
  BY DEF vars, declared, Next, Missing, ValidateAll, Leave, Selected, SkipVisited,
    FindCycle, Visit, CountDegrees, Seed, Seeded, TakeHead, DropEdge, NoEdge,
    EdgesDropped, Finish, Terminated

LEMMA NeededFixed ==
  ASSUME UNCHANGED <<deps, lacking, target>>
  PROVE  /\ Needed' = Needed
         /\ \A S : (Closed(S)' <=> Closed(S)) /\ (Acyclic(S)' <=> Acyclic(S))
  <1>1. \A S : (Closed(S)' <=> Closed(S)) /\ (Acyclic(S)' <=> Acyclic(S))
    BY DEF Closed, Acyclic
  <1>2. Needed' = Needed
    BY <1>1 DEF Needed
  <1>3. QED
    BY <1>1, <1>2

\* An item whose dependencies are all placed closes no cycle.
LEMMA PlacingKeepsAcyclic ==
  ASSUME NEW S, Closed(S), Acyclic(S), NEW i, i \notin S, deps[i] \subseteq S
  PROVE  Closed(S \union {i}) /\ Acyclic(S \union {i})
  <1>1. Closed(S \union {i})
    BY DEF Closed
  <1>2. SUFFICES ASSUME NEW T \in SUBSET (S \union {i}), T # {}
                 PROVE  \E j \in T : deps[j] \intersect T = {}
    BY <1>1 DEF Acyclic
  <1>3. CASE T \ {i} = {}
    <2>1. i \in T /\ deps[i] \intersect T = {}
      BY <1>2, <1>3
    <2>2. QED
      BY <2>1
  <1>4. CASE T \ {i} # {}
    <2>1. T \ {i} \in (SUBSET S) \ {{}}
      BY <1>4
    <2>2. PICK j \in T \ {i} : deps[j] \intersect (T \ {i}) = {}
      BY <2>1 DEF Acyclic
    <2>3. j \in S /\ i \notin deps[j]
      BY <2>2 DEF Closed
    <2>4. QED
      BY <2>2, <2>3
  <1>5. QED
    BY <1>3, <1>4

\* The walk goes from needed items to needed items.
LEMMA GuidedStep == VInv /\ [Next]_vars => Guided'
  <1> SUFFICES ASSUME VInv, [Next]_vars PROVE Guided'
    OBVIOUS
  <1>1. TypeOK /\ Guided
    BY DEF VInv, IInv
  <1>2. UNCHANGED <<deps, lacking, target>> /\ Needed' = Needed
    BY DeclaredFixed, NeededFixed
  <1>3. target # All => /\ Needed \subseteq Items /\ Closed(Needed)
    BY <1>1, LeastClosed
  <1> USE DEF declared, walk, sort
  <1>4. CASE Leave
    <2>1. PICK n \in Nat : n = Len(stack)
      BY <1>1 DEF TypeOK
    <2>2. /\ pc = "visit" /\ pc' = "visit" /\ stack # <<>> /\ stack' = Front(stack)
          /\ visited' = visited \union {Last(stack)} /\ todo' = todo
      BY <1>4 DEF Leave
    <2>3. /\ Len(stack') = n - 1
          /\ \A k \in 1 .. n - 1 : stack'[k] = stack[k]
          /\ ToSet(stack) = ToSet(stack') \union {Last(stack)}
      BY <1>1, <2>1, <2>2, LastLeaves DEF TypeOK
    <2>4. \A k \in 1 .. (n - 1) - 1 : stack'[k + 1] \in deps[stack'[k]]
      <3>1. SUFFICES ASSUME NEW k \in 1 .. (n - 1) - 1
                     PROVE  stack'[k + 1] \in deps[stack'[k]]
        OBVIOUS
      <3>2. k \in 1 .. n - 1 /\ k + 1 \in 1 .. n - 1
        OBVIOUS
      <3>3. QED
        BY <1>1, <2>1, <2>2, <2>3, <3>2 DEF Guided
    <2>5. QED
      BY <1>1, <1>2, <2>2, <2>3, <2>4 DEF Guided
  <1>5. ASSUME NEW d \in Items, SkipVisited(d)
        PROVE  Guided'
    <2>1. /\ pc = "visit" /\ pc' = "visit" /\ stack # <<>>
          /\ todo' = [todo EXCEPT ![Last(stack)] = @ \ {d}]
          /\ UNCHANGED <<stack, visited>>
      BY <1>5 DEF SkipVisited
    <2>2. \A i \in Items : todo'[i] \subseteq todo[i]
      BY <1>1, <2>1 DEF TypeOK
    <2>3. QED
      BY <1>1, <1>2, <2>1, <2>2 DEF Guided
  <1>6. ASSUME NEW d \in Items, Visit(d)
        PROVE  Guided'
    <2>1. /\ pc = "visit" /\ stack # <<>> /\ d \in todo[Last(stack)]
          /\ visited' = visited
      BY <1>6 DEF Visit
    <2>2. PICK n \in Nat : n = Len(stack)
      BY <1>1 DEF TypeOK
    <2>3. /\ Last(stack) \in Items /\ Last(stack) \in ToSet(stack)
          /\ Last(stack) = stack[n] /\ n >= 1
      BY <1>1, <2>1, <2>2, LastLeaves DEF TypeOK
    <2>4. d \in deps[Last(stack)] /\ d \in Needed
      BY <1>1, <1>3, <2>1, <2>3 DEF Guided, Closed
    <2>5. CASE d \in lacking
      BY <1>6, <2>5 DEF Visit, Guided
    <2>6. CASE d \notin lacking
      <3>1. /\ stack' = Append(stack, d) /\ pc' = "visit"
            /\ todo' = [todo EXCEPT ![Last(stack)] = @ \ {d}]
        BY <1>6, <2>1, <2>6 DEF Visit
      <3>2. /\ Len(stack') = n + 1 /\ stack'[n + 1] = d
            /\ \A k \in 1 .. n : stack'[k] = stack[k]
            /\ ToSet(stack') = ToSet(stack) \union {d}
        BY <1>1, <2>2, <3>1, Joins DEF TypeOK
      <3>3. \A i \in Items : todo'[i] \subseteq todo[i]
        BY <1>1, <3>1 DEF TypeOK
      <3>4. ASSUME NEW k \in 1 .. n
            PROVE  stack'[k + 1] \in deps[stack'[k]]
        <4>1. CASE k = n
          BY <2>3, <2>4, <3>2, <4>1
        <4>2. CASE k # n
          <5>1. k \in 1 .. n - 1 /\ k + 1 \in 1 .. n
            BY <4>2
          <5>2. QED
            BY <1>1, <2>1, <2>2, <3>2, <5>1 DEF Guided
        <4>3. QED
          BY <4>1, <4>2
      <3>5. \A k \in 1 .. Len(stack') - 1 : stack'[k + 1] \in deps[stack'[k]]
        BY <3>2, <3>4
      <3>6. QED
        BY <1>1, <1>2, <2>1, <2>4, <2>6, <3>1, <3>2, <3>3, <3>5 DEF Guided
    <2>7. QED
      BY <2>5, <2>6
  <1>7. ASSUME NEW d \in Items, FindCycle(d) PROVE Guided'
    BY <1>7 DEF FindCycle, Guided
  <1>8. CASE Missing \/ ValidateAll \/ Selected \/ SortActions
    BY <1>8 DEF Missing, ValidateAll, Selected, SortActions, CountDegrees, Seed, Seeded,
      TakeHead, DropEdge, NoEdge, EdgesDropped, Finish, Guided
  <1>9. CASE UNCHANGED vars
    BY <1>1, <1>2, <1>9 DEF vars, Guided
  <1>10. QED
    BY <1>4, <1>5, <1>6, <1>7, <1>8, <1>9 DEF Next, Terminated, SortActions

\* What is sorted is what is needed: visited items are closed and hold the target.
LEMMA ChosenStep == VInv /\ [Next]_vars => Chosen'
  <1> SUFFICES ASSUME VInv, [Next]_vars PROVE Chosen'
    OBVIOUS
  <1>1. TypeOK /\ Guided /\ Chosen /\ WalkClosed
    BY DEF VInv, IInv
  <1>2. UNCHANGED <<deps, lacking, target>> /\ Needed' = Needed
    BY DeclaredFixed, NeededFixed
  <1> USE DEF declared, walk, sort
  <1>3. CASE ValidateAll
    <2>1. target = All /\ sel' = Items /\ lacking = {}
      BY <1>1, <1>3 DEF ValidateAll, Guided
    <2>2. QED
      BY <1>1, <1>2, <2>1, LeastClosed DEF Chosen
  <1>4. CASE Selected
    <2>1. pc = "visit" /\ stack = <<>> /\ target \notin lacking /\ sel' = visited
      BY <1>4 DEF Selected
    <2>2. /\ target # All /\ target \in visited /\ Closed(visited)
          /\ visited \subseteq Needed \ lacking /\ visited \in SUBSET Items
      BY <1>1, <2>1, NoItems DEF Guided, WalkClosed, TypeOK
    <2>3. Needed \subseteq visited
      BY <1>1, <2>2, LeastClosed
    <2>4. QED
      BY <1>2, <2>1, <2>2, <2>3 DEF Chosen
  <1>5. CASE SortActions
    <2>1. sel' = sel /\ pc \in {"degrees", "seed", "sort", "edges"}
      BY <1>5 DEF SortActions, CountDegrees, Seed, Seeded, TakeHead, DropEdge, NoEdge,
        EdgesDropped, Finish
    <2>2. QED
      BY <1>1, <1>2, <2>1 DEF Chosen
  <1>6. CASE Missing \/ Leave
    BY <1>6 DEF Missing, Leave, Chosen
  <1>7. ASSUME NEW d \in Items, SkipVisited(d) \/ FindCycle(d) \/ Visit(d)
        PROVE  Chosen'
    <2>1. pc' \in {"visit", "cycle", "missing"}
      BY <1>7 DEF SkipVisited, FindCycle, Visit
    <2>2. QED
      BY <2>1 DEF Chosen
  <1>8. CASE UNCHANGED vars
    BY <1>1, <1>2, <1>8 DEF vars, Chosen
  <1>9. QED
    BY <1>3, <1>4, <1>5, <1>6, <1>7, <1>8 DEF Next, Terminated, SortActions

\* The order grows by items all of whose dependencies are in it.
LEMMA PlacedStep == VInv /\ IInv' /\ [Next]_vars => Placed(out)'
  <1> SUFFICES ASSUME VInv, IInv', [Next]_vars PROVE Placed(out)'
    OBVIOUS
  <1>1. IInv /\ TypeOK /\ Placed(out)
    BY DEF VInv, IInv
  <1>2. UNCHANGED <<deps, lacking, target>>
    BY DeclaredFixed
  <1>3. [Boot!Next]_(Boot!vars)
    BY <1>1, StepRefines
  <1>4. CASE out' = out
    BY <1>1, <1>2, <1>4 DEF Placed, Closed, Acyclic
  <1>5. ASSUME NEW i \in Items, Boot!Place(i)
        PROVE  Placed(out)'
    <2>1. /\ i \notin ToSet(out) /\ deps[i] \subseteq ToSet(out)
          /\ out' = Append(out, i)
      BY <1>5 DEF Boot!Place, Boot!ToSet, ToSet
    <2>2. ToSet(out') = ToSet(out) \union {i} /\ Len(out') = Len(out) + 1
      BY <1>1, <2>1, Joins DEF TypeOK
    <2>3. Closed(ToSet(out')) /\ Acyclic(ToSet(out'))
      BY <1>1, <2>1, <2>2, PlacingKeepsAcyclic DEF Placed
    <2>4. Cardinality(ToSet(out')) = Cardinality(ToSet(out)) + 1
      <3>1. ToSet(out) \in SUBSET Items /\ ToSet(out') \in SUBSET Items
        <4>1. ToSet(out) \subseteq Items
          BY <1>1 DEF TypeOK, ToSet
        <4>2. QED
          BY <2>2, <4>1
      <3>2. ToSet(out') \ {i} = ToSet(out) /\ i \in ToSet(out')
        BY <2>1, <2>2
      <3>3. QED
        BY <3>1, <3>2, Counting
    <2>5. QED
      BY <1>1, <1>2, <2>2, <2>3, <2>4 DEF Placed, Closed, Acyclic
  <1>6. QED
    BY <1>3, <1>4, <1>5 DEF Boot!Next, Boot!Select, Boot!vars

\* An item joins the queue with its last dependency, and leaves it for the order.
LEMMA QueuedStep == VInv /\ [Next]_vars => Queued'
  <1> SUFFICES ASSUME VInv, [Next]_vars PROVE Queued'
    OBVIOUS
  <1>1. IInv /\ TypeOK /\ QueueReady /\ Queued
    BY DEF VInv, IInv
  <1> USE DEF declared, walk, sort
  <1>2. CASE CountDegrees
    <2>1. pc' = "seed" /\ scan' = 1 /\ sel' = sel
      BY <1>2 DEF CountDegrees
    <2>2. \A j \in sel : ~(j < 1)
      BY <1>1 DEF TypeOK, Items
    <2>3. QED
      BY <2>1, <2>2 DEF Queued
  <1>3. CASE Seed
    <2>1. /\ pc = "seed" /\ pc' = "seed" /\ scan' = scan + 1
          /\ UNCHANGED <<sel, inDegree>>
          /\ queue' = IF scan \in sel /\ inDegree[scan] = 0
                      THEN Append(queue, scan) ELSE queue
      BY <1>3 DEF Seed
    <2>2. scan \in Items
      BY <1>1, <1>3, SizeAssumption DEF Seed, TypeOK, Items
    <2>3. /\ ToSet(queue) \subseteq ToSet(queue')
          /\ scan \in sel /\ inDegree[scan] = 0 => scan \in ToSet(queue')
      <3>1. ToSet(Append(queue, scan)) = ToSet(queue) \union {scan}
        BY <1>1, <2>2, Joins DEF TypeOK
      <3>2. QED
        BY <2>1, <3>1
    <2>4. \A j \in sel : j < scan' => j < scan \/ j = scan
      BY <1>1, <2>1, <2>2 DEF TypeOK, Items
    <2>5. QED
      BY <1>1, <2>1, <2>3, <2>4 DEF Queued
  <1>4. CASE Seeded
    <2>1. pc = "seed" /\ pc' = "sort" /\ UNCHANGED <<sel, inDegree, queue, out>> /\ scan > N
      BY <1>4 DEF Seeded
    <2>2. \A j \in sel : j < scan
      BY <1>1, <2>1, SizeAssumption DEF TypeOK, Items
    <2>3. QED
      BY <1>1, <2>1, <2>2 DEF Queued
  <1>5. CASE TakeHead
    <2>1. /\ pc = "sort" /\ pc' = "edges" /\ queue # <<>>
          /\ out' = Append(out, Head(queue)) /\ queue' = Tail(queue)
          /\ UNCHANGED <<sel, inDegree>>
      BY <1>5 DEF TakeHead
    <2>2. /\ Head(queue) \in Items
          /\ ToSet(queue') = ToSet(queue) \ {Head(queue)}
      BY <1>1, <2>1, HeadLeaves DEF TypeOK, QueueReady, OnceReady, Sorting
    <2>3. ToSet(out') = ToSet(out) \union {Head(queue)}
      BY <1>1, <2>1, <2>2, Joins DEF TypeOK
    <2>4. QED
      BY <1>1, <2>1, <2>2, <2>3 DEF Queued
  <1>6. CASE DropEdge
    <2>1. /\ pc = "edges" /\ pc' = "edges"
          /\ inDegree' = [inDegree EXCEPT ![scan] = @ - 1]
          /\ queue' = IF Ready(inDegree'[scan]) THEN Append(queue, scan) ELSE queue
          /\ UNCHANGED <<sel, out>>
      BY <1>6 DEF DropEdge
    <2>2. scan \in sel /\ scan \in Items
      BY <1>1, <1>6, EdgeWasPending
    <2>3. /\ ToSet(queue) \subseteq ToSet(queue')
          /\ inDegree'[scan] = 0 => scan \in ToSet(queue')
      <3>1. ToSet(Append(queue, scan)) = ToSet(queue) \union {scan}
        BY <1>1, <2>2, Joins DEF TypeOK
      <3>2. QED
        BY <2>1, <3>1 DEF Ready
    <2>4. \A j \in sel : j # scan => inDegree'[j] = inDegree[j]
      BY <1>1, <2>1 DEF TypeOK
    <2>5. QED
      BY <1>1, <2>1, <2>3, <2>4 DEF Queued
  <1>7. CASE NoEdge \/ EdgesDropped
    <2>1. /\ pc = "edges" /\ pc' \in {"sort", "edges"}
          /\ UNCHANGED <<sel, inDegree, queue, out>>
      BY <1>7 DEF NoEdge, EdgesDropped
    <2>2. QED
      BY <1>1, <2>1 DEF Queued
  <1>8. CASE Finish
    BY <1>8 DEF Finish, Queued
  <1>9. CASE WalkActions
    BY <1>1, <1>9, WalkSortsNothing DEF Sorting, Queued
  <1>10. CASE UNCHANGED vars
    BY <1>1, <1>10 DEF vars, Queued
  <1>11. QED
    BY <1>2, <1>3, <1>4, <1>5, <1>6, <1>7, <1>8, <1>9, <1>10
    DEF Next, Terminated, WalkActions

\* An edge back to an active item closes a cycle of active items.
LEMMA BackEdge ==
  ASSUME VInv, NEW d \in Items, FindCycle(d)
  PROVE  ~Acyclic(Needed)
  <1>1. /\ TypeOK /\ Guided /\ pc = "visit" /\ stack # <<>>
        /\ d \in todo[Last(stack)] /\ d \in ToSet(stack)
    BY DEF VInv, IInv, FindCycle
  <1>2. PICK n \in Nat : n = Len(stack)
    BY <1>1 DEF TypeOK
  <1>3. /\ n >= 1 /\ stack[n] \in Items /\ d \in deps[stack[n]]
        /\ DOMAIN stack = 1 .. n
    BY <1>1, <1>2, LastLeaves DEF TypeOK, Guided
  <1>4. PICK m \in 1 .. n : stack[m] = d
    BY <1>1, <1>3 DEF ToSet
  <1> DEFINE T == {stack[k] : k \in m .. n}
  <1>5. T \in (SUBSET Needed) \ {{}}
    <2>1. \A k \in m .. n : stack[k] \in ToSet(stack)
      BY <1>3, <1>4 DEF ToSet
    <2>2. ToSet(stack) \subseteq Needed
      BY <1>1 DEF Guided
    <2>3. d \in T
      BY <1>4
    <2>4. QED
      BY <2>1, <2>2, <2>3
  <1>6. ASSUME NEW k \in m .. n
        PROVE  deps[stack[k]] \intersect T # {}
    <2>1. CASE k = n
      <3>1. d \in T
        BY <1>4
      <3>2. QED
        BY <1>3, <2>1, <3>1
    <2>2. CASE k # n
      <3>1. k \in 1 .. n - 1 /\ k + 1 \in m .. n
        BY <1>4, <2>2
      <3>2. stack[k + 1] \in deps[stack[k]] /\ stack[k + 1] \in T
        BY <1>1, <1>2, <3>1 DEF Guided
      <3>3. QED
        BY <3>2
    <2>3. QED
      BY <2>1, <2>2
  <1>7. \A i \in T : deps[i] \intersect T # {}
    BY <1>6
  <1> HIDE DEF T
  <1>8. QED
    BY <1>5, <1>7 DEF Acyclic

\* When the queue runs dry every item that is left depends on one that is left.
LEMMA LeftOver ==
  ASSUME VInv, pc = "sort", queue = <<>>
  PROVE  /\ Len(out) = Cardinality(sel) => ToSet(out) = sel
         /\ Len(out) # Cardinality(sel) => ~Acyclic(sel)
  <1>1. /\ TypeOK /\ Placed(out) /\ Queued /\ Closed(sel) /\ QueueReady /\ DegreeCounts
    BY DEF VInv, IInv
  <1>2. ToSet(out) \in SUBSET sel /\ ToSet(queue) = {}
    BY <1>1, NoItems DEF QueueReady, OnceReady, Sorting
  <1>3. IsFiniteSet(sel)
    <2>1. IsFiniteSet(Items)
      BY SizeAssumption, FS_Interval DEF Items
    <2>2. QED
      BY <1>1, <2>1, FS_Subset DEF TypeOK
  <1>4. Cardinality(sel) = Cardinality(ToSet(out)) => sel = ToSet(out)
    BY <1>2, <1>3, FS_Subset
  <1>5. ASSUME Len(out) # Cardinality(sel)
        PROVE  ~Acyclic(sel)
    <2> DEFINE T == sel \ ToSet(out)
    <2>1. T # {}
      <3>1. ToSet(out) # sel
        BY <1>1, <1>5 DEF Placed
      <3>2. QED
        BY <1>2, <3>1
    <2>2. ASSUME NEW j \in T
          PROVE  deps[j] \intersect T # {}
      <3>1. j \in Items /\ deps[j] \subseteq sel /\ deps[j] \subseteq Items
        BY <1>1 DEF TypeOK, Closed
      <3>2. inDegree[j] # 0
        BY <1>1, <1>2 DEF Queued
      <3>3. inDegree[j] = Cardinality(deps[j] \ ToSet(out))
        BY <1>1 DEF DegreeCounts, Sorting, Pending
      <3>4. deps[j] \ ToSet(out) # {}
        BY <3>1, <3>2, <3>3, Counting
      <3>5. QED
        BY <3>1, <3>4
    <2>3. T \in (SUBSET sel) \ {{}}
      BY <2>1
    <2> HIDE DEF T
    <2>4. QED
      BY <2>2, <2>3 DEF Acyclic
  <1>6. QED
    BY <1>1, <1>4, <1>5 DEF Placed

\* Each outcome is reported for its reason.
LEMMA VerdictStep == VInv /\ Chosen' /\ [Next]_vars => Verdict'
  <1> SUFFICES ASSUME VInv, Chosen', [Next]_vars PROVE Verdict'
    OBVIOUS
  <1>1. TypeOK /\ Guided /\ Chosen /\ Placed(out) /\ Verdict
    BY DEF VInv, IInv
  <1>2. /\ UNCHANGED <<deps, lacking, target>> /\ Needed' = Needed
        /\ Acyclic(Needed)' <=> Acyclic(Needed)
    <2>1. UNCHANGED <<deps, lacking, target>>
      BY DeclaredFixed
    <2>2. Needed' = Needed
      BY <2>1, NeededFixed
    <2>3. QED
      BY <2>1, <2>2 DEF Acyclic
  <1>3. pc' \in {"degrees", "seed", "sort", "edges", "sorted"} => sel' = Needed
    BY <1>2 DEF Chosen
  <1> USE DEF declared, walk, sort
  <1>4. SUFFICES
          /\ pc' = "sorted" => /\ Acyclic(Needed) /\ Needed \intersect lacking = {}
                              /\ ToSet(out') = Needed
          /\ pc' = "cycle" => ~Acyclic(Needed)
          /\ pc' = "missing" => Needed \intersect lacking # {}
    <2> HIDE DEF declared, walk, sort
    <2>1. QED
      BY <1>2, <1>3 DEF Verdict
  <1>5. CASE Missing
    <2>1. /\ pc' = "missing"
          /\ (pc = "validate" /\ lacking # {}) \/ (pc = "visit" /\ target \in lacking)
      BY <1>5 DEF Missing
    <2>2. Needed \intersect lacking # {}
      <3>1. CASE pc = "validate"
        BY <1>1, <2>1, <3>1, LeastClosed DEF Guided, TypeOK
      <3>2. CASE pc = "visit"
        BY <1>1, <2>1, <3>2, LeastClosed DEF Guided
      <3>3. QED
        BY <2>1, <3>1, <3>2
    <2>3. QED
      BY <2>1, <2>2
  <1>6. ASSUME NEW d \in Items, Visit(d), pc' = "missing"
        PROVE  Needed \intersect lacking # {}
    <2>1. pc = "visit" /\ stack # <<>> /\ d \in todo[Last(stack)] /\ d \in lacking
      BY <1>6 DEF Visit
    <2>2. Last(stack) \in Items /\ Last(stack) \in ToSet(stack)
      BY <1>1, <2>1, LastLeaves DEF TypeOK
    <2>3. Last(stack) \in Needed /\ d \in deps[Last(stack)] /\ target # All
      BY <1>1, <2>1, <2>2 DEF Guided
    <2>4. d \in Needed
      BY <1>1, <2>3, LeastClosed DEF Closed
    <2>5. QED
      BY <2>1, <2>4
  <1>7. ASSUME NEW d \in Items, FindCycle(d)
        PROVE  pc' = "cycle" /\ ~Acyclic(Needed)
    BY <1>7, BackEdge DEF FindCycle
  <1>8. CASE Finish
    <2>1. /\ pc = "sort" /\ queue = <<>> /\ out' = out
          /\ pc' = IF Len(out) = Cardinality(sel) THEN "sorted" ELSE "cycle"
      BY <1>8 DEF Finish
    <2>2. sel = Needed /\ Needed \intersect lacking = {}
      BY <1>1, <2>1 DEF Chosen
    <2>3. CASE Len(out) = Cardinality(sel)
      <3>1. ToSet(out) = Needed
        BY <2>1, <2>2, <2>3, LeftOver
      <3>2. QED
        BY <1>1, <2>1, <2>2, <2>3, <3>1 DEF Placed
    <2>4. CASE Len(out) # Cardinality(sel)
      BY <2>1, <2>2, <2>4, LeftOver
    <2>5. QED
      BY <2>3, <2>4
  <1>9. CASE UNCHANGED vars
    BY <1>1, <1>9 DEF vars, Verdict
  <1>10. ASSUME NEW d \in Items, Visit(d) \/ SkipVisited(d)
         PROVE  pc' \in {"visit", "missing"} /\ (pc' = "missing" => Visit(d))
    BY <1>10 DEF Visit, SkipVisited
  <1>11. ASSUME ValidateAll \/ Leave \/ Selected \/ CountDegrees \/ Seed \/ Seeded
                \/ TakeHead \/ DropEdge \/ NoEdge \/ EdgesDropped
         PROVE  pc' \in {"visit", "degrees", "seed", "sort", "edges"}
    BY <1>11 DEF ValidateAll, Leave, Selected, CountDegrees, Seed, Seeded, TakeHead,
      DropEdge, NoEdge, EdgesDropped
  <1>12. QED
    BY <1>5, <1>6, <1>7, <1>8, <1>9, <1>10, <1>11 DEF Next, Terminated

LEMMA VerdictInit == Init => VInv
  <1> SUFFICES ASSUME Init PROVE VInv
    OBVIOUS
  <1>1. IInv /\ TypeOK
    BY InitInv DEF IInv
  <1>2. Guided
    <2>1. CASE target \in Items \ lacking
      <3>1. stack = <<target>> /\ target # All /\ target \in Needed
        BY <1>1, <2>1, LeastClosed DEF Init, Items, All
      <3>2. ToSet(stack) = {target} /\ Len(stack) = 1
        BY <3>1 DEF ToSet
      <3>3. QED
        BY <2>1, <3>1, <3>2 DEF Init, Guided
    <2>2. CASE target \notin Items \ lacking
      <3>1. stack = <<>> /\ ToSet(stack) = {}
        BY <2>2, NoItems DEF Init
      <3>2. QED
        BY <2>2, <3>1 DEF Init, Guided
    <2>3. QED
      BY <2>1, <2>2
  <1>3. Placed(out)
    <2>1. out = <<>> /\ ToSet(out) = {} /\ Len(out) = 0
      BY NoItems DEF Init
    <2>2. QED
      BY <2>1, FS_EmptySet DEF Placed, Closed, Acyclic
  <1>4. Chosen /\ Queued /\ Verdict
    BY DEF Init, Chosen, Queued, Verdict
  <1>5. QED
    BY <1>1, <1>2, <1>3, <1>4 DEF VInv

\* What selectProvidersForRun and SortProviders report is right, for any number of
\* items and any declarations: an order of exactly what the target needs, or a cycle
\* or a missing name among it.
THEOREM VerdictIsRight == Spec => []Verdict
  <1>1. VInv /\ [Next]_vars => VInv'
    <2>1. VInv /\ [Next]_vars => IInv'
      BY TypeStep, SelectionStep, WalkStep, DegreeStep, ReadyStep DEF VInv, IInv
    <2>2. QED
      BY <2>1, GuidedStep, ChosenStep, PlacedStep, QueuedStep, VerdictStep DEF VInv
  <1>2. VInv => Verdict
    BY DEF VInv
  <1>3. QED
    BY VerdictInit, <1>1, <1>2, PTL DEF Spec
=============================================================================
