----------------------------- MODULE BootOrder -----------------------------
(***************************************************************************)
(* What sorting by dependency promises, without saying how: a set of items *)
(* closed under dependencies is put in an order in which every item comes  *)
(* after the items it depends on.                                          *)
(***************************************************************************)
EXTENDS Integers, Sequences, SequencesExt

CONSTANT Items

VARIABLES deps,     \* deps[i]: the items that i depends on
          sel,      \* the items to order
          out       \* those ordered so far

vars == <<deps, sel, out>>

Init ==
    /\ deps \in [Items -> SUBSET Items]
    /\ sel = {}
    /\ out = <<>>

\* The items are chosen, and whatever they depend on with them.
Select ==
    /\ sel = {} /\ out = <<>>
    /\ sel' \in SUBSET Items
    /\ \A i \in sel' : deps[i] \subseteq sel'
    /\ UNCHANGED <<deps, out>>

\* An item whose dependencies have all been placed comes next.
Place(i) ==
    /\ i \in sel \ ToSet(out)
    /\ deps[i] \subseteq ToSet(out)
    /\ out' = Append(out, i)
    /\ UNCHANGED <<deps, sel>>

Next == Select \/ \E i \in Items : Place(i)

Spec == Init /\ [][Next]_vars

\* No item is placed twice and none before an item it depends on.
Ordered ==
    /\ \A k, l \in DOMAIN out : out[k] = out[l] => k = l
    /\ \A k \in DOMAIN out : \A d \in deps[out[k]] :
         \E l \in DOMAIN out : l < k /\ out[l] = d
=============================================================================
