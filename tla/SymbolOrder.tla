---------------------------- MODULE SymbolOrder ----------------------------
(***************************************************************************)
(* What PerfSymbolTree promises: a sequence of symbols by start address,   *)
(* those with equal starts in the order of their insertion.                *)
(***************************************************************************)
EXTENDS Integers, Sequences, SequencesExt

CONSTANTS Ids, Start(_)

VARIABLE order

Init == order = <<>>

InsertSymbol ==
  \E id \in Ids \ {order[i] : i \in DOMAIN order}, at \in 0 .. Len(order) :
    /\ \A i \in DOMAIN order : i <= at <=> Start(order[i]) <= Start(id)
    /\ order' = InsertAt(order, at + 1, id)

RemoveSymbol == \E i \in DOMAIN order : order' = RemoveAt(order, i)

Next == InsertSymbol \/ RemoveSymbol

Spec == Init /\ [][Next]_order

=============================================================================
