----------------------------- MODULE SymbolTree -----------------------------
(***************************************************************************)
(* A PerfSymbolTree under any sequence of insertions and removals.         *)
(***************************************************************************)
EXTENDS PerfSymbolTree, FiniteSets

CONSTANTS
  Ids,      \* candidate ids
  Shared    \* how many consecutive ids share a start address

TreeAssumption == Ids \subseteq Nat /\ None \notin Ids /\ Shared \in Nat \ {0}

VARIABLE tree

Start(id) == id \div Shared

Init == tree = NewTree

\* A candidate that is in the tree is refused.
InsertId == \E id \in Ids \ DOMAIN tree.nodes : tree' = Insert(tree, id, Start(id))

RemoveId == \E id \in DOMAIN tree.nodes : tree' = Erase(tree, id)

Next == InsertId \/ RemoveId

Spec == Init /\ [][Next]_tree

-----------------------------------------------------------------------------
(* Properties. *)

\* Links lead to nodes, and every child knows its parent.
TypeOK ==
  LET links == DOMAIN tree.nodes \cup {None}
  IN /\ {tree.root, tree.rightmost} \subseteq links
     /\ \A i \in DOMAIN tree.nodes :
          /\ {Kid(tree, i, "left"), Kid(tree, i, "right"), Parent(tree, i)} \subseteq links
          /\ Color(tree, i) \in {"Red", "Black"}
          /\ \A side \in {"left", "right"} :
               Kid(tree, i, side) # None => Parent(tree, Kid(tree, i, side)) = i
     /\ Parent(tree, tree.root) = None

RECURSIVE BlackHeights(_, _)
BlackHeights(t, i) ==
  IF i = None THEN {0}
  ELSE {h + (IF Color(t, i) = "Black" THEN 1 ELSE 0) :
          h \in BlackHeights(t, Kid(t, i, "left")) \cup BlackHeights(t, Kid(t, i, "right"))}

\* The tree stays a red-black tree: the root is black, a red node has no red
\* child, and all paths have the same number of black nodes (insert_fixup,
\* erase_fixup), so that the path perf would follow stays short and the same.
Balanced ==
  /\ Color(tree, tree.root) = "Black"
  /\ \A i \in DOMAIN tree.nodes : Color(tree, i) = "Red" => Color(tree, Parent(tree, i)) = "Black"
  /\ Cardinality(BlackHeights(tree, tree.root)) = 1

\* The shortcut for ascending insertion leads to the last node in order.
RightmostExact ==
  tree.rightmost = IF tree.root = None THEN None ELSE Last(IndicesInOrder(tree))

\* The tree is a red-black tree with an exact shortcut.
TreeExact == TypeOK /\ Balanced /\ RightmostExact

\* Rotations and removals keep the order: the tree implements SymbolOrder.
Ordered == INSTANCE SymbolOrder WITH order <- IndicesInOrder(tree)
KeepsOrder == Ordered!Spec

=============================================================================
