--------------------------- MODULE PerfSymbolTree ---------------------------
(***************************************************************************)
(* PerfSymbolTree of src/symbols/perf_tree.rs: the red-black tree in which *)
(* the symbols of an object are kept, with perf's insertion and removal,   *)
(* because an address is resolved to the first symbol met on the way from  *)
(* the root.  A tree is a record of its nodes, its root and its rightmost  *)
(* node.                                                                   *)
(***************************************************************************)
EXTENDS Integers, Sequences, SequencesExt, Functions, TLC

CONSTANTS None   \* no node

Other(side) == IF side = "left" THEN "right" ELSE "left"

NewTree == [nodes |-> <<>>, root |-> None, rightmost |-> None]

Kid(t, i, side) == t.nodes[i][side]
Parent(t, i) == IF i = None THEN None ELSE t.nodes[i].parent
Color(t, i) == IF i = None THEN "Black" ELSE t.nodes[i].color
Paint(t, i, c) == IF i = None THEN t ELSE [t EXCEPT !.nodes[i].color = c]
SetParent(t, i, p) == IF i = None THEN t ELSE [t EXCEPT !.nodes[i].parent = p]
SideOf(t, p, i) == IF Kid(t, p, "left") = i THEN "left" ELSE "right"

\* The node at one end of a subtree.
RECURSIVE Outermost(_, _, _)
Outermost(t, i, side) ==
  IF Kid(t, i, side) = None THEN i ELSE Outermost(t, Kid(t, i, side), side)

\* `new', perhaps nothing, takes the place of `old' under its parent.
Transplant(t, old, new) ==
  LET p == Parent(t, old)
      u == IF p = None THEN [t EXCEPT !.root = new]
           ELSE [t EXCEPT !.nodes[p][SideOf(t, p, old)] = new]
  IN SetParent(u, new, p)

Rotate(t, pivot, side) ==
  LET top == Kid(t, pivot, Other(side))
      middle == Kid(t, top, side)
      lifted == SetParent([t EXCEPT !.nodes[pivot][Other(side)] = middle], middle, pivot)
  IN [Transplant(lifted, pivot, top) EXCEPT !.nodes[top][side] = pivot, !.nodes[pivot].parent = top]

-----------------------------------------------------------------------------
(* Insertion. *)

\* The outer case, for a node outside of its parent.
OuterFixed(t, node) ==
  LET p == Parent(t, node)
      g == Parent(t, p)
  IN Rotate(Paint(Paint(t, p, "Black"), g, "Red"), g, Other(SideOf(t, g, p)))

Straightened(t, p, node, side) ==
  IF Kid(t, p, Other(side)) = node THEN OuterFixed(Rotate(t, p, side), p) ELSE OuterFixed(t, node)

RECURSIVE InsertFixup(_, _)
InsertFixup(t, node) ==
  LET p == Parent(t, node)
      g == Parent(t, p)
      side == SideOf(t, g, p)
      uncle == Kid(t, g, Other(side))
  IN CASE Color(t, p) # "Red" -> Paint(t, t.root, "Black")
       [] Color(t, uncle) = "Red" ->
            InsertFixup(Paint(Paint(Paint(t, p, "Black"), uncle, "Black"), g, "Red"), g)
       [] OTHER -> LET u == Straightened(t, p, node, side) IN Paint(u, u.root, "Black")

\* Mutant: equal starts go left, except after the rightmost node.
EqualLeft(t, i, start) ==
  IF start < t.nodes[i].start \/ (start = t.nodes[i].start /\ i # t.rightmost) THEN "left" ELSE "right"
SearchSide(t, i, start) == IF start < t.nodes[i].start THEN "left" ELSE "right"

RECURSIVE Descend(_, _, _)
Descend(t, i, start) ==
  LET side == SearchSide(t, i, start)
  IN IF Kid(t, i, side) = None THEN i ELSE Descend(t, Kid(t, i, side), start)

ExtendsRightmost(t, start) == t.rightmost = None \/ start >= t.nodes[t.rightmost].start

Insert(t, id, start) ==
  LET extends == ExtendsRightmost(t, start)
      p == CASE extends -> t.rightmost
             [] OTHER -> Descend(t, t.root, start)
      node == [start |-> start, parent |-> p, left |-> None, right |-> None, color |-> "Red"]
      placed == [t EXCEPT !.nodes = (id :> node) @@ @]
      linked == IF p = None THEN [placed EXCEPT !.root = id]
                ELSE [placed EXCEPT !.nodes[p][SearchSide(t, p, start)] = id]
      fixed == InsertFixup(linked, id)
  IN IF extends THEN [fixed EXCEPT !.rightmost = id] ELSE fixed

-----------------------------------------------------------------------------
(* Removal. *)

\* The last case: the sibling's outer child is red, perhaps after a rotation.
\* Mutant: without that rotation.
NephewKept(t, p, side) == t
NephewTurned(t, p, side) ==
  LET s == Kid(t, p, Other(side))
  IN IF Color(t, Kid(t, s, Other(side))) = "Red" THEN t
     ELSE Rotate(Paint(Paint(t, Kid(t, s, side), "Black"), s, "Red"), s, Other(side))

Borrowed(t0, p, side) ==
  LET t == NephewTurned(t0, p, side)
      s == Kid(t, p, Other(side))
      painted == Paint(Paint(t, s, Color(t, p)), p, "Black")
  IN Rotate(Paint(painted, Kid(t, s, Other(side)), "Black"), p, side)

RECURSIVE EraseFixup(_, _, _)
EraseFixup(t0, node, p) ==
  IF node = t0.root \/ Color(t0, node) = "Red" \/ p = None THEN Paint(t0, node, "Black")
  ELSE LET side == SideOf(t0, p, node)
           near == Kid(t0, p, Other(side))
           t == IF Color(t0, near) = "Black" THEN t0
                ELSE Rotate(Paint(Paint(t0, near, "Black"), p, "Red"), p, side)
           s == Kid(t, p, Other(side))
       IN IF s = None \/ \A e \in {"left", "right"} : Color(t, Kid(t, s, e)) = "Black"
            THEN EraseFixup(Paint(t, s, "Red"), p, Parent(t, p))
            ELSE LET u == Borrowed(t, p, side)
                 IN EraseFixup(u, u.root, None)

\* A node with at most one child is unlinked; else its successor replaces it.
\* The result names the hole that may be one black node short.
Unlinked(t, id) ==
  LET l == Kid(t, id, "left")
      r == Kid(t, id, "right")
      only == IF l = None THEN r ELSE l
      next == Outermost(t, r, "left")
      below == Kid(t, next, "right")
      direct == Parent(t, next) = id
      freed == IF direct THEN t
               ELSE SetParent([Transplant(t, next, below) EXCEPT !.nodes[next].right = r], r, next)
      moved == Transplant(freed, id, next)
  IN IF l = None \/ r = None
       THEN [tree |-> Transplant(t, id, only), color |-> Color(t, id),
             node |-> only, parent |-> Parent(t, id)]
       ELSE [tree |-> SetParent([moved EXCEPT !.nodes[next].left = l,
                                              !.nodes[next].color = Color(t, id)], l, next),
             color |-> Color(t, next), node |-> below,
             parent |-> IF direct THEN next ELSE Parent(t, next)]

NewRightmost(t, id) ==
  IF t.rightmost # id THEN t.rightmost
  ELSE IF t.root = None THEN None ELSE Outermost(t, t.root, "right")

Erase(t, id) ==
  LET cut == Unlinked(t, id)
      gone == [cut.tree EXCEPT !.nodes = Restrict(@, DOMAIN @ \ {id})]
      fixed == IF cut.color = "Black" THEN EraseFixup(gone, cut.node, cut.parent) ELSE gone
  IN [fixed EXCEPT !.rightmost = NewRightmost(fixed, id)]

-----------------------------------------------------------------------------
(* Searching. *)

RECURSIVE InOrderFrom(_, _)
InOrderFrom(t, i) ==
  IF i = None THEN <<>>
  ELSE InOrderFrom(t, Kid(t, i, "left")) \o <<i>> \o InOrderFrom(t, Kid(t, i, "right"))

IndicesInOrder(t) == InOrderFrom(t, t.root)

\* The first node on the search path whose range holds the address; an empty
\* range holds its start.
Holds(start, end, address) ==
  start <= address /\ (address < end \/ (start = end /\ address = start))

RECURSIVE LookupFrom(_, _, _, _)
LookupFrom(t, i, address, end) ==
  IF i = None THEN None
  ELSE IF address < t.nodes[i].start THEN LookupFrom(t, Kid(t, i, "left"), address, end)
  ELSE IF Holds(t.nodes[i].start, end[i], address) THEN i
  ELSE LookupFrom(t, Kid(t, i, "right"), address, end)

Lookup(t, address, end) == LookupFrom(t, t.root, address, end)

=============================================================================
