------------------------------ MODULE Kallsyms ------------------------------
(***************************************************************************)
(* A kallsyms file as symbol source (NativePrepared, FrozenCoreTable,      *)
(* ModuleKallsymsIndex, KallsymsReferenceSource and Kallsyms of            *)
(* src/symbols.rs, KcoreSymbols of src/symbols/kcore.rs).                  *)
(*                                                                         *)
(* The file's rows are read in order into a tree; ends are fixed up and    *)
(* duplicates removed over all rows, the kernel's and its modules'.  The   *)
(* first use for the core kernel completes the source: the rows of modules *)
(* move to an index per module, and what remains is the core's table.      *)
(* Reference symbols are searched in the rows themselves, once per name.   *)
(***************************************************************************)
EXTENDS PerfSymbolTree, FiniteSets

CONSTANTS
  Files,           \* by name: what a file may hold, see FileOK
  Attributes,      \* of a name: what decides between aliases
  Ranges           \* the sets of disjoint ranges that kcore may describe

Names == DOMAIN Attributes

\* choices: the rows the file may have, for each position; contexts: what may be
\* known when the core is loaded; names: the reference symbols looked up; page,
\* wide: the page size, and one more than the largest address.
FileOK(f) ==
  /\ f.page \in Nat \ {0} /\ f.wide \in Nat \ {0} /\ f.wide % f.page = 0
  /\ f.names \subseteq Names
  /\ \A r \in UNION Range(f.choices) :
       /\ r.address \in 0 .. f.wide - 1
       /\ r.type \in {"T", "t", "W", "w", "D", "A", "R"}
       /\ r.name \in Names
  /\ \A c \in f.contexts : c.range = None \/ c.range[1] <= c.range[2]

KallsymsAssumption == \A f \in Range(Files) : FileOK(f)

VARIABLES
  file,        \* the name of the file
  rows,        \* the physical rows
  ids,         \* those that become symbols
  end,         \* their ends
  tree,        \* the symbols
  phase,       \* "reading", "prepared" or "complete"
  context,     \* the context the source was completed in
  modules,     \* the index of each module that has one
  references,  \* reference names looked up: the answers
  survivors    \* history: the symbols before the modules' were moved

vars == <<file, rows, ids, end, tree, phase, context, modules, references, survivors>>

Page == Files[file].page
Wide == Files[file].wide
Address(i) == rows[i].address
Module(i) == rows[i].module

-----------------------------------------------------------------------------
(* Preparation. *)

\* perf_kallsyms_type_is_kept, and no local label.
Kept(r) == r.type \in {"T", "t", "W", "w", "D"} /\ ~Attributes[r.name].dollar

AllInserted(t, list) == FoldLeft(LAMBDA u, i : Insert(u, i, Address(i)), t, list)

\* Ends, with addresses that wrap.  A row ends where the next one starts, or at
\* the end of a page where the module changes.
PageEnd(a) == LET past == (a + 2 * Page - 1) % Wide IN past - (past % Page)
LastEnd(a) == LET past == (a + Page - 1) % Wide IN (past - (past % Page) + Page) % Wide
WrappedEnds(list) ==
  [k \in DOMAIN list |->
     IF k = Len(list) THEN LastEnd(Address(list[k]))
     ELSE IF Module(list[k]) = Module(list[k + 1]) THEN Address(list[k + 1])
     ELSE PageEnd(Address(list[k]))]

\* Kallsyms::parse_global_kallsyms: the same with addresses that saturate.
Saturated(a) == IF a < Wide THEN a ELSE Wide - 1
RoundUp(a) == LET up == Saturated(a + Page - 1) IN up - (up % Page)
SaturatedEnds(list) ==
  [k \in DOMAIN list |->
     IF k < Len(list) /\ Module(list[k]) = Module(list[k + 1]) THEN Address(list[k + 1])
     ELSE RoundUp(Saturated(Address(list[k]) + Page))]

\* kallsyms_next_alias_is_better.
Weak(r) == r.type = "W"
Global(r) == r.type \in {"T", "D"}
NextIsBetter(current, cend, next, nend) ==
  LET filled == cend # current.address
      filling == nend # next.address
      a == Attributes[current.name]
      b == Attributes[next.name]
  IN CASE filled # filling -> filling
       [] Weak(current) # Weak(next) -> ~Weak(next)
       [] Global(current) # Global(next) -> Global(next)
       [] a.underscores # b.underscores -> b.underscores < a.underscores
       [] a.length # b.length -> b.length > a.length
       [] OTHER -> a.sys

\* Of neighbours at one address the winner of each comparison goes on; the loser
\* is erased from the tree.
Deduplicated(t, list, ends) ==
  LET Compete(a, i) ==
        CASE a.winner = None \/ Address(a.winner) # Address(i) -> [a EXCEPT !.winner = i]
          [] NextIsBetter(rows[a.winner], ends[a.winner], rows[i], ends[i]) ->
               [winner |-> i, tree |-> Erase(a.tree, a.winner)]
          [] OTHER -> [a EXCEPT !.tree = Erase(@, i)]
  IN FoldLeft(Compete, [winner |-> None, tree |-> t], list).tree

ById(list, ends) == [i \in Range(list) |-> ends[CHOOSE k \in DOMAIN list : list[k] = i]]

Read ==
  /\ phase = "reading" /\ Len(rows) < Len(Files[file].choices)
  /\ \E r \in Files[file].choices[Len(rows) + 1] : rows' = Append(rows, r)
  /\ UNCHANGED <<file, survivors, ids, end, tree, phase, context, modules, references>>

\* NativePrepared::new.
Prepare ==
  /\ phase = "reading"
  /\ ids' = SelectSeq([i \in DOMAIN rows |-> i], LAMBDA i : Kept(rows[i]))
  /\ \E t \in {AllInserted(NewTree, ids')} :
       \E list \in {IndicesInOrder(t)} :
         /\ end' = ById(list, WrappedEnds(list))
         /\ tree' = Deduplicated(t, list, end')
  /\ survivors' = DOMAIN tree'.nodes
  /\ phase' = "prepared"
  /\ UNCHANGED <<file, rows, context, modules, references>>

-----------------------------------------------------------------------------
(* The index of a module, whose rows come in ascending order: each becomes the *)
(* right child of the one before, and no search is needed.                     *)

\* Mutant: a red uncle is not considered.
FixupWithoutUncle(t, node) ==
  LET p == Parent(t, node)
      g == Parent(t, p)
  IN IF Color(t, p) # "Red" THEN Paint(t, t.root, "Black")
     ELSE Rotate(Paint(Paint(t, p, Color(t, g)), g, "Red"), g, "left")

RECURSIVE AscendingFixup(_, _)
AscendingFixup(t, node) ==
  LET p == Parent(t, node)
      g == Parent(t, p)
      uncle == Kid(t, g, "left")
  IN CASE p = None -> Paint([t EXCEPT !.root = node], node, "Black")
       [] Color(t, p) # "Red" -> t
       [] Color(t, uncle) = "Red" ->
            AscendingFixup(Paint(Paint(Paint(t, uncle, "Black"), p, "Black"), g, "Red"), g)
       [] OTHER -> Rotate(Paint(Paint(t, p, Color(t, g)), g, "Red"), g, "left")

InsertAscending(t, i) ==
  LET node == [start |-> Address(i), parent |-> t.rightmost, left |-> None, right |-> None,
               color |-> "Red"]
      pushed == [t EXCEPT !.nodes = (i :> node) @@ @, !.rightmost = i]
      linked == IF t.rightmost = None THEN pushed
                ELSE [pushed EXCEPT !.nodes[t.rightmost].right = i]
  IN AscendingFixup(linked, i)

-----------------------------------------------------------------------------
(* Completion: finish_ordinary. *)

Outside(i, range) == range # None /\ (Address(i) < range[1] \/ Address(i) >= range[2])

\* Where a row goes, given where the one before it went: a new destination, and
\* whether the row stays in the core, joins its module or is dropped.
Placed(destination, i, c) ==
  LET m == Module(i)
      changes == m # None /\ destination # m
  IN CASE changes /\ c.modules # None /\ m \notin c.modules -> <<"main", "dropped">>
       [] changes /\ m \in c.loaded -> <<m, "dropped">>
       [] m # None -> <<m, "module">>
       [] destination # "main" /\ Outside(i, c.range) -> <<"child", "dropped">>
       [] OTHER -> <<"main", "core">>

Split(c) ==
  LET Place(a, i) ==
        LET p == Placed(a.destination, i, c)
            own == IF Module(i) \in DOMAIN a.modules THEN a.modules[Module(i)] ELSE NewTree
        IN [destination |-> p[1],
            core |-> IF p[2] = "core" THEN a.core ELSE Erase(a.core, i),
            modules |-> IF p[2] # "module" THEN a.modules
                        ELSE (Module(i) :> InsertAscending(own, i)) @@ a.modules]
  IN FoldLeft(Place, [destination |-> "main", core |-> tree, modules |-> <<>>],
              IndicesInOrder(tree))

Complete ==
  /\ phase = "prepared"
  /\ context' \in Files[file].contexts
  /\ \E split \in {Split(context')} : tree' = split.core /\ modules' = split.modules
  /\ phase' = "complete"
  /\ UNCHANGED <<file, survivors, rows, ids, end, references>>

\* kallsyms_reference_span: the first row of a function with the name.
IsReference(r, name) == r.type \in {"T", "t", "W", "w", "A"} /\ r.name = name
ReferenceSpan(name) ==
  LET found == {i \in DOMAIN rows : IsReference(rows[i], name)}
  IN IF found = {} THEN None ELSE Address(CHOOSE i \in found : \A j \in found : i <= j)

\* reference_address; misses are remembered too.
ReferenceAddress(name) ==
  IF name \in DOMAIN references THEN references[name] ELSE ReferenceSpan(name)

Refer ==
  /\ phase # "reading"
  /\ \E name \in Files[file].names :
       /\ name \notin DOMAIN references
       /\ references' = (name :> ReferenceAddress(name)) @@ references
  /\ UNCHANGED <<file, rows, ids, end, tree, phase, context, modules, survivors>>

Init ==
  /\ file \in DOMAIN Files /\ survivors = {}
  /\ rows = <<>> /\ ids = <<>> /\ end = <<>> /\ tree = NewTree /\ phase = "reading"
  /\ context = None /\ modules = <<>> /\ references = <<>>

Next == Read \/ Prepare \/ Complete \/ Refer

Spec == Init /\ [][Next]_vars

-----------------------------------------------------------------------------
(* Answers. *)

\* FrozenCoreTable::find_relocated: the nodes move, the tree does not.
RECURSIVE FindFrom(_, _, _)
FindFrom(i, address, delta) ==
  IF i = None THEN None
  ELSE LET s == (Address(i) - delta) % Wide
           e == (end[i] - delta) % Wide
       IN CASE address < s -> FindFrom(Kid(tree, i, "left"), address, delta)
            [] address >= e /\ ~(s = e /\ address = e) ->
                 FindFrom(Kid(tree, i, "right"), address, delta)
            [] OTHER -> i
FindRelocated(address, delta) == FindFrom(tree.root, address, delta)

\* kernel_map_range.
KernelMapRange(delta) ==
  LET list == IndicesInOrder(tree)
  IN IF list = <<>> THEN None
     ELSE <<(Address(list[1]) - delta) % Wide, (end[Last(list)] - delta) % Wide>>

\* resolve_module_with_offset_in_range of a module's index.
FindModule(m, address, range) ==
  LET i == Lookup(modules[m], address, end)
  IN IF i = None \/ (range # None /\ (Address(i) < range[1] \/ range[2] <= address))
     THEN None ELSE i

\* parse_global_kallsyms: sorted, fixed up and deduplicated as a list.
GlobalSurvivors ==
  LET list == SortSeq(SelectSeq(ids, LAMBDA i : Address(i) # 0),
                      LAMBDA i, j : Address(i) < Address(j) \/ (Address(i) = Address(j) /\ i < j))
      ends == ById(list, SaturatedEnds(list))
      Compete(a, i) ==
        CASE a = <<>> \/ Address(Last(a)) # Address(i) -> Append(a, i)
          [] NextIsBetter(rows[Last(a)], ends[Last(a)], rows[i], ends[i]) -> Append(Front(a), i)
          [] OTHER -> a
  IN FoldLeft(Compete, <<>>, list)

\* KcoreSymbols::load keeps the symbols within a range, cut at its end; resolve
\* takes the last that starts at or before the address.
KcoreSymbols(ranges) ==
  {<<i, r>> \in (DOMAIN tree.nodes) \X ranges : r[1] <= Address(i) /\ Address(i) < r[2]}
KcoreEnd(s) == IF end[s[1]] < s[2][2] THEN end[s[1]] ELSE s[2][2]
KcoreResolve(address, ranges) ==
  LET before == {s \in KcoreSymbols(ranges) : Address(s[1]) <= address}
      nearest == CHOOSE s \in before : \A o \in before : Address(o[1]) <= Address(s[1])
      i == nearest[1]
  IN IF before = {} THEN None
     ELSE IF address < KcoreEnd(nearest) \/ (address = KcoreEnd(nearest) /\ Address(i) = address)
     THEN i ELSE None

-----------------------------------------------------------------------------
(* Properties. *)

Survivors == DOMAIN tree.nodes
Steady == \A i \in Range(ids) : end[i] >= Address(i)
HeldBy(i, address) == Holds(Address(i), end[i], address)

\* Type invariant.
TypeOK ==
  /\ phase \in {"reading", "prepared", "complete"}
  /\ DOMAIN references \subseteq Names /\ DOMAIN modules \subseteq {Module(i) : i \in Range(ids)}
  /\ Survivors \subseteq Range(ids) /\ Range(ids) \subseteq DOMAIN rows

\* Where no end wraps and no row is at address zero, the two ways to read a file
\* (the tree of NativePrepared, the list of parse_global_kallsyms) keep the same
\* symbols.
ReadersAgree ==
  phase = "prepared" /\ Steady /\ (\A i \in Range(ids) : Address(i) \in 1 .. Wide - 2 * Page) =>
    IndicesInOrder(tree) = GlobalSurvivors

\* The index of a module is the tree perf would have built of its rows.
ModuleTreesExact ==
  phase = "complete" =>
    \A m \in DOMAIN modules :
      modules[m] = AllInserted(NewTree, IndicesInOrder(modules[m]))

\* An address is resolved to a symbol that holds it, and it is resolved when the
\* last symbol at or before it holds it, though the symbols before reach over it.
FindsHolder ==
  phase = "complete" /\ Steady =>
    \A a \in 0 .. Wide - 1 :
      LET i == FindRelocated(a, 0)
          below == {j \in Survivors : Address(j) <= a}
      IN /\ i # None => HeldBy(i, a)
         /\ i = None => \A j \in below :
              (\A k \in below : Address(k) <= Address(j)) => ~HeldBy(j, a)

\* A relocated search is a search at the relocated address, unless the kernel's
\* range wraps.
RelocationShifts ==
  phase = "complete" /\ Steady =>
    \A delta \in 0 .. Wide - 1 :
      (\A i \in Survivors : Address(i) >= delta) =>
        \A a \in 0 .. Wide - 1 - delta :
          FindRelocated(a, delta) = FindRelocated(a + delta, 0)

\* What the source was completed to: a module that has not been loaded and is known
\* has all of its symbols, none that is unknown has any, the core has no symbol of
\* a module and has all of its own in the kernel's range.
SplitExact ==
  phase = "complete" =>
    \A i \in survivors :
      LET m == Module(i)
             c == context
         IN CASE m = None -> /\ ~Outside(i, c.range) => i \in Survivors
                             /\ \A x \in DOMAIN modules : i \notin DOMAIN modules[x].nodes
              [] m # None /\ c.modules # None /\ m \notin c.modules ->
                   i \notin Survivors /\ m \notin DOMAIN modules
              [] m \in c.loaded -> i \notin Survivors
              [] OTHER -> i \notin Survivors /\ i \in DOMAIN modules[m].nodes

\* A remembered reference is the one a new search of the rows would find.
ReferencesExact == \A name \in DOMAIN references : references[name] = ReferenceSpan(name)

\* kcore's symbols answer only addresses that their range and their symbol hold.
KcoreSound ==
  phase = "prepared" =>
    \A ranges \in Ranges, a \in 0 .. Wide - 1 :
      LET i == KcoreResolve(a, ranges)
      IN i # None /\ end[i] >= Address(i) =>
           /\ HeldBy(i, a)
           /\ \E r \in ranges : r[1] <= a /\ a < r[2]

\* The file's rows, its trees and its answers are as perf has them.
KallsymsExact ==
  /\ TypeOK /\ ReadersAgree /\ ModuleTreesExact /\ FindsHolder /\ RelocationShifts
  /\ SplitExact /\ ReferencesExact /\ KcoreSound
=============================================================================
