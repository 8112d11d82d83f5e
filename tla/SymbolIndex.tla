---------------------------- MODULE SymbolIndex ----------------------------
(***************************************************************************)
(* PerfSymbolLookupIndex of src/symbols/perf_lookup.rs: how the symbols of *)
(* an ELF file's tables, its PLT header and its PLT entries become an      *)
(* index that finds the symbol of an address.                              *)
(*                                                                         *)
(* A table's symbols are inserted into the tree; then, if the file's       *)
(* symbols are fixed up, empty ones get an end and duplicates are removed. *)
(* If no two of the remaining symbols overlap the index is a sorted list,  *)
(* else it is a copy of the tree.                                          *)
(***************************************************************************)
EXTENDS PerfSymbolTree, FiniteSets

CONSTANTS
  Ids,            \* records, numbered in the order of their candidates
  MaxStart, MaxSize,    \* bounds on addresses and sizes
  Page,           \* the page size
  Kinds           \* the candidates' attributes

IndexAssumption ==
  /\ Ids \subseteq Nat \ {0} /\ None \notin Ids /\ {MaxStart, MaxSize} \subseteq Nat /\ Page \in Nat \ {0}

VARIABLES
  start, end,     \* the records' bounds
  kind,           \* the candidates' attributes
  table,          \* the table of a record: 1, 2, or 3 for synthesized symbols
  fixup,
  header,         \* a PLT header: none, removed before the entries or kept
  tree,
  phase,          \* the phase reached: 0, 1 and 2 tables, header, complete
  index,          \* the result
  before          \* history: the tree and the ends before the header

vars == <<start, end, kind, table, fixup, header, tree, phase, index, before>>
inputs == <<start, kind, table, fixup, header>>

Addresses == 0 .. MaxStart + MaxSize + 2 * Page

\* The header is the first synthesized symbol.
HeaderId == CHOOSE i \in Ids : table[i] = 3 /\ \A j \in Ids : table[j] = 3 => i <= j

-----------------------------------------------------------------------------
(* Building. *)

Inserted(t, ids) ==
  FoldLeft(LAMBDA u, i : Insert(u, i, start[i]), t, SetToSortSeq(ids, <))

RoundUpToPage(a) == ((a + Page - 1) \div Page) * Page

\* fixup_ends: an empty symbol ends where the next one starts, the last one a
\* page further.
TailEnd(a) == RoundUpToPage(a) + Page
FixedEnds(t) ==
  LET ordered == IndicesInOrder(t)
      Fixed(k) == IF k < Len(ordered) THEN start[ordered[k + 1]] ELSE TailEnd(start[ordered[k]])
      at == [i \in Range(ordered) |-> CHOOSE k \in DOMAIN ordered : ordered[k] = i]
  IN [i \in Ids |-> IF i \in DOMAIN at /\ start[i] = end[i] THEN Fixed(at[i]) ELSE end[i]]

\* compare_duplicate_symbols: the current symbol yields to the candidate.
YieldsByKind(a, b) ==
  CASE a.type # b.type /\ "NOTYPE" \in {a.type, b.type} -> a.type = "NOTYPE"
    [] a.weak # b.weak -> a.weak
    [] a.global # b.global -> b.global
    [] a.underscores # b.underscores -> b.underscores < a.underscores
    [] a.length # b.length -> a.length < b.length
    [] OTHER -> a.sys
Yields(a, asize, b, bsize) ==
  IF (asize = 0) # (bsize = 0) THEN asize = 0 ELSE YieldsByKind(a, b)

\* Mutant: the first symbol wins.
FirstWins(w, i, ends) == FALSE
Replaces(w, i, ends) == Yields(kind[w], ends[w] - start[w], kind[i], ends[i] - start[i])

\* remove_duplicates: of neighbours with one start the winner of each
\* comparison goes on.
Deduplicated(t, ends) ==
  LET Compete(a, i) ==
        CASE a.winner = None \/ start[i] # start[a.winner] -> [a EXCEPT !.winner = i]
          [] Replaces(a.winner, i, ends) ->
               [winner |-> i, tree |-> Erase(a.tree, a.winner)]
          [] OTHER -> [a EXCEPT !.tree = Erase(@, i)]
  IN FoldLeft(Compete, [winner |-> None, tree |-> t], IndicesInOrder(t)).tree

\* One of the two tables.
LoadTable ==
  /\ phase < 2
  /\ LET t == Inserted(tree, {i \in Ids : table[i] = phase + 1})
     IN IF fixup
          THEN /\ end' = FixedEnds(t)
               /\ tree' = Deduplicated(t, end')
          ELSE tree' = t /\ UNCHANGED end
  /\ phase' = phase + 1
  /\ UNCHANGED <<inputs, index, before>>

\* A symbol that reaches over the header's start is cut there; the header is
\* inserted and, unless it stays, removed.
CutEnds ==
  LET at == start[HeaderId]
      hit == Lookup(tree, at, end)
  IN [i \in Ids |-> IF i = hit /\ start[i] < at /\ at < end[i] THEN at ELSE end[i]]

PltHeader ==
  /\ phase = 2
  /\ IF header = "none" THEN UNCHANGED <<tree, end>>
     ELSE LET t == Insert(tree, HeaderId, start[HeaderId])
          IN /\ end' = CutEnds
             /\ tree' = IF header = "removed" THEN Erase(t, HeaderId) ELSE t
  /\ before' = [tree |-> tree, end |-> end]
  /\ phase' = 3
  /\ UNCHANGED <<inputs, index>>

\* Whether neighbours overlap.  Mutant: only where one reaches into the other.
OverlapStrictly(p, c) == start[c] < end[p]
OverlapAt(p, c) ==
  \/ start[c] < end[p]
  \/ start[c] = start[p] /\ (end[c] = start[c] \/ end[p] = start[p])

\* The copy of the tree, by positions in the order.
SearchTree(t) ==
  LET active == IndicesInOrder(t)
      Position(i) == IF i = None THEN None ELSE CHOOSE k \in DOMAIN active : active[k] = i
  IN [root |-> Position(t.root),
      left |-> [k \in DOMAIN active |-> Position(Kid(t, active[k], "left"))],
      right |-> [k \in DOMAIN active |-> Position(Kid(t, active[k], "right"))]]

Finish ==
  /\ phase = 3
  /\ tree' = Inserted(tree, {i \in Ids : table[i] = 3 /\ (header = "none" \/ i # HeaderId)})
  /\ LET active == IndicesInOrder(tree')
     IN index' = [records |-> active,
                  search |-> IF \E k \in 2 .. Len(active) : OverlapAt(active[k - 1], active[k])
                               THEN SearchTree(tree') ELSE None]
  /\ phase' = 4
  /\ UNCHANGED <<inputs, end, before>>

Init ==
  /\ start \in [Ids -> 0 .. MaxStart]
  /\ \E size \in [Ids -> 0 .. MaxSize] : end = [i \in Ids |-> start[i] + size[i]]
  /\ kind \in [Ids -> Kinds]
  /\ table \in {f \in [Ids -> 1 .. 3] : \A i, j \in Ids : i <= j => f[i] <= f[j]}
  /\ fixup \in BOOLEAN
  /\ header \in IF \E i \in Ids : table[i] = 3 THEN {"none", "removed", "kept"} ELSE {"none"}
  /\ tree = NewTree /\ phase = 0 /\ index = None /\ before = None

Next == LoadTable \/ PltHeader \/ Finish

Spec == Init /\ [][Next]_vars

-----------------------------------------------------------------------------
(* record_at. *)

RECURSIVE SearchFrom(_, _)
SearchFrom(k, address) ==
  IF k = None THEN None
  ELSE LET i == index.records[k]
       IN CASE address < start[i] -> SearchFrom(index.search.left[k], address)
            [] Holds(start[i], end[i], address) -> i
            [] OTHER -> SearchFrom(index.search.right[k], address)

\* The last record that starts at or before the address.
FlatAt(address) ==
  LET k == Cardinality({n \in DOMAIN index.records : start[index.records[n]] <= address})
  IN IF k # 0 /\ Holds(start[index.records[k]], end[index.records[k]], address)
       THEN index.records[k] ELSE None

RecordAt(address) ==
  IF index.search = None THEN FlatAt(address) ELSE SearchFrom(index.search.root, address)

-----------------------------------------------------------------------------
(* Properties. *)

Active == DOMAIN tree.nodes

\* Records in the tree have their start there, and no end lies before it.
TypeOK ==
  /\ Active \subseteq Ids /\ phase \in 0 .. 4
  /\ \A i \in Active : tree.nodes[i].start = start[i]
  /\ \A i \in Ids : end[i] \in Addresses /\ start[i] <= end[i]
  /\ index = None <=> phase < 4

\* The index answers as perf's walk through the tree would, whether it was kept
\* as a list or as a copy (the choice by `overlaps' in from_elf_tables...).
IndexExact ==
  phase = 4 => \A a \in Addresses : RecordAt(a) = Lookup(tree, a, end)

\* After the tables of a fixed-up file no two symbols start at one address and
\* none is empty (fixup_ends before remove_duplicates, per table).
TablesClean ==
  (fixup /\ phase \in {1, 2}) =>
    /\ \A i, j \in Active : start[i] = start[j] => i = j
    /\ \A i \in Active : start[i] < end[i]

\* A symbol is removed as a duplicate only if one that starts at the same address
\* stays, and among all of them the one that stays yields to none.
WinnerStays ==
  \A i \in Ids : (phase' = 1 /\ fixup /\ table[i] = 1 /\ i \notin DOMAIN tree'.nodes) =>
    \E w \in DOMAIN tree'.nodes :
      /\ start[w] = start[i]
      /\ (kind[i] # kind[w] \/ end'[i] = start[i]) =>
           ~Yields(kind[w], end'[w] - start[w], kind[i], end'[i] - start[i])
WinnerUnbeaten == [][WinnerStays]_vars

\* Making room for a PLT header that is removed again changes, among symbols that
\* do not overlap, exactly this: the symbol that reached over the header's start
\* no longer holds the addresses from there on.
HeaderCuts ==
  LET ordered == IndicesInOrder(before.tree)
      Disjoint == \A k \in 2 .. Len(ordered) :
        LET p == ordered[k - 1]
            c == ordered[k]
        IN before.end[p] <= start[c] /\ start[p] < start[c]
  IN (phase = 3 /\ header = "removed" /\ Disjoint) =>
       \A a \in Addresses :
         LET old == Lookup(before.tree, a, before.end)
             cut == old # None /\ start[old] < start[HeaderId] /\ a >= start[HeaderId]
         IN Lookup(tree, a, end) = IF cut THEN None ELSE old

\* The index and the tables it is made from are exact.
TablesExact == TypeOK /\ IndexExact /\ TablesClean /\ HeaderCuts
=============================================================================
