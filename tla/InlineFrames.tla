----------------------------- MODULE InlineFrames -----------------------------
(* Functions inlined at an address, from an object's DWARF (src/symbols.rs).    *)
(* The first batch that asks for an address of a unit builds that unit's index: *)
(* one walk over its DIEs makes a list of nodes in the order of the walk, each   *)
(* with the end of its subtree, and an interval tree of their ranges.  Units,   *)
(* names and indexes stay for the batches that follow.                           *)
(* An object is its units; a unit is its DIEs in order, each with its depth,     *)
(* the first of them the root.  Reading attributes and range lists is gimli's.   *)
EXTENDS Integers, Sequences, SequencesExt, FiniteSets, FiniteSetsExt, TLC

CONSTANTS
  Objects,       \* sets of objects, each [units, symbols, records, loads, bias : what was
                 \* said of the object, backends, batches : what may be asked, most]
  MaxReferences, \* DIEs a name may go through, 17 in the code
  Ones,          \* the address with all bits set
  None

Backends == {"addr2line", "rust-addr2line"}

InlineFramesAssumption ==
  /\ MaxReferences \in Nat \ {0} /\ Ones \in Nat
  /\ \A f \in DOMAIN Objects : \A o \in Objects[f] : \A u \in DOMAIN o.units :
     \A d \in DOMAIN o.units[u].dies :
       d > 1 => o.units[u].dies[d].depth \in 1 .. o.units[u].dies[d - 1].depth + 1

VARIABLES
  object, backend,
  units,   \* the cached units, or None
  names,   \* the names interned so far
  failed,
  answers, \* what the last batch was told, address by address
  batches

vars == <<object, backend, units, names, failed, answers, batches>>

-----------------------------------------------------------------------------
(* Attributes.  A DIE is named by its unit and its place there.                 *)

DieRef(unit, die) == [unit |-> unit, die |-> die]
Unit(ref) == object.units[ref.unit]
Die(ref) == Unit(ref).dies[ref.die]

\* The first attribute of that name, unless one before it cannot be skipped.  A
\* value that cannot be read is there, but says nothing.
Attribute(attrs, hit) ==
  IF hit = 0 \/ \E i \in 1 .. hit - 1 : ~attrs[i].readable THEN None ELSE attrs[hit]
RawAttribute(ref, name) ==
  IF ref.die \notin DOMAIN Unit(ref).dies THEN None
  ELSE Attribute(Die(ref).attrs, SelectInSeq(Die(ref).attrs, LAMBDA a : a.name = name))

\* A reference leads to another unit only if that unit could be parsed.
ResolveReference(from, ref) == ref.unit = from.unit \/ object.units[ref.unit].parsed

\* An attribute a DIE has itself or inherits; a specification counts only where
\* there is no origin.
RECURSIVE Inherited(_, _, _)
Follow(from, link, name, left) ==
  IF link = None \/ ~link.readable THEN None
  ELSE IF ~ResolveReference(from, link.value) THEN None
  ELSE Inherited(link.value, name, left)
FollowEither(from, origin, name, left) ==
  Follow(from, IF origin # None THEN origin ELSE RawAttribute(from, "specification"), name, left)
Value(found) == IF found.readable THEN found.value ELSE None
ValueOr(ref, found, name, left) ==
  IF found # None THEN Value(found)
  ELSE FollowEither(ref, RawAttribute(ref, "origin"), name, left - 1)
Inherited(ref, name, left) ==
  IF left = 0 THEN None ELSE ValueOr(ref, RawAttribute(ref, name), name, left)

EitherName(linkage, ref) ==
  IF linkage # None THEN linkage ELSE Inherited(ref, "name", MaxReferences)
DieFrameName(ref) == EitherName(Inherited(ref, "linkage_name", MaxReferences), ref)

IsC(named, ref) ==
  IF named # None THEN named = "C" ELSE Inherited(ref, "language", MaxReferences) = "C"
IsCUnit(ref) == IsC(Inherited(ref, "language_name", MaxReferences), ref)

Importable(ref, target) ==
  IF ~ResolveReference(ref, target) \/ target.die \notin DOMAIN Unit(target).dies THEN None
  ELSE IF Die(target).tag = "compile_unit" THEN None ELSE target
ImportTarget(ref) ==
  LET hit == SelectInSeq(Die(ref).attrs, LAMBDA a : a.name = "import")
  IN IF hit = 0 THEN None ELSE Importable(ref, Die(ref).attrs[hit].value)

-----------------------------------------------------------------------------
(* Ranges.  Each is a segment of the node it belongs to.                        *)

Segment(begin, end) == [begin |-> begin, end |-> end]
Ranged(status, segments) == [status |-> status, segments |-> segments]

\* A list of pairs, each relative to the base that was chosen last; it has to end.
LegacyRanges(entries, base) ==
  LET Read(list, pair) ==
        IF list.status # "open" THEN list
        ELSE IF pair = <<0, 0>> THEN [list EXCEPT !.status = "Complete"]
        ELSE IF pair = <<Ones, Ones>> THEN [list EXCEPT !.status = "ReadError"]
        ELSE IF pair[1] = Ones THEN [list EXCEPT !.base = pair[2]]
        ELSE [list EXCEPT !.segments =
                Append(@, Segment(list.base + pair[1], list.base + pair[2]))]
      Closed(read) ==
        Ranged(IF read.status = "open" THEN "ReadError" ELSE read.status, read.segments)
  IN Closed(FoldLeft(Read, [status |-> "open", base |-> base, segments |-> <<>>], entries))

\* A pair of addresses comes before a list; an old list's pointer has to be of the
\* right form and inside its section.
ListRanges(list, version, base) ==
  LET direct == list.form # "index"
  IN IF direct /\ (~list.inside \/ (version > 3 /\ list.form # "sec_offset"))
     THEN Ranged("ReadError", <<>>)
     ELSE IF direct /\ version < 5 THEN LegacyRanges(list.entries, base)
     ELSE IF ~list.inside THEN Ranged("InitializationError", <<>>)
     ELSE Ranged(IF list.ends THEN "Complete" ELSE "ReadError",
                 [i \in DOMAIN list.entries |-> Segment(list.entries[i][1], list.entries[i][2])])

NodeRanges(die, unit) ==
  IF die.low # None /\ die.size # None
  THEN Ranged("Complete", <<Segment(die.low, die.low + die.size)>>)
  ELSE IF die.list # None THEN ListRanges(die.list, unit.version, unit.low)
  ELSE Ranged(IF die.low = None /\ die.size = None THEN "Absent" ELSE "Complete", <<>>)

-----------------------------------------------------------------------------
(* The walk over a unit.  `current` is where it is; an import suspends it in    *)
(* `pending` and walks the children of the imported DIE instead.                *)

EmptyIndex == [nodes |-> <<>>, segments |-> <<>>, range_errors |-> {}, points |-> <<>>]

Traversal(ref, tree, import) ==
  [ref |-> ref, root_depth |-> Die(ref).depth, scopes |-> <<>>, root_pruned_depth |-> None,
   physical_tree |-> tree, import |-> import]

\* Closes the scopes at this depth and below.
CloseScopes(index, scopes, depth) ==
  [index EXCEPT !.nodes =
     [n \in DOMAIN @ |->
        IF \E s \in ToSet(scopes) : s.node = n /\ s.depth >= depth
        THEN [@[n] EXCEPT !.subtree_end = Len(index.nodes) + 1] ELSE @[n]]]

RootDescends(tag, c_unit) ==
  tag \in {"subprogram", "lexical_block", "inlined_subroutine"}
          \cup IF c_unit THEN {} ELSE {"namespace", "structure_type"}

Intern(known, name) == IF name \in ToSet(known) THEN known ELSE Append(known, name)
NameId(known, name) == IF name = None THEN None ELSE SelectInSeq(known, LAMBDA n : n = name)

AppendFrameNode(walk, die, ranged, known, name) ==
  LET node == Len(walk.index.nodes) + 1
  IN [walk EXCEPT
        !.names = known,
        !.index.nodes = Append(@,
          [name |-> NameId(known, name), subtree_end |-> node + 1,
           physical_tree |-> walk.current.physical_tree, kind |-> die.tag,
           defining_root |-> /\ walk.discover_roots /\ die.tag = "subprogram"
                             /\ walk.current.root_pruned_depth = None
                             /\ ~die.declaration]),
        !.index.segments = @ \o [i \in DOMAIN ranged.segments |->
                                   [range |-> ranged.segments[i], frame |-> node]],
        !.index.range_errors = IF ranged.status = "ReadError" THEN @ \cup {node} ELSE @,
        !.current.scopes = Append(@, [depth |-> die.depth, node |-> node])]

\* The cursor enters a DIE: scopes of its level end, and so may a pruned subtree.
Enter(walk, ref, depth) ==
  [walk EXCEPT
     !.current.ref = ref,
     !.current.scopes = SelectSeq(@, LAMBDA s : s.depth < depth),
     !.index = CloseScopes(@, walk.current.scopes, depth),
     !.current.root_pruned_depth = IF @ # None /\ depth <= @ THEN None ELSE @]

\* Back to the walk that was suspended.  A DIE that cannot be read ends the
\* discovery of roots, and so does an import of itself.
Finish(walk, advanced) ==
  [walk EXCEPT
     !.discover_roots = @ /\ advanced,
     !.index = CloseScopes(@, walk.current.scopes, 0),
     !.done = walk.pending = <<>>,
     !.current = IF walk.pending = <<>> THEN @ ELSE Last(walk.pending),
     !.pending = IF @ = <<>> THEN @ ELSE Front(@)]

Import(walk, ref, target) ==
  IF \E t \in ToSet(walk.pending) \cup {walk.current} : t.import = ref
  THEN [walk EXCEPT !.discover_roots = FALSE]
  ELSE IF target = None THEN walk
  ELSE [walk EXCEPT
          !.pending = Append(@, walk.current),
          !.current = Traversal(target, walk.next_tree, ref),
          !.next_tree = @ + 1]

Prune(walk, die) ==
  IF walk.current.root_pruned_depth = None /\ ~RootDescends(die.tag, walk.c_unit)
  THEN [walk EXCEPT !.current.root_pruned_depth = die.depth] ELSE walk

AppendNamed(walk, die, ranged, name) ==
  AppendFrameNode(walk, die, ranged,
                  IF name = None THEN walk.names ELSE Intern(walk.names, name), name)

Visit(walk, ref, die) ==
  IF /\ die.tag = "imported_unit" /\ walk.discover_roots
     /\ walk.current.root_pruned_depth = None
  THEN Import(walk, ref, ImportTarget(ref))
  ELSE IF die.tag \notin {"subprogram", "inlined_subroutine"} THEN Prune(walk, die)
  ELSE AppendNamed(Prune(walk, die), die, NodeRanges(die, Unit(ref)), DieFrameName(ref))

AdvanceTo(walk, ref) ==
  IF ref.die \notin DOMAIN Unit(ref).dies THEN Finish(walk, TRUE)
  ELSE IF Die(ref).tag = "unreadable" THEN Finish(walk, FALSE)
  ELSE IF Die(ref).depth <= walk.current.root_depth THEN Finish(walk, TRUE)
  ELSE Visit(Enter(walk, ref, Die(ref).depth), ref, Die(ref))
Advance(walk) == AdvanceTo(walk, [walk.current.ref EXCEPT !.die = @ + 1])

RECURSIVE Walked(_)
Walked(walk) == IF walk.done THEN walk ELSE Walked(Advance(walk))

-----------------------------------------------------------------------------
(* The interval tree: the segments by their begin, the middle of a part its     *)
(* root, each with the greatest end below it.                                    *)

Middle(begin, end) == begin + (end - begin) \div 2

\* Mutant: the right half is left out.
LeftEnd(own, left, right, begin, middle, end) ==
  Max({own} \cup (IF begin < middle THEN {left[Middle(begin, middle)]} ELSE {}))

GreatestEnd(own, left, right, begin, middle, end) ==
  Max({own} \cup (IF begin < middle THEN {left[Middle(begin, middle)]} ELSE {})
           \cup (IF middle + 1 < end THEN {right[Middle(middle + 1, end)]} ELSE {}))

Joined(own, left, right, begin, middle, end) ==
  (middle :> GreatestEnd(own, left, right, begin, middle, end)) @@ left @@ right

RECURSIVE MaxEnds(_, _, _)
Split(points, begin, middle, end) ==
  Joined(points[middle].range.end, MaxEnds(points, begin, middle),
         MaxEnds(points, middle + 1, end), begin, middle, end)
MaxEnds(points, begin, end) ==
  IF begin = end THEN <<>> ELSE Split(points, begin, Middle(begin, end), end)

WithEnds(points, ends) ==
  [p \in DOMAIN points |->
     [range |-> points[p].range, frame |-> points[p].frame, max_end |-> ends[p]]]
Sorted(points) == WithEnds(points, MaxEnds(points, 1, Len(points) + 1))
PreparePoints(index) ==
  [index EXCEPT !.points =
     Sorted(SortSeq(SelectSeq(index.segments, LAMBDA s : s.range.begin < s.range.end),
                    LAMBDA s, t : s.range.begin < t.range.begin))]

RECURSIVE PointMatches(_, _, _, _)
Around(points, address, begin, middle, end) ==
  IF points[middle].max_end <= address THEN {}
  ELSE PointMatches(points, address, begin, middle)
         \cup IF points[middle].range.begin > address THEN {}
              ELSE PointMatches(points, address, middle + 1, end)
                     \cup IF address < points[middle].range.end THEN {points[middle].frame} ELSE {}
PointMatches(points, address, begin, end) ==
  IF begin = end THEN {} ELSE Around(points, address, begin, Middle(begin, end), end)

MatchingNodes(index, address) ==
  index.range_errors \cup PointMatches(index.points, address, 1, Len(index.points) + 1)

\* The first defining function at the address, then again and again the first
\* inlined one in the subtree of the last, of the same walk.
RECURSIVE Descend(_, _, _)
DescendTo(nodes, matches, selected, inner) ==
  IF inner = {} THEN selected ELSE Descend(nodes, matches, Append(selected, Min(inner)))
Descend(nodes, matches, selected) ==
  DescendTo(nodes, matches, selected,
            {n \in matches : /\ n > Last(selected) /\ n < nodes[Last(selected)].subtree_end
                             /\ nodes[n].kind = "inlined_subroutine"
                             /\ nodes[n].physical_tree = nodes[Last(selected)].physical_tree})

FromRoot(nodes, matches, roots) ==
  IF roots = {} THEN <<>> ELSE Descend(nodes, matches, <<Min(roots)>>)
SelectedFrames(nodes, matches) ==
  FromRoot(nodes, matches, {n \in matches : nodes[n].defining_root})

-----------------------------------------------------------------------------
(* Line rows, as ranges that do not touch.                                      *)

RowRanges(rows) ==
  LET Read(read, row) ==
        [ranges |-> IF read.previous # None /\ read.previous < row.address
                    THEN Append(read.ranges, Segment(read.previous, row.address))
                    ELSE read.ranges,
         previous |-> IF row.end THEN None ELSE row.address]
  IN FoldLeft(Read, [ranges |-> <<>>, previous |-> None], rows).ranges

MergeRanges(ranges) ==
  LET Merge(merged, range) ==
        IF merged # <<>> /\ range.begin <= Last(merged).end
        THEN [merged EXCEPT ![Len(merged)].end = Max({@, range.end})]
        ELSE Append(merged, range)
  IN FoldLeft(Merge, <<>>, SortSeq(ranges, LAMBDA r, s : r.begin < s.begin))

\* The first range that ends after the address decides.
HasLine(lines, address) ==
  LET after == SelectInSeq(lines, LAMBDA l : l.end > address)
  IN after # 0 /\ lines[after].begin <= address

RangesContain(ranges, address) ==
  ranges = None \/ \E r \in ToSet(ranges) : r.begin <= address /\ address < r.end

-----------------------------------------------------------------------------
(* The cache of an object.                                                      *)

Indexed(walked) == [index |-> PreparePoints(walked.index), names |-> walked.names]
UnitFrameIndex(root, known) ==
  IF Unit(root).dies = <<>> THEN [index |-> EmptyIndex, names |-> known]
  ELSE Indexed(Walked(
         [index |-> EmptyIndex, names |-> known, current |-> Traversal(root, 0, None),
          pending |-> <<>>, next_tree |-> 1, c_unit |-> IsCUnit(root), done |-> FALSE,
          discover_roots |-> Die(root).tag = "compile_unit"]))

Unparsed == [ranges |-> <<>>, lines |-> <<>>, frame_index |-> EmptyIndex]
Scanned(unit) ==
  IF ~unit.parsed THEN Unparsed
  ELSE [ranges |-> unit.ranges, lines |-> MergeRanges(RowRanges(unit.rows)), frame_index |-> None]

UnitMatches(cached, addresses) == \E a \in addresses : RangesContain(cached.ranges, a)

\* Builds what this batch needs, the names of each unit after those before it.
BuildIndex(cached, known, addresses) ==
  LET Store(built, u, made) ==
        [units |-> [built.units EXCEPT ![u].frame_index = made.index], names |-> made.names]
      Build(built, u) ==
        IF cached[u].frame_index # None \/ ~UnitMatches(cached[u], addresses) THEN built
        ELSE Store(built, u, UnitFrameIndex(DieRef(u, 1), built.names))
  IN FoldLeft(Build, [units |-> cached, names |-> known], [u \in DOMAIN cached |-> u])

\* A name is demangled when it is shown.
Shown(name) == IF name = "_Zf" THEN "f()" ELSE name

\* The frames of an index, innermost first; the function has its symbol's name.
SelectedNames(nodes, selected, known, base) ==
  LET NameOf(node) ==
        IF node.kind = "subprogram" /\ base # None THEN base
        ELSE IF node.name = None THEN "<unknown>" ELSE Shown(known[node.name])
  IN IF Len(selected) < 2 THEN None
     ELSE Reverse([i \in DOMAIN selected |-> NameOf(nodes[selected[i]])])
FrameNames(cached, known, address, base) ==
  IF cached.frame_index = None \/ ~RangesContain(cached.ranges, address)
     \/ ~HasLine(cached.lines, address)
  THEN None
  ELSE SelectedNames(cached.frame_index.nodes,
         SelectedFrames(cached.frame_index.nodes, MatchingNodes(cached.frame_index, address)),
         known, base)

\* The first unit that has frames for the address.
FirstOf(frames) ==
  LET first == SelectInSeq(frames, LAMBDA f : f # None)
  IN IF first = 0 THEN None ELSE frames[first]
DwarfFrames(cached, known, address, base) ==
  FirstOf([u \in DOMAIN cached |-> FrameNames(cached[u], known, address, base)])

HasSourceLine(cached, address) ==
  \E u \in DOMAIN cached :
    RangesContain(cached[u].ranges, address) /\ RangesContain(cached[u].lines, address)

\* One batch: the functions' symbols first, then the frames of those that have one.
Answer(frames, inline, base) == [frames |-> frames, inline |-> inline, base |-> base]
Named(name, offset) == [name |-> name, offset |-> offset]
NoFrames == Answer(<<>>, FALSE, FALSE)

Plain(shown) == [i \in DOMAIN shown |-> Named(shown[i], None)]
Told(cached, address, symbol, record, frames) ==
  IF frames # None THEN Answer(Plain(Reverse(frames)), TRUE, symbol.name \in ToSet(frames))
  ELSE IF /\ backend = "rust-addr2line" /\ ~HasSourceLine(cached, address)
          /\ record # None /\ record # symbol.name
       THEN Answer(<<Named(record, None)>>, TRUE, FALSE)
  ELSE Answer(<<Named(symbol.name, symbol.offset)>>, FALSE, TRUE)

Resolve(cached, known, address, symbol) ==
  IF symbol = None THEN NoFrames
  ELSE Told(cached, address, symbol, object.records[address],
            DwarfFrames(cached, known, address, symbol.name))

Init ==
  /\ \E f \in DOMAIN Objects : object \in Objects[f]
  /\ backend \in object.backends
  /\ units = None /\ names = <<>> /\ failed = FALSE
  /\ answers = <<>> /\ batches = 0

Remember(built) == units' = built.units /\ names' = built.names

\* Addresses without a symbol need no index; DWARF that cannot be read is not
\* tried again.
Prepare(addresses) ==
  LET asked == {a + object.bias : a \in {b \in addresses : object.symbols[b] # None}}
  IN IF failed \/ asked = {} THEN UNCHANGED <<units, names, failed>>
     ELSE IF ~object.loads THEN failed' = TRUE /\ UNCHANGED <<units, names>>
     ELSE /\ UNCHANGED failed
          /\ Remember(BuildIndex(IF units = None
                                 THEN [u \in DOMAIN object.units |-> Scanned(object.units[u])]
                                 ELSE units, names, asked))

FoldBatch ==
  /\ batches < object.most
  /\ batches' = batches + 1
  /\ \E addresses \in object.batches :
       /\ Prepare(addresses)
       /\ answers' = [a \in addresses |-> Resolve(IF units' = None THEN <<>> ELSE units', names',
                                                    a + object.bias, object.symbols[a])]
  /\ UNCHANGED <<object, backend>>

Next == FoldBatch
Spec == Init /\ [][Next]_vars

-----------------------------------------------------------------------------
(* What perf would say, read off the trees.                                     *)

Subtree(ref) ==
  {d \in ref.die + 1 .. Len(Unit(ref).dies) : \A e \in ref.die + 1 .. d :
     /\ Unit(ref).dies[e].depth > Die(ref).depth
     /\ Unit(ref).dies[e].tag # "unreadable"}

CutShort(ref) ==
  LET next == ref.die + Cardinality(Subtree(ref)) + 1
  IN next \in DOMAIN Unit(ref).dies /\ Unit(ref).dies[next].tag = "unreadable"

\* A range list that breaks off holds for every address.
InList(ref, address) ==
  LET list == Die(ref).list
      entries == list.entries
      stops == {i \in DOMAIN entries : entries[i] \in {<<0, 0>>, <<Ones, Ones>>}}
      stop == IF stops = {} THEN Len(entries) + 1 ELSE Min(stops)
      bases == {i \in DOMAIN entries : entries[i][1] = Ones}
      Base(i) == LET before == {b \in bases : b < i}
                 IN IF before = {} THEN Unit(ref).low ELSE entries[Max(before)][2]
      From(i, base) == base + entries[i][1] <= address /\ address < base + entries[i][2]
      indexed == list.form = "index"
  IN \/ ~indexed /\ (~list.inside \/ (list.form = "data" /\ Unit(ref).version > 3))
     \/ /\ list.inside
        /\ IF indexed \/ Unit(ref).version > 4
           THEN ~list.ends \/ \E i \in DOMAIN entries : From(i, 0)
           ELSE \/ stops = {} \/ entries[stop] # <<0, 0>>
                \/ \E i \in 1 .. stop - 1 : i \notin bases /\ From(i, Base(i))

Covers(ref, address) ==
  LET die == Die(ref)
  IN IF die.low # None /\ die.size # None
     THEN die.low <= address /\ address < die.low + die.size
     ELSE die.list # None /\ InList(ref, address)

\* The functions libdw visits, in its order, with the units it imports in place;
\* it gives up at an import of itself and where the DIEs cannot be read.
RECURSIVE Visited(_, _, _)
Imported(taken, target, chain, c_unit) ==
  LET Joining(inner) == [on |-> inner.on, roots |-> taken.roots \o inner.roots]
  IN IF target = None THEN taken ELSE Joining(Visited(target, chain, c_unit))
Take(taken, ref, chain, c_unit) ==
  IF ~taken.on THEN taken
  ELSE IF Die(ref).tag = "imported_unit"
       THEN IF ref \in chain THEN [taken EXCEPT !.on = FALSE]
            ELSE Imported(taken, ImportTarget(ref), chain \cup {ref}, c_unit)
  ELSE IF Die(ref).tag = "subprogram" /\ ~Die(ref).declaration
       THEN [taken EXCEPT !.roots = Append(@, ref)]
  ELSE taken
\* Those below `ref` that no DIE between hides.
Visible(ref, below, c_unit) ==
  {d \in below : \A e \in below :
     d \in Subtree(DieRef(ref.unit, e)) => RootDescends(Die(DieRef(ref.unit, e)).tag, c_unit)}
Visited(ref, chain, c_unit) ==
  LET Through(visible) ==
        FoldLeft(LAMBDA taken, d :
                   IF d \in visible THEN Take(taken, DieRef(ref.unit, d), chain, c_unit) ELSE taken,
                 [on |-> TRUE, roots |-> <<>>], [d \in 1 .. Len(Unit(ref).dies) |-> d])
      Cut(taken) == [taken EXCEPT !.on = @ /\ ~CutShort(ref)]
  IN Cut(Through(Visible(ref, Subtree(ref), c_unit)))

\* The chain of functions inlined at an address below a function.
RECURSIVE InlinedBelow(_, _)
FirstInlined(inner, address) ==
  LET first == CHOOSE r \in inner : \A q \in inner : r.die <= q.die
  IN IF inner = {} THEN <<>> ELSE InlinedBelow(first, address)
InlinedBelow(ref, address) ==
  <<ref>> \o FirstInlined({r \in {DieRef(ref.unit, d) : d \in Subtree(ref)} :
                             Die(r).tag = "inlined_subroutine" /\ Covers(r, address)}, address)

HasRow(u, address) ==
  LET rows == object.units[u].rows
  IN \E i \in 1 .. Len(rows) - 1 :
       ~rows[i].end /\ rows[i].address <= address /\ address < rows[i + 1].address

\* The functions of a unit at an address, outermost first.
ScopeFrom(visited, function, address) ==
  IF function = 0 THEN <<>>
  ELSE InlinedBelow(visited[function], address)
ScopeOf(visited, address) ==
  ScopeFrom(visited, SelectInSeq(visited, LAMBDA r : Covers(r, address)), address)
PerfScope(root, address) ==
  IF /\ Unit(root).parsed /\ Unit(root).dies # <<>>
     /\ RangesContain(Unit(root).ranges, address) /\ HasRow(root.unit, address)
     /\ Die(root).tag = "compile_unit"
  THEN ScopeOf(Visited(root, {}, IsCUnit(root)).roots, address) ELSE <<>>

NameOr(name) == IF name = None THEN "<unknown>" ELSE Shown(name)
ScopeNames(scope, base) ==
  [i \in DOMAIN scope |-> IF i = 1 THEN base ELSE NameOr(DieFrameName(scope[i]))]
FirstScope(scopes, base) ==
  LET first == SelectInSeq(scopes, LAMBDA scope : Len(scope) > 1)
  IN IF first = 0 THEN <<>> ELSE ScopeNames(scopes[first], base)
PerfFrames(address, base) ==
  IF ~object.loads THEN <<>>
  ELSE FirstScope([u \in DOMAIN object.units |-> PerfScope(DieRef(u, 1), address)], base)

ToldAsPerf(symbol, address, frames, answer, told) ==
  IF frames # <<>> THEN told = frames /\ answer.inline
  ELSE \/ told = <<symbol.name>> /\ answer.frames[1].offset = symbol.offset
       \/ /\ told = <<object.records[address]>>
          /\ ~\E u \in DOMAIN object.units :
               /\ object.loads /\ object.units[u].parsed /\ HasRow(u, address)
               /\ RangesContain(object.units[u].ranges, address)

\* An address is told the functions that perf would print for it: the symbol it is in,
\* then those inlined there by the first unit that has any, whatever was asked before
\* and together with it (dwarf_frame_names_for_base_symbol).  Without any the symbol
\* stays, and its offset, or another name of the function that has no line there.
InlinesExact ==
  \A a \in DOMAIN answers :
    IF object.symbols[a] = None THEN answers[a].frames = <<>>
    ELSE ToldAsPerf(object.symbols[a], a + object.bias,
                    PerfFrames(a + object.bias, object.symbols[a].name), answers[a],
                    [i \in DOMAIN answers[a].frames |-> answers[a].frames[i].name])
=============================================================================
