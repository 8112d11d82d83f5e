----------------------------- MODULE MCSymbols -----------------------------
(* perf's symbol tree under insertions and removals (SymbolTree), the index     *)
(* built with it (SymbolIndex), and the functions inlined at an address          *)
(* (InlineFrames), on the small instances below.  They are checked in one run;  *)
(* `part` names the instance that runs, and the variables of the other modules  *)
(* rest in one initial state.                                                    *)
EXTENDS Integers, Sequences, SequencesExt, FiniteSets, FiniteSetsExt, Functions, TLC

CONSTANT None   \* model value

VARIABLES
  part,
  tree,                                                                   \* both
  start, end, kind, table, fixup, header, phase, index, before,     \* SymbolIndex
  inline_object, inline_backend, inline_units, inline_names, inline_failed,
  inline_answers, inline_batches                                    \* InlineFrames

indexVars == <<start, end, kind, table, fixup, header, phase, index, before>>
inlineVars ==
  <<inline_object, inline_backend, inline_units, inline_names, inline_failed,
    inline_answers, inline_batches>>
suiteVars == <<part, tree, indexVars, inlineVars>>

Plain == [type |-> "FUNC", weak |-> FALSE, global |-> TRUE,
          underscores |-> 0, length |-> 3, sys |-> FALSE]
KindsOfSymbols ==
  {Plain, [Plain EXCEPT !.type = "NOTYPE"], [Plain EXCEPT !.weak = TRUE],
   [Plain EXCEPT !.global = FALSE], [Plain EXCEPT !.underscores = 2, !.length = 5],
   [Plain EXCEPT !.sys = TRUE]}

\* Trees of up to nine symbols, two of them at each address.
Trees == INSTANCE SymbolTree WITH Ids <- 0 .. 8, Shared <- 2

\* All files with three symbols of one kind.
Layouts == INSTANCE SymbolIndex WITH
  Ids <- 1 .. 3, MaxStart <- 3, MaxSize <- 3, Page <- 2, Kinds <- {Plain}

\* Three symbols at one address that differ in what decides between duplicates.
Duplicates == INSTANCE SymbolIndex WITH
  Ids <- 1 .. 3, MaxStart <- 0, MaxSize <- 1, Page <- 2, Kinds <- KindsOfSymbols

-----------------------------------------------------------------------------
(* Objects with inlined functions.  Most have one unit with a row of text for    *)
(* all addresses; every function and inlined function has a name of its own.    *)

Die(depth, tag, from, to) ==
  [depth |-> depth, tag |-> tag, low |-> from, size |-> to - from, list |-> None,
   declaration |-> FALSE,
   attrs |-> <<[name |-> "name", readable |-> TRUE, value |-> ToString(<<depth, tag, from, to>>)]>>]
Attr(name, value) == [name |-> name, readable |-> TRUE, value |-> value]
Language(name) == Attr("language", name)
Bare(depth, tag, attrs) ==
  [depth |-> depth, tag |-> tag, low |-> None, size |-> None, list |-> None,
   declaration |-> FALSE, attrs |-> attrs]
Root == Bare(0, "compile_unit", <<Language("Rust")>>)
CRoot == Bare(0, "compile_unit", <<Language("C")>>)
Row(address, last) == [address |-> address, end |-> last]
UnitOf(dies) ==
  [parsed |-> TRUE, version |-> 4, low |-> 0, ranges |-> None,
   rows |-> <<Row(0, FALSE), Row(4, TRUE)>>, dies |-> dies]
Object(list, batches) ==
  [units |-> list, loads |-> TRUE, bias |-> 0, backends |-> {"rust-addr2line"},
   symbols |-> [a \in 0 .. 3 |-> [name |-> "base", offset |-> a]],
   records |-> [a \in 0 .. 3 |-> None], batches |-> batches, most |-> 1]
All == {{0, 1, 2, 3}}

\* Every tree of three DIEs, in a unit of C and of another language.
Shapes(n) == {s \in [1 .. n -> 1 .. n] : s[1] = 1 /\ \A i \in 2 .. n : s[i] <= s[i - 1] + 1}
Tags == {"subprogram", "inlined_subroutine", "lexical_block", "structure_type"}
Spans == {<<0, 1>>, <<0, 2>>, <<1, 2>>}
SmallTrees ==
  {Object(<<UnitOf(<<root>> \o [i \in 1 .. 3 |-> Die(s[i], t[i], r[i][1], r[i][2])])>>, {{0, 1}}) :
     root \in {Root, CRoot}, s \in Shapes(3), t \in [1 .. 3 -> Tags], r \in [1 .. 3 -> Spans]}

\* A function with three DIEs below it, and one with four inlined functions whose
\* ranges meet in every way.
Below ==
  {Object(<<UnitOf(<<Root, Die(1, "subprogram", 0, 2)>>
                \o [i \in 1 .. 3 |-> Die(s[i] + 1, t[i], r[i][1], r[i][2])])>>, {{0, 1}}) :
     s \in Shapes(3), t \in [1 .. 3 -> {"subprogram", "inlined_subroutine", "lexical_block"}],
     r \in [1 .. 3 -> Spans]}
Intervals == {p \in (0 .. 3) \X (1 .. 4) : p[1] < p[2]}
Siblings ==
  {Object(<<UnitOf(<<Root, Die(1, "subprogram", 0, 4)>>
                \o [i \in 1 .. 4 |-> Die(2, "inlined_subroutine", r[i][1], r[i][2])])>>, All) :
     r \in [1 .. 4 -> Intervals]}

\* Units that import others, or themselves, at the top or inside of a DIE.
Import(depth, unit) ==
  Bare(depth, "imported_unit", <<Attr("import", [unit |-> unit, die |-> 1])>>)
Function(depth, from, to) ==
  <<Die(depth, "subprogram", from, to), Die(depth + 1, "inlined_subroutine", from, to)>>
Partial(dies) == [UnitOf(<<Bare(0, "partial_unit", <<>>)>> \o dies) EXCEPT !.ranges = <<>>]
Imports ==
  {Object(<<UnitOf(<<root>> \o Function(1, 3, 4) \o <<Die(1, tag, 0, 1), Import(2, 2)>>
                \o Function(2, 0, 1) \o Function(1, 0, 3) \o again),
            Partial(Function(1, 2, 3) \o <<Import(1, unit)>> \o Function(1, 1, 2) \o rest),
            Partial(Function(1, 0, 1) \o back)>>, All) :
     root \in {Root, CRoot, Bare(0, "skeleton_unit", <<>>)}, tag \in Tags \cup {"namespace"},
     again \in {<<>>, <<Import(1, 2), Import(1, 3)>>}, unit \in 1 .. 3,
     rest \in {<<>>, <<Bare(1, "unreadable", <<>>)>>}, back \in {<<>>, <<Import(1, 2)>>}}

\* Functions whose ranges are lists.
List(form, inside, ends, entries) ==
  [form |-> form, inside |-> inside, ends |-> ends, entries |-> entries]
Entries ==
  {<<>>, <<<<0, 1>>>>, <<<<0, 1>>, <<2, 3>>, <<0, 0>>, <<1, 2>>>>,
   <<<<0, 1>>, <<9, 2>>, <<0, 1>>, <<0, 0>>>>, <<<<1, 2>>, <<9, 9>>, <<0, 0>>>>}
Listed(die, list) == [die EXCEPT !.low = None, !.size = None, !.list = list]
Lists ==
  {Object(<<[UnitOf(<<Root, Die(1, "subprogram", 0, 4), Listed(Die(2, tag, 0, 0), list)>>
                 \o <<Die(3, "inlined_subroutine", 1, 3), Die(2, "inlined_subroutine", 0, 4)>>)
               EXCEPT !.version = version, !.low = 1]>>, All) :
     tag \in {"subprogram", "inlined_subroutine"}, version \in 3 .. 5,
     list \in {List(form, inside, ends, entries) :
                 form \in {"index", "sec_offset", "data"}, inside \in BOOLEAN,
                 ends \in BOOLEAN, entries \in Entries}}

\* An inlined function that is named by itself, through others, or not at all.
Named(attrs) ==
  Object(<<UnitOf(<<Root, Die(1, "subprogram", 0, 4), [Die(2, "inlined_subroutine", 0, 2) EXCEPT !.attrs = attrs],
               Die(2, "inlined_subroutine", 1, 4),
               Bare(1, "subprogram", <<Attr("name", "first"), Attr("linkage_name", "_Zf")>>),
               Bare(1, "subprogram", <<Attr("origin", [unit |-> 1, die |-> 5])>>),
               Bare(1, "subprogram", <<Attr("specification", [unit |-> 1, die |-> 6])>>),
               Bare(1, "subprogram", <<Attr("origin", [unit |-> 1, die |-> 7])>>)>>),
            [UnitOf(<<Root, Bare(1, "subprogram", <<Attr("name", "lost")>>)>>) EXCEPT !.parsed = FALSE]>>,
         All)
To(name, unit, die) == Attr(name, [unit |-> unit, die |-> die])
Unreadable(attr) == [attr EXCEPT !.readable = FALSE]
Names ==
  {Named(attrs) : attrs \in
     {<<>>, <<Attr("name", "own")>>, <<Attr("name", "own"), Attr("linkage_name", "_Zf")>>,
      <<To("origin", 1, 8), Attr("name", "own")>>, <<To("origin", 1, 7)>>, <<To("origin", 2, 2)>>,
      <<To("origin", 2, 2), To("specification", 1, 5)>>, <<To("specification", 1, 6)>>,
      <<Unreadable(Attr("linkage_name", "x")), Attr("name", "own")>>,
      <<Attr("name", "own"), Unreadable(Attr("linkage_name", "x"))>>}}

\* Units that share addresses, asked for in several batches.
Overlapping ==
  {[Object(<<[UnitOf(<<Root>> \o Function(1, 0, 1) \o <<Die(1, "subprogram", 1, 3)>>) EXCEPT !.ranges = first],
             [UnitOf(<<Root>> \o Function(1, 0, 3)) EXCEPT !.ranges = second, !.rows = rows],
             [UnitOf(<<Root>> \o Function(1, 0, 2)) EXCEPT !.parsed = FALSE]>>,
           {{0}, {1}, {0, 2}, {3}})
      EXCEPT !.symbols[1] = symbol, !.records[2] = record, !.loads = loads,
             !.backends = {"addr2line", "rust-addr2line"}, !.most = 3] :
     first \in {None, <<[begin |-> 0, end |-> 3]>>},
     second \in {None, <<[begin |-> 1, end |-> 3]>>},
     rows \in {<<>>, <<Row(0, FALSE), Row(1, FALSE), Row(1, TRUE), Row(2, FALSE), Row(3, TRUE)>>},
     symbol \in {None, [name |-> "other", offset |-> 0]}, record \in {None, "base", "record"},
     loads \in BOOLEAN}

Inlines == INSTANCE InlineFrames WITH
  Objects <- <<SmallTrees, Below, Siblings, Imports, Lists, Names, Overlapping>>,
  MaxReferences <- 3, Ones <- 9, object <- inline_object, backend <- inline_backend,
  units <- inline_units, names <- inline_names, failed <- inline_failed,
  answers <- inline_answers, batches <- inline_batches

-----------------------------------------------------------------------------
ASSUME SymbolConstants ==
  /\ Trees!TreeAssumption /\ Layouts!IndexAssumption /\ Duplicates!IndexAssumption
  /\ Inlines!InlineFramesAssumption

OneSymbol ==
  /\ start = <<0>> /\ end = <<0>> /\ kind = <<Plain>> /\ table = <<1>> /\ fixup = FALSE
  /\ header = "none" /\ phase = 0 /\ index = None /\ before = None

NoObject ==
  /\ inline_object = None /\ inline_backend = None /\ inline_units = None /\ inline_names = <<>>
  /\ inline_failed = FALSE /\ inline_answers = <<>> /\ inline_batches = 0

MCInit ==
  \/ part = "trees" /\ Trees!Init /\ OneSymbol /\ NoObject
  \/ part = "layouts" /\ Layouts!Init /\ NoObject
  \/ part = "duplicates" /\ Duplicates!Init /\ NoObject
  \/ part = "inlines" /\ Inlines!Init /\ Trees!Init /\ OneSymbol

MCNext ==
  \/ part = "trees" /\ Trees!Next /\ UNCHANGED <<part, indexVars, inlineVars>>
  \/ part = "layouts" /\ Layouts!Next /\ UNCHANGED <<part, inlineVars>>
  \/ part = "duplicates" /\ Duplicates!Next /\ UNCHANGED <<part, inlineVars>>
  \/ part = "inlines" /\ Inlines!Next /\ UNCHANGED <<part, tree, indexVars>>

MCSpec == MCInit /\ [][MCNext]_suiteVars

-----------------------------------------------------------------------------
(* The properties of the modules, under this suite's instances.            *)

\* The tree stays a red-black tree whose links and shortcut are right.
TreeExact == part = "trees" => Trees!TreeExact

\* Rotations and removals keep the order of the symbols: the tree implements
\* SymbolOrder.
KeepsOrder == [][part = "trees" => Trees!Ordered!Next]_<<part, tree>>

\* The index answers as perf's walk through the tree would, whether kept as a list
\* or as a copy; the tables it is made from have no duplicates and no empty
\* symbols; a removed PLT header cuts only the symbol that reached over it.
TablesExact ==
  /\ part = "layouts" => Layouts!TablesExact
  /\ part = "duplicates" => Duplicates!TablesExact

\* A symbol is removed as a duplicate only if one at the same address stays that
\* yields to none of them.
WinnerUnbeaten == [][part = "duplicates" => Duplicates!WinnerStays]_suiteVars

\* An address is told the functions that perf would print for it, whatever was
\* asked before and together with it.
InlinesExact == Inlines!InlinesExact
=============================================================================
