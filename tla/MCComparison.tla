---------------------------- MODULE MCComparison ----------------------------
(* The benchmark's comparison (StreamComparison) and the symbol tables of       *)
(* objects (ObjectTables), on small instances.                                  *)
(* `part` says which of them runs; the other rests in one initial state.        *)
EXTENDS StreamComparison

CONSTANT None

VARIABLES
  part,
  table_object, table_file, table_kernel, table_modules, table_sections, table_record, table_asked

tableVars == <<table_object, table_file, table_kernel, table_modules, table_sections, table_record,
               table_asked>>
suiteVars == <<part, vars, tableVars>>

\* Outputs with either side ahead, and with lines after one without a count.
Line(stack, count) == [stack |-> stack, count |-> count]
NoCount == Line(0, 0)
MCOutputs ==
  {[pyro |-> <<Line(1, 1), Line(2, 1)>>, inferno |-> <<Line(1, 1), Line(2, 1)>>],
   [pyro |-> <<Line(1, 1), Line(2, 1)>>, inferno |-> <<Line(2, 2)>>],
   [pyro |-> <<Line(1, 1)>>, inferno |-> <<NoCount, Line(1, 1), Line(2, 1)>>],
   [pyro |-> <<>>, inferno |-> <<Line(2, 1)>>]}

\* Objects: sections, symbols and the tables these are in.
Sec(name, address, offset, size) ==
  [name |-> name, alloc |-> TRUE, exec |-> name \in {".text", ".text.hot", ".init.text", ".plt", ".plt.sec"},
   nobits |-> FALSE, address |-> address, offset |-> offset, size |-> size, align |-> 1]
Sym(name, section, address, size) ==
  [name |-> name, spelling |-> "plain", underscores |-> 0, length |-> 1, type |-> "func", hidden |-> FALSE,
   binding |-> "global", section |-> section, address |-> address, size |-> size]
Row(type, section, address, size) == [Sym("x", section, address, size) EXCEPT !.type = type]
Seg(address, offset, size, memory) ==
  [address |-> address, offset |-> offset, size |-> size, memory |-> memory]
Elf(arch, segments, sections, regular, dynamic) ==
  [arch |-> arch, relocatable |-> FALSE, possibly_runtime |-> TRUE, debug_line |-> FALSE,
   segments |-> segments, sections |-> sections, regular |-> regular, dynamic |-> dynamic, plt |-> None,
   runtimes |-> [x \in {} |-> None], asks |-> {}]

Image == <<Sec(".text", 4, 2, 5), Sec(".data", 9, 7, 2), Sec(".rodata", 11, 9, 2),
           [Sec(".note", 0, 1, 2) EXCEPT !.alloc = FALSE]>>
Few == {Row("func", 1, 4, 2), Row("func", 1, 7, 1), Row("ifunc", 1, 6, 1), Row("object", 2, 9, 0),
        [Row("func", 1, 4, 2) EXCEPT !.name = "y", !.binding = "weak"]}
Many == Few \cup
  {Row("func", 1, 5, 2), Row("notype", 1, 6, 1), Row("notype", 3, 11, 1), Row("tls", 2, 9, 1),
   [Row("notype", 1, 6, 1) EXCEPT !.hidden = TRUE], [Row("notype", 1, 6, 2) EXCEPT !.spelling = "$x"],
   [Row("notype", 1, 6, 2) EXCEPT !.spelling = "$xrv"], Row("func", 4, 1, 1), Row("func", None, 5, 2),
   [Row("func", 1, 5, 1) EXCEPT !.binding = "local", !.spelling = ".L"], Row("tfunc", 1, 7, 2)}
Split(rows, n) == <<SubSeq(rows, 1, n), SubSeq(rows, n + 1, Len(rows))>>
Users ==
  {[Elf(arch, <<Seg(4, 2, 9, 11)>>, Image, Split(rows, n)[1], Split(rows, n)[2]) EXCEPT !.asks = {"kernel"}] :
     arch \in {"x86_64", "arm", "aarch64", "riscv64"}, rows \in [1 .. 2 -> Many], n \in 0 .. 2}
  \cup
  {[Elf("x86_64", segments, Image, Split(rows, n)[1], Split(rows, n)[2]) EXCEPT !.asks = {"kernel"}] :
     segments \in {<<Seg(4, 2, 9, 11)>>, <<Seg(4, 2, 5, 5), Seg(9, 7, 2, 2)>>, <<>>},
     rows \in [1 .. 3 -> Few], n \in 1 .. 3}

Relocation(slot, name, ifunc) == [slot |-> slot, name |-> name, ifunc |-> ifunc]
Relocations == {Relocation(1, "a", None), Relocation(2, None, 4), Relocation(3, "c", None), Relocation(0, None, None)}
Plts ==
  {[Elf(arch, <<Seg(4, 2, 13, 13)>>,
        <<Sec(".text", 4, 2, 3), Sec(".plt", 7, 5, size), Sec(".plt.sec", 13, 11, 4)>>, rows, <<>>)
      EXCEPT !.plt = [section |-> 2, sec |-> sec, relocations |-> relocations], !.asks = {"kernel"}] :
     arch \in {"x86_64", "arm"}, size \in {4, 6}, sec \in {None, 3},
     rows \in {<<Sym("f", 1, 4, 1), Sym("_f", 1, 4, 1), Sym("h", 1, 6, 1)>>, <<Sym("g", 1, 4, 4)>>, <<>>,
               <<[Sym("w", 1, 4, 2) EXCEPT !.binding = "weak"], [Sym("f", 1, 4, 0) EXCEPT !.underscores = 1]>>},
     relocations \in {<<>>} \cup {<<r>> : r \in Relocations}
                     \cup {<<r, q>> : r \in Relocations, q \in Relocations}
                     \cup {<<Relocation(3, "c", None), Relocation(1, "a", None), Relocation(2, None, 4)>>}}

\* Three functions in the text, and two sections that are not linked yet.
Functions(address, sizes) ==
  {[Row(type, 1, address + a, size) EXCEPT !.binding = binding] :
     type \in {"func", "notype"}, a \in 0 .. 2, size \in sizes, binding \in {"global"}}
Records ==
  {[Elf("x86_64", <<>>, <<Sec(".text", 2, 0, 5)>>, rows, <<>>) EXCEPT !.debug_line = TRUE, !.asks = {"record"}] :
     rows \in [1 .. 3 -> Functions(2, {0, 2})]}
  \cup
  {[Elf(arch, <<>>, <<Sec(".text", 0, 0, 4), Sec(".text.hot", 0, 4, 4)>>, Split(rows, n)[1], Split(rows, n)[2])
      EXCEPT !.debug_line = TRUE, !.asks = {"record"}, !.relocatable = TRUE] :
     arch \in {"x86_64", "arm"}, n \in {0, 2},
     rows \in [1 .. 2 -> {Row("func", 1, 1, 1), Row("notype", 2, 0, 2), Row("ifunc", 2, 0, 3), Row("object", 1, 0, 2),
                          Row("tfunc", 1, 3, 1), [Row("notype", 1, 0, 0) EXCEPT !.binding = "local", !.hidden = TRUE]}]}

\* Modules: text in pieces, data, sections of one name, and contents kept elsewhere.
Bits(section) == [section EXCEPT !.nobits = TRUE]
Pieces == <<Sec(".text", 0, 1, 2), Sec(".text.hot", 0, 3, 2), Sec(".init.text", 0, 5, 2), Sec(".data", 0, 7, 2),
            Sec(".extra", 0, 9, 2), Sec(".extra", 0, 11, 2)>>
Moved == [i \in DOMAIN Pieces |-> [Pieces[i] EXCEPT !.offset = @ + 1, !.address = 1]]
Renamed == [Moved EXCEPT ![5].name = ".data", ![2].align = 4]
Modules ==
  {[Elf("x86_64", <<>>, [i \in DOMAIN Pieces |-> IF i \in bits THEN Bits(Pieces[i]) ELSE Pieces[i]],
        rows, dynamic)
      EXCEPT !.asks = {"module"}, !.relocatable = relocatable, !.possibly_runtime = possibly,
             !.runtimes = [r \in {"r1", "r2"} |->
               IF r = "r1" THEN [possibly_runtime |-> possibly2, recorded |-> recorded, sections |-> Renamed]
               ELSE [possibly_runtime |-> TRUE, recorded |-> TRUE, sections |-> Moved]]] :
     bits \in {{}, {1, 2}, {2, 5}, 1 .. 6}, relocatable \in BOOLEAN,
     possibly \in BOOLEAN, possibly2 \in BOOLEAN, recorded \in {TRUE},
     rows \in {<<Sym("a", i, 1, 1), Sym("b", j, 0, 1), Row("notype", k, 1, 1)>> : i \in 1 .. 6, j \in {2, 5}, k \in 5 .. 6},
     dynamic \in {<<>>, <<Sym("d", 1, 0, 1)>>}}

TableObjects == INSTANCE ObjectTables WITH
  Objects <- [users |-> Users, plts |-> Plts, records |-> Records, modules |-> Modules],
  Most <- 8, EntrySize <- 2, Page <- 4, Span <- 17, Wrap <- 64,
  object <- table_object, file <- table_file, kernel_sections <- table_kernel,
  modules <- table_modules, module_sections <- table_sections, record <- table_record,
  asked <- table_asked

-----------------------------------------------------------------------------
ASSUME TableConstants == TableObjects!TablesAssumption

MCInit ==
  /\ part \in {"comparison", "tables"}
  /\ Init
  /\ IF part = "tables" THEN TableObjects!Init
     ELSE /\ table_object = None /\ table_file = None /\ table_kernel = None /\ table_modules = None
          /\ table_sections = None /\ table_record = None /\ table_asked = None
  /\ part # "comparison" => output["pyro"] = <<>> /\ ~piped_script

Comparing(step) == part = "comparison" /\ step /\ UNCHANGED <<part, tableVars>>

MCNext ==
  \/ Comparing(Next)
  \/ part = "tables" /\ TableObjects!Next /\ UNCHANGED <<part, vars>>

\* The fairness of StreamComparison.
MCSpec ==
  /\ MCInit /\ [][MCNext]_suiteVars
  /\ \A s \in Sides : /\ WF_suiteVars(Comparing(Produce(s)))
                      /\ WF_suiteVars(Comparing(Draw(s)))
                      /\ WF_suiteVars(Comparing(Hash(s)))
  /\ WF_suiteVars(Comparing(Export)) /\ WF_suiteVars(Comparing(Collapse))
  /\ WF_suiteVars(Comparing(Compare))

-----------------------------------------------------------------------------
\* The symbols of an object file are told as the file means them.
TablesTruthful == part = "tables" => TableObjects!ObjectExact

\* Whatever fails, and however small the pipes are, a comparison returns.
ComparisonReturns == part = "comparison" => ComparisonEnds
=============================================================================
