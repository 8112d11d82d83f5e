---------------------------- MODULE ObjectTables ----------------------------
(***************************************************************************)
(* The symbol tables of ELF objects in src/symbols.rs: which rows of a     *)
(* file's two tables are perf's symbols, the names made up for its PLT,    *)
(* the indexes by file offset of a user object, of a kernel's section and  *)
(* of a module's section, and the function records binutils would tell.    *)
(*                                                                         *)
(* A symbol is known by its position in the regular table followed by the  *)
(* dynamic one and the synthesized ones.  An index is what SymbolIndex     *)
(* builds; its walk (IndexExact there) stands for the search.              *)
(***************************************************************************)
EXTENDS PerfSymbolTree, FiniteSets, FiniteSetsExt

CONSTANTS
  Objects,        \* families of objects: name -> set
  Most,           \* the symbols of an object, synthesized ones included
  EntrySize,      \* the size of a PLT entry
  Page,           \* what the last end is rounded up to
  Span,           \* the addresses asked for
  Wrap            \* where offsets wrap around

TablesAssumption ==
  /\ {Most, EntrySize, Page, Span, Wrap} \subseteq Nat \ {0} /\ None \notin 0 .. Most

VARIABLES
  object,         \* the file: architecture, headers, symbols, PLT
  file,           \* its symbols and their index, once it is opened
  kernel_sections,    \* indexes of sections, made when first asked for
  modules,        \* for each runtime candidate: maps and projection of the module
  module_sections,    \* indexes of a projection's sections
  record,         \* the function record found last, or none
  asked           \* the address asked for last

vars == <<object, file, kernel_sections, modules, module_sections, record, asked>>

Section(i) == object.sections[i]
Symbol(i) == (object.regular \o object.dynamic)[i]
Regular == 1 .. Len(object.regular)
Dynamic == Len(object.regular) + 1 .. Len(object.regular) + Len(object.dynamic)
Sections == DOMAIN object.sections

-----------------------------------------------------------------------------
(* Rows that are perf's symbols.                                              *)

Arm == {"arm", "aarch64"}

\* Markers of code and data in the names; `$xrv' is one of RISC-V only.
MappingMarker(spelling) ==
  \/ object.arch \in Arm /\ spelling \in {"$x", "$x.0"}
  \/ object.arch = "riscv64" /\ spelling \in {"$x", "$x.0", "$xrv"}

perf_symbol_is_allocated_candidate(s) ==
  /\ s.section # None /\ ~MappingMarker(s.spelling)
  /\ s.type \in {"func", "ifunc", "object"} \/ (s.type = "notype" /\ ~s.hidden)
  /\ Section(s.section).alloc

TextOrData(section) == section.name \in {".text", ".text.hot", ".data"}

perf_symbol_is_candidate(s) ==
  /\ perf_symbol_is_allocated_candidate(s)
  /\ s.type = "notype" => TextOrData(Section(s.section))

kernel_elf_name_is_eligible(spelling) == spelling = "plain"

\* Thumb's bit is not part of a function's address.
AddressOf(s) ==
  IF object.arch = "arm" /\ s.type = "func" THEN (s.address \div 2) * 2 ELSE s.address

FromTables(i) ==
  [name |-> <<Symbol(i).name, "">>, address |-> AddressOf(Symbol(i)), size |-> Symbol(i).size,
   section |-> Symbol(i).section, type |-> Symbol(i).type,
   user |-> perf_symbol_is_candidate(Symbol(i)),
   kernel |-> kernel_elf_name_is_eligible(Symbol(i).spelling),
   kind |-> [type |-> IF Symbol(i).type = "notype" THEN "NOTYPE" ELSE Symbol(i).type,
             weak |-> Symbol(i).binding = "weak", global |-> Symbol(i).binding # "local",
             underscores |-> Symbol(i).underscores, length |-> Symbol(i).length, sys |-> FALSE]]

Tables == [i \in Regular \cup Dynamic |-> FromTables(i)]
Allocated == {i \in Regular \cup Dynamic : perf_symbol_is_allocated_candidate(Symbol(i))}
Users == {i \in Allocated : Tables[i].user}

-----------------------------------------------------------------------------
(* The PLT.  Its entries are named after the relocations, in the order of the *)
(* slots these fill.                                                          *)

Plt == object.plt
EntrySection == IF Plt.sec = None THEN Plt.section ELSE Plt.sec
Lazy == Plt.sec = None
Full == Plt.relocations # None /\ Len(Plt.relocations) * EntrySize = Section(Plt.section).size
FirstEntry ==
  Section(EntrySection).address + (IF Lazy /\ ~Full THEN EntrySize ELSE 0)

Synthesized(name, address, size, section) ==
  [name |-> name, address |-> address, size |-> size, section |-> section, type |-> "func",
   user |-> TRUE, kernel |-> TRUE,
   kind |-> [type |-> "func", weak |-> FALSE, global |-> TRUE, underscores |-> 0,
             length |-> 8, sys |-> FALSE]]

PltHeader == Synthesized(<<"plt", "">>, Section(Plt.section).address,
                         IF Lazy THEN EntrySize ELSE Section(Plt.section).size, Plt.section)

\* perf_best_duplicate_symbol: of two symbols at one address the first, unless
\* the other is better.
Better(a, b) ==
  CASE (a.size = 0) # (b.size = 0) -> a.size = 0
    [] a.type # b.type /\ "notype" \in {a.type, b.type} -> a.type = "notype"
    [] a.kind.weak # b.kind.weak -> a.kind.weak
    [] a.kind.global # b.kind.global -> b.kind.global
    [] a.kind.underscores # b.kind.underscores -> b.kind.underscores < a.kind.underscores
    [] OTHER -> a.kind.length < b.kind.length
perf_best_symbol_at(address) ==
  FoldLeft(LAMBDA best, i : IF best = None \/ Better(Tables[best], Tables[i]) THEN i ELSE best, None,
           SelectSeq([i \in 1 .. Len(object.regular) + Len(object.dynamic) |-> i],
                     LAMBDA i : i \in Users /\ Tables[i].address = address))

EntryName(relocation, best) ==
  CASE relocation.name # None -> <<relocation.name, "@plt">>
    [] best # None -> <<Tables[best].name[1], "@plt">>
    [] OTHER -> <<"offset", "@plt">>
PltEntry(relocation, k) ==
  Synthesized(EntryName(relocation, IF relocation.ifunc = None THEN None
                                    ELSE perf_best_symbol_at(relocation.ifunc)),
              FirstEntry + (k - 1) * EntrySize, EntrySize, EntrySection)

\* Mutant: the names follow the order of the relocations in the file.
RelocationOrder == Plt.relocations

SlotOrder == SortSeq(Plt.relocations, LAMBDA a, b : a.slot < b.slot)
PltEntries(relocations) == [k \in DOMAIN relocations |-> PltEntry(relocations[k], k)]

perf_synthesized_plt_symbols ==
  IF object.arch # "x86_64" \/ Plt = None \/ Users = {} THEN <<>>
  ELSE <<PltHeader>> \o (IF Plt.relocations = None THEN <<>> ELSE PltEntries(SlotOrder))

Offset == Len(object.regular) + Len(object.dynamic)
AllOf(synthesized) ==
  [i \in 1 .. Offset + Len(synthesized) |->
     IF i \in DOMAIN Tables THEN Tables[i] ELSE synthesized[i - Offset]]
Candidates == AllOf(perf_synthesized_plt_symbols)

-----------------------------------------------------------------------------
(* An index of some candidates, each at the place that start[i] gives, or none. *)

Build(start, end, kind, table, tree) == INSTANCE SymbolIndex WITH
  Ids <- 1 .. Most, MaxStart <- 0, MaxSize <- 0, Kinds <- {},
  fixup <- TRUE, header <- "none", phase <- 0, index <- None, before <- None

Settled(start, kind, table, ends, t) ==
  [tree |-> Build(start, ends, kind, table, t)!Deduplicated(t, ends), end |-> ends]
Prepared(start, kind, table, fixup, b, t) ==
  IF fixup THEN Settled(start, kind, table, Build(start, b.end, kind, table, t)!FixedEnds(t), t)
  ELSE [tree |-> t, end |-> b.end]
Load(start, kind, table, fixup, n, b) ==
  Prepared(start, kind, table, fixup, b,
           Build(start, b.end, kind, table, b.tree)!Inserted(b.tree, {i \in 1 .. Most : table[i] = n}))

\* The PLT header cuts what reaches into it, and stays unless every entry of the
\* section has a relocation.
WithHeader(start, kind, table, header, b) ==
  IF header = None THEN b
  ELSE [tree |-> IF Full /\ Lazy THEN b.tree ELSE Insert(b.tree, header, start[header]),
        end |-> Build(start, b.end, kind, table, b.tree)!CutEnds]
WithEntries(start, kind, table, header, b) ==
  [b EXCEPT !.tree = Build(start, b.end, kind, table, b.tree)!Inserted(
                       b.tree, {i \in 1 .. Most : table[i] = 3 /\ i # header})]

from_elf_tables(start, end, kind, table, fixup, header) ==
  WithEntries(start, kind, table, header,
    WithHeader(start, kind, table, header,
      Load(start, kind, table, fixup, 2,
        Load(start, kind, table, fixup, 1, [tree |-> NewTree, end |-> end]))))

TableOf(i) == IF i \in Regular THEN 1 ELSE IF i \in Dynamic THEN 2 ELSE 3

\* Absent candidates have no table.
IndexOf(candidates, start, fixup, header) ==
  from_elf_tables([i \in 1 .. Most |-> IF i \in DOMAIN start THEN start[i] ELSE 0],
                  [i \in 1 .. Most |-> IF i \in DOMAIN start THEN start[i] + candidates[i].size ELSE 0],
                  [i \in 1 .. Most |-> IF i \in DOMAIN start THEN candidates[i].kind ELSE None],
                  [i \in 1 .. Most |-> IF i \in DOMAIN start THEN TableOf(i) ELSE 0],
                  fixup, header)

Placed(ids, place) == [i \in {j \in ids : place[j] # None} |-> place[i]]
HeaderAmong(ids) == IF Offset + 1 \in ids THEN Offset + 1 ELSE None

RecordAt(index, offset) == Lookup(index.tree, offset, index.end)

-----------------------------------------------------------------------------
(* The index of a user object. *)

Covering(segments, address) ==
  SelectInSeq(segments, LAMBDA g : g.address <= address /\ address < g.address + Max({g.memory, g.size}))
InSegment(n, address) == object.segments[n].offset + (address - object.segments[n].address)

normalize_section_symbol_address(c) ==
  IF c.section = None \/ c.address < Section(c.section).address THEN None
  ELSE Section(c.section).offset + (c.address - Section(c.section).address)
NormalizeUser(n, c) ==
  IF n = 0 THEN normalize_section_symbol_address(c) ELSE InSegment(n, c.address)
normalize_user_symbol_address(c) == NormalizeUser(Covering(object.segments, c.address), c)

UserPlace(candidates) ==
  [i \in DOMAIN candidates |->
     IF ~candidates[i].user THEN None
     ELSE IF i > Offset THEN normalize_section_symbol_address(candidates[i])
     ELSE normalize_user_symbol_address(candidates[i])]
UserStarts(candidates, place) == Placed(Users \cup (DOMAIN candidates \ (1 .. Offset)), place)
user_file_offsets(candidates) ==
  IndexOf(candidates, UserStarts(candidates, UserPlace(candidates)), TRUE,
          HeaderAmong(DOMAIN candidates))

\* Where an address of the image lies in the file: by the first segment that
\* holds it, else by the first allocated section.
AllocatedSections == SelectSeq([i \in Sections |-> i], LAMBDA i : Section(i).alloc)
HoldingSection(address) ==
  SelectInSeq(AllocatedSections,
              LAMBDA i : Section(i).address <= address /\ address < Section(i).address + Section(i).size)
InSection(k, address) ==
  IF k = 0 THEN None
  ELSE Section(AllocatedSections[k]).offset + (address - Section(AllocatedSections[k]).address)
Translate(n, address) ==
  IF n # 0 THEN InSegment(n, address) ELSE InSection(HoldingSection(address), address)
virtual_to_file_offset(address) == Translate(Covering(object.segments, address), address)

-----------------------------------------------------------------------------
(* The index of one section of the kernel. *)

\* An object that is not linked gives addresses from the start of their section.
SectionPlace(c, virtual, offset) ==
  IF object.relocatable THEN c.address + offset
  ELSE IF c.address < virtual THEN None ELSE (c.address - virtual) + offset

KernelIds(candidates, section) ==
  {i \in DOMAIN candidates : /\ i \in Users \/ i > Offset
                             /\ candidates[i].section = section /\ candidates[i].kernel}
KernelIndexOf(candidates, section, ids) ==
  IndexOf(candidates,
          Placed(ids, [i \in ids |-> SectionPlace(candidates[i], Section(section).address,
                                                  Section(section).offset)]),
          Section(section).name = ".text", HeaderAmong(ids))
build_kernel_section_index(candidates, section) ==
  KernelIndexOf(candidates, section, KernelIds(candidates, section))

-----------------------------------------------------------------------------
(* Modules.  Sections without contents are looked at in the runtime file that  *)
(* goes with the module, if one does.                                         *)

Selected(runtime, i) == IF Section(i).nobits THEN runtime[i] ELSE Section(i)

\* The executable sections that follow each other from the first on.
RoundUp(offset, align) == ((offset + align - 1) \div align) * align
ExtendText(end, s) ==
  IF end.stopped \/ ~(s.alloc /\ s.exec) THEN end
  ELSE IF s.name = ".init.text" \/ (end.offset # 0 /\ RoundUp(end.offset, s.align) # s.offset)
       THEN [end EXCEPT !.stopped = TRUE]
  ELSE [end EXCEPT !.offset = s.offset + s.size]
kernel_module_max_text_offset(runtime) ==
  FoldLeft(ExtendText, [offset |-> 0, stopped |-> FALSE], runtime).offset

Layout(runtime, i) ==
  [virtual_address |-> Selected(runtime, i).address, file_offset |-> Selected(runtime, i).offset,
   executable |-> Selected(runtime, i).alloc /\ Selected(runtime, i).exec,
   name |-> Selected(runtime, i).name, group |-> i]
CoreSections(sections, max) ==
  {i \in DOMAIN sections :
     \/ sections[i].name = ".text"
     \/ max # 0 /\ sections[i].executable /\ sections[i].file_offset <= max}
kernel_module_symbol_projection(runtime, max) ==
  [sections |-> [i \in {j \in Sections : Section(j).alloc} |-> Layout(runtime, i)], max |-> max,
   text_section |-> None, maps |-> <<>>, has_symbols |-> FALSE]

\* One row of a table: the text section is the first of the last table that has
\* one; sections beyond the text get a map each, those of one name share it.
Accepted(p, s) ==
  /\ perf_symbol_is_allocated_candidate(s) /\ kernel_elf_name_is_eligible(s.spelling)
  /\ s.type = "notype" => TextOrData(p.sections[s.section])
MapNamed(p, name) == SelectInSeq(p.maps, LAMBDA m : m.section = name)
MapOf(p, i) ==
  [section |-> p.sections[i].name, start |-> p.sections[i].virtual_address,
   file_offset |-> p.sections[i].file_offset, lookup_section |-> i]
Joining(p, i, n) == [p EXCEPT !.sections[i].group = p.maps[n].lookup_section]
Mapped(p, i, n) ==
  IF n = 0 THEN [p EXCEPT !.maps = Append(@, MapOf(p, i))] ELSE Joining(p, i, n)
InText(p, i, remapped) ==
  IF remapped THEN p ELSE [p EXCEPT !.text_section = i]
ModuleRow(p, i, remapped) ==
  IF p.sections[i].name = ".text" THEN [InText(p, i, remapped) EXCEPT !.has_symbols = TRUE]
  ELSE IF p.sections[i].executable /\ p.sections[i].file_offset <= p.max
       THEN [p EXCEPT !.has_symbols = TRUE]
  ELSE Mapped([p EXCEPT !.has_symbols = TRUE], i, MapNamed(p, p.sections[i].name))
ModuleStep(walk, s) ==
  IF ~Accepted(walk.p, s) THEN walk
  ELSE [p |-> ModuleRow(walk.p, s.section, walk.remapped),
        remapped |-> walk.remapped \/ walk.p.sections[s.section].name = ".text"]
ModuleTable(p, rows) == FoldLeft(ModuleStep, [p |-> p, remapped |-> FALSE], rows).p
WithCore(p) == [p EXCEPT !.max = CoreSections(p.sections, p.max)]
kernel_module_object_metadata(runtime) ==
  IF object.regular = <<>> THEN None
  ELSE WithCore(ModuleTable(ModuleTable(kernel_module_symbol_projection(
                  runtime, kernel_module_max_text_offset(runtime)), object.regular), object.dynamic))
core_sections(p) == p.max

Included(p, section) ==
  IF section \in core_sections(p) THEN core_sections(p)
  ELSE {i \in DOMAIN p.sections : p.sections[i].group = section}
ModuleIds(candidates, p, included) ==
  {i \in DOMAIN candidates :
     /\ i \in Allocated \/ i > Offset
     /\ candidates[i].kernel /\ candidates[i].section \in included
     /\ candidates[i].type = "notype" => TextOrData(p.sections[candidates[i].section])}
ModuleIndexOf(candidates, p, section, ids) ==
  IndexOf(candidates,
          Placed(ids, [i \in ids |-> SectionPlace(candidates[i],
                                                  p.sections[candidates[i].section].virtual_address,
                                                  p.sections[candidates[i].section].file_offset)]),
          section \in core_sections(p), HeaderAmong(ids))
build_kernel_module_section_index(candidates, p, section) ==
  ModuleIndexOf(candidates, p, section, ModuleIds(candidates, p, Included(p, section)))

-----------------------------------------------------------------------------
(* Function records: the symbol binutils takes for the function of an address. *)

Local(s) == s.binding = "local"
SpecialSymbol(s) ==
  \/ object.arch \in Arm /\ s.spelling \in {"$x", "$x.0"}
  \/ object.arch = "riscv64" /\ s.spelling \in {"$x", "$xrv", ".L"}
bfd_symbol_is_function_like(s) ==
  /\ s.type \notin {"section", "object", "tls"}
  /\ ~(s.size = 0 /\ Local(s) /\ s.type = "notype" /\ s.hidden)
  /\ object.arch = "arm" => s.type \in {"notype", "func", "tfunc"}
  /\ object.arch = "aarch64" => s.type \in {"notype", "func"}
  /\ Local(s) => ~SpecialSymbol(s)
BfdFunction(s) == s.type = "func" \/ (object.arch = "arm" /\ s.type = "tfunc")

\* The dynamic table counts only where the regular one has no rows at all.
Canonical == IF object.regular = <<>> THEN object.dynamic ELSE object.regular
bfd_symbols(section) ==
  SelectSeq([i \in DOMAIN Canonical |-> i],
            LAMBDA i : Canonical[i].section = section /\ bfd_symbol_is_function_like(Canonical[i]))
Row(i) == Canonical[i]

bfd_function_record_size(i) == IF Row(i).size = 0 THEN 1 ELSE Row(i).size
CodeOffset(section, i) ==
  (AddressOf(Row(i)) - (IF object.relocatable THEN 0 ELSE Section(section).address)) % Wrap

\* At one start: one that holds the place, a function, a symbol with a type, the
\* smaller.
FitsAtStart(current, i, offset) ==
  IF current.offset + current.size <= offset THEN bfd_function_record_size(i) > current.size
  ELSE /\ current.offset + bfd_function_record_size(i) > offset
       /\ IF BfdFunction(Row(current.symbol)) # BfdFunction(Row(i)) THEN BfdFunction(Row(i))
          ELSE IF (Row(current.symbol).type = "notype") # (Row(i).type = "notype")
               THEN Row(i).type # "notype"
          ELSE bfd_function_record_size(i) < current.size
bfd_function_record_better_fit(current, i, code, offset) ==
  /\ code <= offset /\ code >= current.offset
  /\ code = current.offset => FitsAtStart(current, i, offset)

Found(section, i, code) ==
  [section |-> section, symbol |-> i, offset |-> code, size |-> bfd_function_record_size(i)]
\* A symbol that starts behind the place bounds the one found so far.
Shortened(current, code, offset) ==
  IF current # None /\ code > offset /\ code > current.offset /\ code < current.offset + current.size
    THEN [current EXCEPT !.size = code - current.offset] ELSE current
Consider(section, offset, current, i, code) ==
  IF IF current = None THEN code <= offset ELSE bfd_function_record_better_fit(current, i, code, offset)
    THEN Found(section, i, code) ELSE Shortened(current, code, offset)
Fresh(section, offset) ==
  FoldLeft(LAMBDA current, i : Consider(section, offset, current, i, CodeOffset(section, i)), None,
           bfd_symbols(section))

Known(section, offset) ==
  /\ record # None /\ record.section = section
  /\ record.offset <= offset /\ offset < record.offset + record.size
FromSection(section, offset) == IF Known(section, offset) THEN record ELSE Fresh(section, offset)

HoldingSections(address) ==
  SelectSeq(AllocatedSections,
            LAMBDA i : Section(i).address <= address /\ address < Section(i).address + Section(i).size)
FirstFound(holding, address) ==
  FoldLeft(LAMBDA found, i : IF found # None THEN found ELSE Fresh(i, address - Section(i).address),
           FromSection(Head(holding), address - Section(Head(holding)).address), Tail(holding))
bfd_function_record(address) ==
  IF HoldingSections(address) = <<>> THEN record ELSE FirstFound(HoldingSections(address), address)

-----------------------------------------------------------------------------
(* An object is opened once; the indexes of its sections and the metadata of a *)
(* module are made when they are first asked for.                             *)

Nothing == [x \in {} |-> None]

Init ==
  /\ \E f \in DOMAIN Objects : object \in Objects[f]
  /\ file = None /\ kernel_sections = Nothing /\ modules = Nothing
  /\ module_sections = Nothing /\ record = None /\ asked = None

Opened(candidates) == [candidates |-> candidates, user |-> user_file_offsets(candidates)]
Open ==
  /\ file = None /\ file' = Opened(Candidates)
  /\ UNCHANGED <<object, kernel_sections, modules, module_sections, record, asked>>

\* Only sections that hold symbols are asked for; the others give an empty index.
LookUpKernelSection(section) ==
  /\ "kernel" \in object.asks /\ section \notin DOMAIN kernel_sections
  /\ KernelIds(file.candidates, section) # {}
  /\ kernel_sections' = kernel_sections @@
                          (section :> build_kernel_section_index(file.candidates, section))
  /\ UNCHANGED <<object, file, modules, module_sections, record, asked>>

\* A module's sections without contents come from the file at its own path, if
\* that has code and the recorded build id, else from the object itself.
Runtime(candidate) ==
  IF candidate = "" \/ object.runtimes[candidate] = None THEN object.sections
  ELSE IF object.runtimes[candidate].possibly_runtime /\ object.runtimes[candidate].recorded
       THEN object.runtimes[candidate].sections ELSE object.sections
RuntimeCandidate(path) == IF object.possibly_runtime THEN "" ELSE path
module_metadata(path) ==
  /\ "module" \in object.asks /\ RuntimeCandidate(path) \notin DOMAIN modules
  /\ modules' = modules @@ (RuntimeCandidate(path) :>
                              kernel_module_object_metadata(Runtime(RuntimeCandidate(path))))
  /\ UNCHANGED <<object, file, kernel_sections, module_sections, record, asked>>

\* The sections that the module's maps ask for.
Targets(p) ==
  {m.lookup_section : m \in ToSet(p.maps)} \cup (IF p.text_section = None THEN {} ELSE {p.text_section})
LookUpModuleSection(candidate, section) ==
  /\ modules[candidate] # None /\ section \in Targets(modules[candidate])
  /\ <<candidate, section>> \notin DOMAIN module_sections
  /\ module_sections' = module_sections @@
       (<<candidate, section>> :> build_kernel_module_section_index(file.candidates,
                                                                    modules[candidate], section))
  /\ UNCHANGED <<object, file, kernel_sections, modules, record, asked>>

bfd_function_record_name(address) ==
  /\ object.debug_line /\ "record" \in object.asks
  /\ record' = bfd_function_record(address) /\ asked' = address
  /\ UNCHANGED <<object, file, kernel_sections, modules, module_sections>>

Places == 0 .. Span
Next ==
  \/ Open
  \/ /\ file # None
     /\ \/ \E i \in Sections : LookUpKernelSection(i)
        \/ \E path \in DOMAIN object.runtimes : module_metadata(path)
        \/ \E c \in DOMAIN modules, i \in Sections : LookUpModuleSection(c, i)
        \/ \E a \in Places : bfd_function_record_name(a)

Spec == Init /\ [][Next]_vars

-----------------------------------------------------------------------------
(* What the answers should be.                                                *)

\* The sections lie apart, and segments that touch one hold all of it as it is.
Beyond(a, b) == a.address + a.size <= b.address
Linked ==
  /\ ~object.relocatable
  /\ \A i \in ToSet(AllocatedSections) :
       /\ \A j \in ToSet(AllocatedSections) \ {i} :
            Beyond(Section(i), Section(j)) \/ Beyond(Section(j), Section(i))
       /\ \A g \in ToSet(object.segments) :
            \/ Beyond(g, Section(i)) /\ g.address + g.memory <= Section(i).address
            \/ Beyond(Section(i), g)
            \/ /\ g.address <= Section(i).address /\ Beyond(Section(i), [g EXCEPT !.address = @ + g.size, !.size = 0])
               /\ Section(i).address - g.address = Section(i).offset - g.offset
Size(i) == file.candidates[i].size
Start(i) == file.candidates[i].address
Holding(ids, a) == {i \in ids : Start(i) <= a /\ a < Start(i) + Size(i)}
Eligible == Users \cup (DOMAIN file.candidates \ (1 .. Offset))
Apart(ids) ==
  /\ \A i \in ids : Size(i) > 0
  /\ \A i, j \in ids : i # j => Start(i) + Size(i) <= Start(j) \/ Start(j) + Size(j) <= Start(i)
ToldUser(a) == IF virtual_to_file_offset(a) = None THEN None
               ELSE RecordAt(file.user, virtual_to_file_offset(a))

\* Symbols that do not overlap are told exactly at the addresses they hold, though
\* symbols and questions take different ways to the file's offsets.
UserExact ==
  (Linked /\ Apart(Eligible)) =>
    \A a \in Places :
      virtual_to_file_offset(a) # None =>
        Holding(Eligible, a) = IF ToldUser(a) = None THEN {} ELSE {ToldUser(a)}

\* An entry of the PLT bears the name of the function its slot is bound to.
Bound(slot) == CHOOSE r \in ToSet(Plt.relocations) : r.slot = slot
Stubs == SetToSortSeq({r.slot : r \in ToSet(Plt.relocations)}, <)
BoundName(r) ==
  IF r.name # None THEN r.name
  ELSE CHOOSE n \in {Symbol(i).name : i \in Users} :
         \E i \in Users : Symbol(i).name = n /\ Start(i) = r.ifunc
              /\ \A j \in Users : Start(j) = r.ifunc => (i = j \/ Better(Tables[j], Tables[i]))
Nameable(r) == r.name # None \/ (r.ifunc # None /\ \E i \in Users : Start(i) = r.ifunc)
PltExact ==
  (Plt # None /\ Linked /\ object.arch = "x86_64" /\ Users # {} /\ Apart(Users)) =>
    \A k \in DOMAIN Stubs : \A a \in FirstEntry + (k - 1) * EntrySize .. FirstEntry + k * EntrySize - 1 :
      (Nameable(Bound(Stubs[k])) /\ virtual_to_file_offset(a) # None) =>
        ToldUser(a) # None /\ file.candidates[ToldUser(a)].name = <<BoundName(Bound(Stubs[k])), "@plt">>

\* In the text of the kernel an address is told the symbol a user of the same file
\* would be told, unless names that the kernel does not show take part.
KernelAgrees ==
  \A i \in DOMAIN kernel_sections :
    (Linked /\ Apart(Eligible) /\ Section(i).name = ".text" /\ \A j \in Eligible : file.candidates[j].kernel) =>
      \A o \in Section(i).offset .. Section(i).offset + Section(i).size - 1 :
        RecordAt(kernel_sections[i], o) = RecordAt(file.user, o)

\* Every symbol of a module that was accepted when its maps were made is found
\* through exactly one of them, at the place in the file the map leads to.
ModuleRows(p) == {i \in Regular \cup Dynamic : Accepted(p, Symbol(i))}
Leading(p, i) == {t \in Targets(p) : Symbol(i).section \in Included(p, t)}
Place(p, i) == SectionPlace(Tables[i], p.sections[Symbol(i).section].virtual_address,
                            p.sections[Symbol(i).section].file_offset)
Alone(p, i) ==
  /\ Symbol(i).size > 0
  /\ \A j \in ModuleRows(p) \ {i} :
       Place(p, j) # None =>
         /\ Place(p, j) # Place(p, i)
         /\ \/ Place(p, j) >= Place(p, i) + Symbol(i).size
            \/ Place(p, j) + Symbol(j).size <= Place(p, i)
FoundIn(p, index, i) ==
  /\ DOMAIN index.tree.nodes \subseteq ModuleRows(p) \cup (DOMAIN file.candidates \ (1 .. Offset))
  /\ (Place(p, i) # None /\ Alone(p, i)) => RecordAt(index, Place(p, i)) = i
ModuleReachable ==
  \A c \in DOMAIN modules : modules[c] # None =>
    \A i \in ModuleRows(modules[c]) :
      /\ Cardinality(Leading(modules[c], i)) =
           IF Symbol(i).section \in core_sections(modules[c]) /\ modules[c].text_section = None THEN 0 ELSE 1
      /\ \A t \in Leading(modules[c], i) :
           <<c, t>> \in DOMAIN module_sections => FoundIn(modules[c], module_sections[<<c, t>>], i)

\* In a table sorted by address the function told never starts behind the place or
\* before another that does not, whatever was asked before; and it holds the place if
\* one that starts there does.
Functions(section) == ToSet(bfd_symbols(section))
Ascending(section) ==
  \A i, j \in Functions(section) : i < j => CodeOffset(section, i) <= CodeOffset(section, j)
Reaches(section, i, offset) == offset < CodeOffset(section, i) + bfd_function_record_size(i)
Nearest(section, offset) ==
  {i \in Functions(section) :
     /\ CodeOffset(section, i) <= offset
     /\ \A j \in Functions(section) : CodeOffset(section, j) <= offset =>
                                         CodeOffset(section, j) <= CodeOffset(section, i)}
ToldNearest(section, offset) ==
  /\ record.symbol \in Nearest(section, offset)
  /\ (\E i \in Nearest(section, offset) : Reaches(section, i, offset)) => Reaches(section, record.symbol, offset)
RecordStable ==
  (asked # None /\ HoldingSections(asked) # <<>>) =>
    IF record = None
      THEN \A i \in ToSet(HoldingSections(asked)) : Nearest(i, asked - Section(i).address) = {}
      ELSE /\ record.section \in ToSet(HoldingSections(asked))
           /\ Ascending(record.section) =>
                ToldNearest(record.section, asked - Section(record.section).address)

\* The symbols of an object file are told as the file means them.
ObjectExact ==
  /\ file # None => UserExact /\ PltExact
  /\ KernelAgrees /\ ModuleReachable /\ RecordStable
=============================================================================
