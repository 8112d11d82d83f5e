---------------------------- MODULE MCResolution ----------------------------
(* The objects read while unwinding and the frames kept of all sources        *)
(* (Resolution, which this suite extends, so that what is proved of it is     *)
(* about the properties checked here), the kallsyms sources (Kallsyms) and    *)
(* the choice between the kernel's sources (KernelSource), on the small       *)
(* instances below.  `part' names the instance that runs, and the state of    *)
(* the others rests in one initial state.                                     *)
EXTENDS Resolution, Functions, TLC

CONSTANTS
  None,
  UserSources, ModuleMaps, ModuleAddresses,   \* sets of model values
  LoneSource, LoneMap,
  Parts                                       \* the instances to run

VARIABLES
  part,
  file, rows, ids, end, tree, phase, context, modules, references, survivors,  \* Kallsyms
  world, delivered, preprocessed, resolver                         \* KernelSource

kallsymsVars ==
  <<file, rows, ids, end, tree, phase, context, modules, references, survivors>>
kernelVars == <<world, delivered, preprocessed, resolver>>
suiteVars == <<part, vars, frameVars, kallsymsVars, kernelVars>>

\* Two user sources, one of their addresses without a symbol; one source of which a
\* batch holds such an address, and two whose addresses share one; the core kernel
\* with two maps of modules, and with two addresses in one; one source, or one map,
\* in both modes.
MCRecordings ==
  {[sources |-> UserSources, addresses |-> {1, 2}, gaps |-> {2}, maps |-> {},
    map_addresses |-> {}, modes |-> {"inline"}, batch |-> 1],
   [sources |-> {LoneSource}, addresses |-> {1, 2}, gaps |-> {2}, maps |-> {},
    map_addresses |-> {}, modes |-> {"inline"}, batch |-> 2],
   [sources |-> UserSources, addresses |-> {1}, gaps |-> {}, maps |-> {},
    map_addresses |-> {}, modes |-> {"inline"}, batch |-> 2],
   [sources |-> {}, addresses |-> {}, gaps |-> {}, maps |-> ModuleMaps,
    map_addresses |-> {1}, modes |-> {"inline"}, batch |-> 1],
   [sources |-> {}, addresses |-> {}, gaps |-> {}, maps |-> {LoneMap},
    map_addresses |-> ModuleAddresses, modes |-> {"inline"}, batch |-> 1],
   [sources |-> {LoneSource}, addresses |-> {1}, gaps |-> {}, maps |-> {},
    map_addresses |-> {}, modes |-> {"inline", "base"}, batch |-> 1],
   [sources |-> {}, addresses |-> {}, gaps |-> {}, maps |-> {LoneMap},
    map_addresses |-> {1}, modes |-> {"inline", "base"}, batch |-> 1]}

Row(address, type, name, module) ==
  [address |-> address, type |-> type, name |-> name, module |-> module]
NameAttributes ==
  [plain |-> [underscores |-> 0, length |-> 4, sys |-> FALSE, dollar |-> FALSE],
   under |-> [underscores |-> 1, length |-> 5, sys |-> TRUE, dollar |-> FALSE],
   label |-> [underscores |-> 0, length |-> 2, sys |-> FALSE, dollar |-> TRUE]]

AnyContext == [modules |-> None, loaded |-> {}, range |-> None]
Times(n, set) == [i \in 1 .. n |-> set]

SymbolFiles ==
  [splits |->
   [choices |-> Times(4, {Row(a, "t", "plain", m) : a \in {0, 2, 3, 15}, m \in {None, "[m]"}}),
    contexts |-> {AnyContext, [AnyContext EXCEPT !.modules = {}], [AnyContext EXCEPT !.loaded = {"[m]"}],
                  [modules |-> {"[m]"}, loaded |-> {}, range |-> <<2, 15>>]},
    names |-> {}, page |-> 2, wide |-> 16],
   aliases |->
   [choices |-> Times(3, {Row(3, "T", "label", None)} \cup
                         {Row(a, t, n[1], n[2]) : a \in {2, 3}, t \in {"T", "t", "W", "A"},
                            n \in {<<"plain", None>>, <<"plain", "[m]">>, <<"under", None>>}}),
    names |-> {"plain"}, contexts |-> {AnyContext}, page |-> 2, wide |-> 16],
   tall |->
   [choices |-> [i \in 1 .. 9 |-> {Row(i, "T", "plain", m) : m \in {"[m]", "[n]"}}],
    names |-> {}, contexts |-> {AnyContext}, page |-> 4, wide |-> 32]]

Source == INSTANCE Kallsyms WITH
  Files <- SymbolFiles, Attributes <- NameAttributes, Ranges <- {{<<2, 3>>}, {<<0, 3>>, <<3, 4>>}}

\* Two modules, of which the first may have moved or lie outside kcore; when neither
\* has moved they are alike, and one order of their objects is enough.  kcore and what
\* decides about it only where kcore may be loaded, beside a cache.
Rank == [none |-> 0, unavailable |-> 1, empty |-> 2, symbols |-> 3]
Worlds ==
  {w \in [live : {"none", "empty", "full"}, cached : BOOLEAN, system : {TRUE},
          elf : {"none", "unusable", "usable"},
          ranges : {None, {"core"}, {"core", "m", "n"}}, moved : {{}, {"m"}},
          object : [{"m", "n"} -> {"none", "unavailable", "empty", "symbols"}],
          fits : {{}, {"m", "n"}}] :
     /\ IF w.ranges = None THEN w.moved = {} /\ w.fits = {}
        ELSE w.elf = "none" /\ w.live = "full" /\ w.cached
     /\ w.moved = {} => Rank[w.object["m"]] <= Rank[w.object["n"]]}
Resolver == INSTANCE KernelSource WITH
  Modules <- {"m", "n"}, Core <- "core", MaxStack <- 2

ASSUME KallsymsConstants == Source!KallsymsAssumption
ASSUME KernelConstants == Resolver!KernelSourceAssumption

\* Nothing tells maps, their addresses or sources apart.
Symmetry ==
  Permutations(Ids \ CachedIds) \cup
  Permutations(ModuleMaps) \cup Permutations(ModuleAddresses) \cup Permutations(UserSources)

MCInit ==
  /\ part \in Parts
  /\ Init /\ Frames!Init
  /\ part # "frames" =>
       recording.sources = {LoneSource} /\ recording.addresses = {1} /\ unavailable = {}
  /\ Source!Init
  /\ part # "kallsyms" => file = "tall"
  /\ delivered = {} /\ preprocessed = {} /\ resolver = Resolver!Fresh
  /\ IF part = "kernel" THEN world \in Worlds ELSE world = None

MCNext ==
  \/ part = "memory" /\ Next /\ UNCHANGED <<part, frameVars, kallsymsVars, kernelVars>>
  \/ part = "frames" /\ Frames!Next /\ UNCHANGED <<part, vars, kallsymsVars, kernelVars>>
  \/ part = "kallsyms" /\ Source!Next /\ UNCHANGED <<part, vars, frameVars, kernelVars>>
  \/ part = "kernel" /\ Resolver!Next /\ UNCHANGED <<part, vars, frameVars, kallsymsVars>>

MCSpec == MCInit /\ [][MCNext]_suiteVars

-----------------------------------------------------------------------------
(* The properties of the modules, under this suite's instances.                *)

\* A kallsyms source answers for the core, its modules, references and kcore what
\* the rows of its file say, whenever it is completed; and the kernel's sources are
\* pinned, completed and replaced at most once and in perf's order, so that frames
\* resolved in a batch get what they get one by one.
KernelExact ==
  /\ part = "kallsyms" => Source!KallsymsExact
  /\ part = "kernel" => Resolver!SourcesExact

\* Until a source is initialized the frames are resolved in the order of the
\* callchain, so that the folded path never answers otherwise than the script path
\* (append_pending_folded_frames of src/perfdata/fold.rs).
FramesInOrder == part = "kernel" => Resolver!BatchIsOrdered
=============================================================================
