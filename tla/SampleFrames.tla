---------------------------- MODULE SampleFrames ----------------------------
(* How a fold counts a sample (src/perfdata/fold.rs).  It has two ways: frames *)
(* become labels of a stack directly (FoldedOutput), with labels remembered    *)
(* between samples; or the sample is printed as perf would print it            *)
(* (PerfScriptOutput) and the text is parsed by the vendored Inferno.  The     *)
(* direct way gives a sample to the second whenever its text may not be what   *)
(* its frames say, or when resolving a frame changes the maps of the next one. *)
(* `direct` folds a recording the first way, `script` prints all of it; a      *)
(* sample is one step of both.                                                 *)
(* The symbols of a place do not change here: which source answers, and when,  *)
(* is the subject of KernelSource and FrameCache.  Every sample has a time and a *)
(* callchain, if an empty one.                                                 *)
EXTENDS Integers, Sequences, SequencesExt, FiniteSets, TLC

CONSTANTS
  Samples,   \* [inline, symbols : BOOLEAN, events], the options of a fold and the
             \* events of its recording -> what may be delivered
  Mapping,   \* mapping -> its attributes
  Mapped,    \* place -> the mapping a recording put there, or None
  Published, \* place of a kernel module -> what is there once the module is published
  Looking,   \* the places in the kernel's half of the addresses
  Symbols,   \* source -> place -> [names, dso]; names of inlined functions last
  Core,      \* the mapping of the kernel's core
  MaxStack,  \* PERF_SCRIPT_MAX_STACK
  MaxSamples, None

Markers == {"KERNEL", "USER", "USER_DEFERRED", "HV", "GUEST"}
Places == DOMAIN Mapped

SampleFramesAssumption ==
  /\ \A w \in DOMAIN Samples : w.inline \in BOOLEAN /\ w.symbols \in BOOLEAN
  /\ \A w \in DOMAIN Samples : \A s \in Samples[w] :
       /\ \A i \in DOMAIN s.chain : s.chain[i] \in Places \cup Markers
       /\ \A i \in DOMAIN s.unwound : s.unwound[i] \in Places
       /\ {s.user_ip, s.cookie, s.kernel_ip} \subseteq Places \cup {None}
       /\ s.comm \in {"plain", "stream"}
  /\ \A p \in Places : Mapped[p] \in DOMAIN Mapping \cup {None}
  /\ MaxStack \in Nat /\ MaxSamples \in Nat

VARIABLES
  world,
  direct,   \* the fold that counts directly
  script,   \* the fold that prints everything
  counted,  \* the stacks the last sample was counted with
  samples

vars == <<world, direct, script, counted, samples>>

-----------------------------------------------------------------------------
(* The frames of a sample, as they are prepared for both ways.                 *)

Frame(kind, at) == [kind |-> kind, at |-> at]

\* The recorded callchain.  A marker says where the addresses after it were taken;
\* an unknown one discards all of them.
RecordedFrames(chain) ==
  LET Modes == [KERNEL |-> "chain", USER |-> "user", USER_DEFERRED |-> "user", HV |-> "hv"]
      Take(walk, ip) ==
        IF walk.stopped \/ Len(walk.frames) = MaxStack THEN walk
        ELSE IF ip \in DOMAIN Modes THEN [walk EXCEPT !.mode = Modes[ip]]
        ELSE IF ip \in Markers THEN [walk EXCEPT !.frames = <<>>, !.stopped = TRUE]
        ELSE [walk EXCEPT !.frames = Append(@, Frame(walk.mode, ip))]
  IN FoldLeft(Take, [frames |-> <<>>, mode |-> "user", stopped |-> FALSE], chain).frames

\* The addresses unwound from the copied stack follow.  The first is the sampled
\* instruction, unless the walk began elsewhere.
PreparedFrames(sample) ==
  RecordedFrames(sample.chain)
    \o [i \in DOMAIN sample.unwound |->
          Frame(IF i = 1 /\ sample.unwound[i] = sample.user_ip THEN "current" ELSE "unwound",
                sample.unwound[i])]

-----------------------------------------------------------------------------
(* Maps.  A fold knows the modules it tried to publish (loaded), those it did  *)
(* (published), and whether the kernel's core has its symbols (core).          *)

NoTable == [loaded |-> {}, published |-> {}, core |-> FALSE]

MapAt(table, place) ==
  IF Mapped[place] \in table.published THEN Published[place] ELSE Mapped[place]

IsKernel(map) == map # None /\ Mapping[map].kernel

\* Frames of the kernel are looked up in all maps, those of a user stack in the
\* maps of the process, and those of a hypervisor nowhere.
MapOf(table, frame) ==
  LET map == MapAt(table, frame.at)
  IN CASE frame.kind = "hv" -> None
       [] frame.kind \in {"chain", "ip"} -> map
       [] OTHER -> IF IsKernel(map) THEN None ELSE map

NeedsPublication(table, map) == Mapping[map].module /\ map \notin table.loaded

\* A place that looks like the kernel's in a map that is not stays an address.
Decision(table, frame) ==
  LET map == MapOf(table, frame)
  IN IF map = None THEN [is |-> "unknown", map |-> None]
     ELSE IF frame.at \in Looking /\ ~IsKernel(map) THEN [is |-> "address", map |-> None]
     ELSE [is |-> "mapped", map |-> map]

\* With symbols the direct way takes the map of the sampled instruction as it is;
\* without, an unwound place without a map stays an address if it looks like one
\* of the kernel.
FoldedDecision(table, frame) ==
  LET map == MapOf(table, frame)
      decision == Decision(table, frame)
  IN IF world.symbols /\ frame.kind = "current"
     THEN [is |-> IF map = None THEN "unknown" ELSE "mapped", map |-> map]
     ELSE IF /\ ~world.symbols /\ frame.kind \in {"current", "unwound"}
             /\ decision.is = "unknown" /\ frame.at \in Looking
          THEN [decision EXCEPT !.is = "address"]
          ELSE decision

\* The first frame in a module tries to load it; its sections are published for
\* the frames after it.
PrepareCursor(table, decision) ==
  IF world.symbols /\ decision.is = "mapped" /\ NeedsPublication(table, decision.map)
  THEN [table EXCEPT
          !.loaded = @ \cup {decision.map},
          !.published = IF Mapping[decision.map].loads THEN @ \cup {decision.map} ELSE @]
  ELSE table

ResolveCore(table, map) ==
  IF world.symbols /\ map = Core THEN [table EXCEPT !.core = TRUE] ELSE table

\* Without inlined functions a place has the name of its symbol alone.
Answer(map, place, inline) ==
  LET found == Symbols[Mapping[map].source][place]
  IN IF inline \/ found.names = <<>> THEN found
     ELSE [found EXCEPT !.names = <<Head(found.names)>>]

-----------------------------------------------------------------------------
(* The text of a sample, leaf first.  A row is the name and the DSO printed.   *)

Row(name, dso) == [name |-> name, dso |-> dso]
Unknown == "[unknown]"
Address(place) == "0x" \o place

\* perf_script_dso_name: the core's map is recorded with its reference symbol.
DsoName(path) ==
  IF path = Mapping[Core].path THEN "[kernel.kallsyms]" ELSE path

\* The rows of a mapped place: of an unresolved one its DSO alone, of a resolved
\* one its names, the innermost first, only the outermost with the DSO.
MappedRows(map, place, symbols, cookie) ==
  LET answer == Answer(map, place, world.inline)
      dso == IF ~symbols THEN Mapping[map].path
             ELSE CASE answer.dso = "kallsyms" -> "[kernel.kallsyms]"
                    [] answer.dso = "unmapped" -> Unknown
                    [] answer.dso = "mapping" -> Mapping[map].path
      names == answer.names
      Name(i) == IF cookie THEN "(cookie)" ELSE names[i]
  IN IF ~symbols \/ names = <<>>
     THEN <<IF cookie THEN Row("(cookie)", DsoName(dso)) ELSE Row(Unknown, dso)>>
     ELSE Reverse([i \in DOMAIN names |->
                     Row(Name(i), IF i = 1 THEN DsoName(dso) ELSE "inlined")])

RegularRows(decision, place, symbols, cookie) ==
  CASE decision.is = "mapped" -> MappedRows(decision.map, place, symbols, cookie)
    [] decision.is = "address" -> <<Row(Address(place), Unknown)>>
    [] decision.is = "unknown" -> <<Row(IF cookie THEN "(cookie)" ELSE Unknown, Unknown)>>

Key(map, place) == <<Mapping[map].source, place>>

\* One frame of the text, and the table for the next.  A cookie is printed in
\* place of the name, and its map is taken as it is.  Without inlined functions the
\* sampled instruction has the symbol of its object, or none.
PrintFrame(printed, frame, cookie) ==
  LET table == printed.table
      is_cookie == frame.at = cookie
      map == MapOf(table, frame)
      plain == Decision(table, frame)
      decision == IF is_cookie /\ map # None THEN [is |-> "mapped", map |-> map] ELSE plain
      base == frame.kind = "current" /\ ~world.inline /\ ~is_cookie /\ world.symbols
      used == IF base THEN map ELSE decision.map
  IN [table |-> IF base THEN table ELSE ResolveCore(PrepareCursor(table, plain), used),
      resolved |-> IF used # None /\ world.symbols
                   THEN printed.resolved \cup {Key(used, frame.at)} ELSE printed.resolved,
      rows |-> printed.rows \o
        IF ~base THEN RegularRows(decision, frame.at, world.symbols, is_cookie)
        ELSE IF map # None /\ Answer(map, frame.at, FALSE).names # <<>>
             THEN MappedRows(map, frame.at, TRUE, FALSE)
             ELSE RegularRows(plain, frame.at, FALSE, FALSE)]

Printed(table, resolved, sample) ==
  FoldLeft(LAMBDA printed, frame : PrintFrame(printed, frame, sample.cookie),
           [table |-> table, resolved |-> resolved, rows |-> <<>>], PreparedFrames(sample))

\* What the names of symbols become in a stack: most stay, some are shown as
\* several, some are left out (names).  perf prints a name as it is, and a padded
\* one loses its padding in a row of text.
Omitted == {"(cookie)", "(hidden"}
Parts(name) == IF name = "a->b" THEN <<"a", "b_[i]">> ELSE <<name>>
Trimmed(name) == IF name = " padded" THEN "padded" ELSE name
\* A module is named by the last part of its path.
Basename(dso) == CASE dso = "/lib" -> "lib" [] dso = "/alias" -> "alias" [] OTHER -> dso
ModuleLabel(dso) == "[" \o Basename(dso) \o "]"

\* Inferno: a row without a DSO at its end is no row; an unknown function is shown
\* as its module.
InfernoLabels(row) ==
  IF row.dso = "/a b" \/ row.name \in Omitted THEN <<>>
  ELSE IF row.name = Unknown
       THEN <<IF row.dso = Unknown THEN Unknown ELSE ModuleLabel(row.dso)>>
       ELSE Parts(Trimmed(row.name))

\* A sample without rows is not counted.
InfernoStack(rows) == FlattenSeq([i \in DOMAIN rows |-> InfernoLabels(Reverse(rows)[i])])

\* Only samples of the event that came first are counted.
Admits(filter, event) == filter \in {None, event}

-----------------------------------------------------------------------------
(* The direct way.  It remembers the labels of resolved places (symbol_labels),*)
(* of modules without symbols (module_labels), and, in the cache of frames,    *)
(* which places have been resolved (resolved).                                 *)

Fold ==
  [table |-> NoTable, event_filter |-> None, requires_stream_parser |-> FALSE,
   resolved |-> {}, symbol_labels |-> <<>>, module_labels |-> <<>>]

\* Equal frames in a row are resolved once and their labels repeated; the stack
\* begins with the frame recorded last.
Runs(frames) ==
  FoldLeft(LAMBDA runs, frame :
             IF runs # <<>> /\ Last(runs).frame = frame
             THEN [runs EXCEPT ![Len(runs)].repeats = @ + 1]
             ELSE Append(runs, [frame |-> frame, repeats |-> 1]),
           <<>>, Reverse(frames))

\* A row of text may not be what the frame says: its path is no single word, its
\* name is not printed as it is read, or its module is not published yet.  The
\* frames are left to the text also if one of them has to be resolved while the
\* kernel's sources may still change under those after it.
RequiresPerfText(fold, runs) ==
  LET decisions == [i \in DOMAIN runs |-> FoldedDecision(fold.table, runs[i].frame)]
      mapped == {i \in DOMAIN runs : decisions[i].is = "mapped"}
      Padded(i) == \E name \in ToSet(Answer(decisions[i].map, runs[i].frame.at, world.inline).names) :
                      Trimmed(name) # name
      Cold(i) == Key(decisions[i].map, runs[i].frame.at) \notin fold.resolved
  IN \/ \E i \in mapped : Mapping[decisions[i].map].path = "/a b"
     \/ /\ world.symbols
        /\ \/ \E i \in mapped : NeedsPublication(fold.table, decisions[i].map) \/ Padded(i)
           \/ /\ ~fold.table.core
              /\ \E i \in mapped, j \in mapped : i <= j /\ Cold(i) /\ IsKernel(decisions[j].map)

\* Mutant: objects with the same symbols share the label of their module.
SourceFallbackKey(map) == <<Mapping[map].source, IsKernel(map)>>

\* The label of a module, by its displayed path and whether it is the kernel's.
FallbackKey(map) == <<Mapping[map].path, IsKernel(map)>>

ModuleFallback(fold, map) ==
  LET key == FallbackKey(map)
      path == IF IsKernel(map) THEN DsoName(Mapping[map].path) ELSE Mapping[map].path
      label == IF path = Unknown /\ ~IsKernel(map) THEN Unknown ELSE ModuleLabel(path)
  IN IF key \in DOMAIN fold.module_labels
     THEN [fold |-> fold, labels |-> fold.module_labels[key]]
     ELSE [fold |-> [fold EXCEPT !.module_labels = (key :> <<label>>) @@ @],
           labels |-> <<label>>]

\* The labels of a name, as the text would give them (append_inferno_perf_raw_function).
RawFunction(name) == IF name \in Omitted THEN <<>> ELSE Parts(name)

FrameLabels(fold, frame) ==
  LET decision == FoldedDecision(fold.table, frame)
      map == decision.map
      key == Key(map, frame.at)
      answer == Answer(map, frame.at, world.inline)
      fresh == FlattenSeq([i \in DOMAIN answer.names |-> RawFunction(answer.names[i])])
  IN CASE decision.is = "unknown" -> [fold |-> fold, labels |-> <<Unknown>>]
       [] decision.is = "address" -> [fold |-> fold, labels |-> <<Address(frame.at)>>]
       [] ~world.symbols -> ModuleFallback(fold, map)
       [] answer.dso = "unmapped" -> [fold |-> fold, labels |-> <<Unknown>>]
       [] /\ answer.names = <<>> /\ frame.kind = "current" /\ ~world.inline
          /\ frame.at \in Looking /\ ~IsKernel(map) ->
            [fold |-> fold, labels |-> <<Address(frame.at)>>]
       [] answer.names = <<>> -> ModuleFallback(fold, map)
       [] key \in DOMAIN fold.symbol_labels ->
            [fold |-> fold, labels |-> fold.symbol_labels[key]]
       [] OTHER -> [fold |-> [fold EXCEPT !.symbol_labels = (key :> fresh) @@ @],
                    labels |-> fresh]

AppendRun(rendered, run) ==
  LET frame == FrameLabels(rendered.fold, run.frame)
  IN [fold |-> frame.fold,
      stack |-> rendered.stack \o FlattenSeq([i \in 1 .. run.repeats |-> frame.labels])]

\* The places a direct sample leaves in the cache of frames.
Resolved(table, frames) ==
  IF ~world.symbols THEN {}
  ELSE {Key(MapOf(table, f), f.at) : f \in {g \in ToSet(frames) :
                                               FoldedDecision(table, g).is = "mapped"}}

Text(fold, sample) ==
  LET printed == Printed(fold.table, fold.resolved, sample)
  IN [fold |-> [fold EXCEPT !.table = printed.table, !.resolved = printed.resolved],
      stack |-> InfernoStack(printed.rows)]

Folded(fold, sample) ==
  LET runs == Runs(PreparedFrames(sample))
  IN IF sample.cookie # None \/ RequiresPerfText(fold, runs) THEN Text(fold, sample)
     ELSE FoldLeft(AppendRun,
                   [fold |-> [fold EXCEPT !.resolved =
                                @ \cup Resolved(fold.table, PreparedFrames(sample))],
                    stack |-> <<>>],
                   runs)

-----------------------------------------------------------------------------
Uncounted == <<>>

\* An instruction sampled in the kernel is resolved before its callchain, in both.
PreprocessSampleIp(table, sample) ==
  IF sample.kernel_ip = None THEN table
  ELSE LET decision == Decision(table, Frame("ip", sample.kernel_ip))
       IN ResolveCore(PrepareCursor(table, decision), decision.map)

DirectSample(fold, sample) ==
  LET begun == [fold EXCEPT !.table = PreprocessSampleIp(@, sample)]
      chosen == [begun EXCEPT !.event_filter = IF @ = None THEN sample.event ELSE @]
  IN IF begun.requires_stream_parser THEN [fold |-> begun, stack |-> Uncounted]
     ELSE IF sample.comm = "stream"
          THEN [fold |-> [begun EXCEPT !.requires_stream_parser = TRUE], stack |-> Uncounted]
          ELSE IF ~Admits(begun.event_filter, sample.event)
               THEN [fold |-> begun, stack |-> Uncounted]
               ELSE Folded(chosen, sample)

ScriptSample(fold, sample) ==
  LET printed == Printed(PreprocessSampleIp(fold.table, sample), {}, sample)
  IN [fold |-> [table |-> printed.table,
                event_filter |-> IF fold.event_filter = None THEN sample.event
                                 ELSE fold.event_filter],
      stack |-> IF Admits(fold.event_filter, sample.event) THEN InfernoStack(printed.rows)
                ELSE Uncounted]

Init ==
  /\ world \in DOMAIN Samples
  /\ direct = Fold
  /\ script = [table |-> NoTable, event_filter |-> None]
  /\ counted = [direct |-> Uncounted, script |-> Uncounted]
  /\ samples = 0

Deliver(folded, printed) ==
  /\ direct' = folded.fold
  /\ script' = printed.fold
  /\ counted' = [direct |-> folded.stack, script |-> printed.stack]

Next ==
  /\ samples < MaxSamples
  /\ samples' = samples + 1
  /\ \E sample \in Samples[world] : Deliver(DirectSample(direct, sample), ScriptSample(script, sample))
  /\ UNCHANGED world

Spec == Init /\ [][Next]_vars

-----------------------------------------------------------------------------
\* A recording that does not need the stream parser is folded as its text would
\* be: each sample is counted with the same stack or with none, the same modules
\* are published and the same event is selected, whatever was remembered of
\* earlier samples (FoldedOutput and PerfScriptOutput).
FoldIsScript ==
  ~direct.requires_stream_parser =>
    /\ counted.direct = counted.script
    /\ direct.table = script.table
    /\ direct.event_filter = script.event_filter
=============================================================================
