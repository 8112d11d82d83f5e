----------------------------- MODULE KernelSource -----------------------------
(***************************************************************************)
(* Which source answers for the kernel (PerfSymbolResolver of              *)
(* src/symbols.rs and KcoreSymbols of src/symbols/kcore.rs, configured by  *)
(* the program: the recording's build-ID cache, /proc/kallsyms and the     *)
(* System.map candidates; no explicit kallsyms or kernel ELF).             *)
(*                                                                         *)
(* All sources are lazy and load at most once.  The order of loading       *)
(* decides what later requests see: the first core map delivered fixes the *)
(* cache and kcore; the first use of the core completes the native         *)
(* kallsyms, of which the live one comes before the cached one, and a      *)
(* module tried before loses the first row of each run of its rows there   *)
(* (Placed of Kallsyms); an accepted kcore replaces all.                   *)
(* Until a source is settled, the frames of a sample are resolved one by   *)
(* one, leaf first; from then on in one batch, root first.                 *)
(*                                                                         *)
(* A request is the core or a module it is for, whatever the address; its  *)
(* answer is the table in which the address is then looked up.  A          *)
(* published module's section requests are answered by its object like the *)
(* module's own.                                                           *)
(***************************************************************************)
EXTENDS Integers, Sequences, SequencesExt

CONSTANTS
  Modules,   \* kernel modules
  Core,      \* the core kernel's map
  Worlds,    \* the machines and recordings the program may meet, see WorldOK
  MaxStack,  \* bound on the kernel frames of a sample
  None

Targets == Modules \cup {Core}

\* live: /proc/kallsyms is unreadable, has no core symbol, or is complete; cached,
\* elf: the build-ID cache's kallsyms and ELF; ranges: what a readable kcore covers,
\* the core's text at least; moved: the modules no longer where they were recorded; system: a System.map may
\* be used; object: what a module's object gives; fits: the modules whose section
\* maps are where /proc/modules says.
WorldOK(w) ==
  /\ w.live \in {"none", "empty", "full"} /\ w.cached \in BOOLEAN
  /\ w.elf \in {"none", "unusable", "usable"}
  /\ w.ranges = None \/ (w.ranges \subseteq Targets /\ Core \in w.ranges)
  /\ w.moved \subseteq Modules /\ w.system \in BOOLEAN
  /\ w.object \in [Modules -> {"none", "unavailable", "empty", "symbols"}]
  /\ w.fits \subseteq Modules

KernelSourceAssumption ==
  /\ Core \notin Modules /\ MaxStack \in Nat
  /\ None \notin [modules : SUBSET Modules, loaded : SUBSET Modules]
  /\ \A w \in Worlds : WorldOK(w)

VARIABLES
  world,
  delivered,    \* the host kernel's maps so far
  preprocessed, \* preprocessed_kernel_modules of the rendering's SymbolFrameCache
  resolver      \* the resolver's caches and locks, see Fresh

vars == <<world, delivered, preprocessed, resolver>>

Sources == {"live", "cached"}

\* cache: initialize_symbols ran; pin: native_source; prepared: the snapshots not
\* yet completed; ordinary: of a completed one, the context it was completed in;
\* overdrawn: a source was completed without its preparation.
Fresh ==
  [cache |-> FALSE, kcore |-> "unset", active |-> FALSE, rejected |-> FALSE,
   pin |-> "unset", prepared |-> Sources, ordinary |-> [s \in Sources |-> None],
   core_loaded |-> FALSE, before |-> {}, context |-> None, overdrawn |-> FALSE]

\* A resolver and what a request is answered by.
By(r, answer) == [resolver |-> r, answer |-> answer]

-----------------------------------------------------------------------------
(* Initialization. *)

kernel_elf(r) == IF r.cache THEN world.elf ELSE "none"
cached_native_source(r) == r.cache /\ world.cached
kcore_symbols_ref(r) == r.kcore = "loaded" /\ ~r.rejected
KcoreActive(r) == kcore_symbols_ref(r) /\ r.active

initialize_kernel_maps(r) ==
  IF r.kcore # "unset" \/ Core \notin delivered THEN r
  ELSE [r EXCEPT
         !.cache = TRUE,
         !.kcore = IF /\ world.elf = "none" /\ world.live = "full"
                      /\ world.ranges # None /\ delivered \cap world.moved = {}
                      /\ "live" \in r.prepared
                   THEN "loaded" ELSE "none"]

\* A mapping reference for the target is made.
initialize_kernel_mapping(r, t) ==
  LET i == initialize_kernel_maps(r)
  IN IF t # Core \/ i.core_loaded \/ i.context # None THEN i
     ELSE [i EXCEPT !.context = [modules |-> delivered \cap Modules, loaded |-> i.before]]

-----------------------------------------------------------------------------
(* The native source. *)

selected_native_source(r) ==
  IF r.pin # "unset" THEN r
  ELSE [r EXCEPT !.pin = IF world.live # "none" THEN "live"
                         ELSE IF cached_native_source(r) THEN "cached" ELSE "none"]

\* LiveKallsymsSnapshot::ordinary of the selected source.
ordinary(r, context) ==
  IF r.ordinary[r.pin] # None THEN r
  ELSE [r EXCEPT !.ordinary[r.pin] = context,
                 !.prepared = @ \ {r.pin},
                 !.overdrawn = @ \/ r.pin \notin r.prepared]

NoContext == [modules |-> Modules, loaded |-> {}]

complete_native_source(r) ==
  LET s == selected_native_source(r)
  IN IF KcoreActive(r) THEN r
     ELSE IF s.pin = "none" THEN s
     ELSE ordinary(s, IF s.context # None THEN s.context
                      ELSE [modules |-> Modules, loaded |-> s.before])

activate_kcore(r) ==
  [r EXCEPT !.active = TRUE,
            !.prepared = IF r.active THEN @ ELSE @ \ {"live"}]

KcoreFrames(t) == IF t \in world.ranges THEN "kcore" ELSE "unmapped"

\* What a source completed in the context has of a module: all of its rows, none if
\* the module was unknown, and all but the first of each run if it was tried before.
Rest(source) == IF source = "live" THEN "live_rest" ELSE "cached_rest"
Rows(context, m, source) ==
  IF m \notin context.modules THEN "none"
  ELSE IF m \in context.loaded THEN Rest(source) ELSE source

ResolveModuleSource(r, m) ==
  LET s == selected_native_source(r)
      c == ordinary(s, NoContext)
  IN IF ~r.core_loaded THEN By(r, "none")
     ELSE IF s.pin = "none" THEN By(s, "none")
     ELSE By(c, Rows(c.ordinary[c.pin], m, s.pin))

ResolveCoreSource(r) ==
  LET c == complete_native_source([r EXCEPT !.core_loaded = TRUE])
  IN By(c, IF c.pin = "none" \/ (c.pin = "live" /\ world.live = "empty")
           THEN IF world.system THEN "system" ELSE "none"
           ELSE c.pin)

resolve_kernel_source(r, t) ==
  IF KcoreActive(r) THEN By(r, KcoreFrames(t))
  ELSE IF t = Core THEN ResolveCoreSource(r) ELSE ResolveModuleSource(r, t)

record_ordinary_module_load(r, m) ==
  IF r.core_loaded THEN r ELSE [r EXCEPT !.before = @ \cup {m}]

\* The sections of a module's loaded object are compared with /proc/modules.
validate_module_maps(r, m) ==
  IF world.object[m] \in {"empty", "symbols"} /\ m \notin world.fits
  THEN [r EXCEPT !.rejected = TRUE] ELSE r

\* Mutant: a rejected kcore is activated.
FinishUnchecked(r, m) ==
  IF kcore_symbols_ref(r) THEN activate_kcore(validate_module_maps(r, m)) ELSE r

finish_module_object_load(r, m) ==
  LET v == validate_module_maps(r, m)
  IN IF ~kcore_symbols_ref(r) THEN r
     ELSE IF v.rejected THEN v ELSE activate_kcore(v)

-----------------------------------------------------------------------------
(* The sampled instruction, before the frames of its callchain. *)

preprocess_sample_ip(r, t) ==
  IF t # Core
  THEN LET s == record_ordinary_module_load(r, t)
       IN IF kcore_symbols_ref(s) /\ ~s.active THEN validate_module_maps(s, t) ELSE s
  ELSE LET s == IF kcore_symbols_ref(r) THEN activate_kcore(r)
                ELSE IF kernel_elf(r) = "none" THEN complete_native_source(r) ELSE r
       IN [s EXCEPT !.core_loaded = TRUE]

\* A sample without callchain keeps the frames of the map it was found in.
preprocess_sample_ip_with_cursor(r, t) ==
  LET ready == r.pin \in Sources /\ r.ordinary[r.pin] # None
      s == preprocess_sample_ip(r, t)
      c == complete_native_source(s)
  IN IF t # Core \/ ready \/ kcore_symbols_ref(s) \/ kernel_elf(s) = "usable" THEN s
     ELSE IF c.pin = "none" \/ (c.pin = "live" /\ world.live = "empty") THEN c
     ELSE resolve_kernel_source(c, t).resolver

\* preprocess_sample_ip of the SymbolFrameCache: of a module only the first time.
PreprocessOnce(r, t, callchain) ==
  IF t \in preprocessed THEN r
  ELSE IF callchain THEN preprocess_sample_ip(r, t) ELSE preprocess_sample_ip_with_cursor(r, t)

-----------------------------------------------------------------------------
(* Requests. *)

\* A module's object is read after the batch's other requests: "module" if the
\* module map was the selected one, "old" if kcore is about to replace it.
Later(r, which) == [resolver |-> r, answer |-> which]

Route(r, t) ==
  IF kcore_symbols_ref(r) /\ (t \in world.ranges \/ r.active)
  THEN IF t # Core /\ ~r.active /\ world.object[t] # "none"
       THEN IF world.object[t] = "empty"
            THEN By(finish_module_object_load(r, t), "replaced")
            ELSE Later(r, "old")
       ELSE IF t \notin world.ranges THEN By(r, "unmapped")
       ELSE By(activate_kcore(r), IF r.active \/ t = Core THEN "kcore" ELSE "replaced")
  ELSE IF t # Core
  THEN LET s == record_ordinary_module_load(r, t)
       IN CASE world.object[t] = "none" -> resolve_kernel_source(s, t)
            [] world.object[t] = "empty" -> By(s, "none")
            [] OTHER -> Later(s, "module")
  ELSE IF kernel_elf(r) = "usable" THEN By([r EXCEPT !.core_loaded = TRUE], "elf")
  ELSE resolve_kernel_source(r, t)

finish_module_frame(r, t, which) ==
  CASE which = "old" -> By(finish_module_object_load(r, t), "replaced")
    [] which = "module" /\ world.object[t] = "symbols" -> By(r, "object")
    [] which = "module" /\ world.object[t] # "symbols" -> resolve_kernel_source(r, t)
    [] OTHER -> By(r, which)

\* Each element of the stack in turn, with its answer before; and what comes out.
Steps(Step(_, _, _), r, stack, answers) ==
  LET f[i \in 0 .. Len(stack)] ==
        IF i = 0 THEN By(r, "none") ELSE Step(f[i - 1].resolver, stack[i], answers[i])
  IN f
Outcome(f, stack) ==
  [resolver |-> f[Len(stack)].resolver, answers |-> [i \in 1 .. Len(stack) |-> f[i].answer]]

\* The body of resolve_routed_frame_batch (and of resolve_batch).
Routes(r, stack) == Steps(LAMBDA s, t, a : Route(s, t), r, stack, stack)
Frames(r, stack, answers) == Steps(finish_module_frame, r, stack, answers)
RoutedBatch(r, stack) ==
  LET routed == Outcome(Routes(r, stack), stack)
  IN Outcome(Frames(routed.resolver, stack, routed.answers), stack)

requires_kernel_cursor_order(r) ==
  IF kcore_symbols_ref(r) THEN ~r.active ELSE ~r.core_loaded

\* One frame of the script path: its mapping reference, then its request.
Cursor(r, t) ==
  LET first == Route(initialize_kernel_mapping(r, t), t)
  IN finish_module_frame(first.resolver, t, first.answer)

Cursors(r, stack) == Steps(LAMBDA s, t, a : Cursor(s, t), r, stack, stack)
InOrder(r, stack) == Outcome(Cursors(r, stack), stack)

\* prefetch_sample_symbols of the folded path, whose stacks begin at the root.
References(r, stack) ==
  Steps(LAMBDA s, t, a : By(initialize_kernel_mapping(s, t), a), r, stack, stack)

Prefetched(r, stack) ==
  LET root == Reverse(stack)
      batch == RoutedBatch(Outcome(References(r, root), root).resolver, root)
  IN [batch EXCEPT !.answers = Reverse(@)]

Rendered(r, stack) ==
  IF requires_kernel_cursor_order(r) THEN InOrder(r, stack) ELSE Prefetched(r, stack)

-----------------------------------------------------------------------------
Init == world \in Worlds /\ delivered = {} /\ preprocessed = {} /\ resolver = Fresh

\* A kernel MMAP record.
Deliver(t) ==
  /\ t \notin delivered
  /\ delivered' = delivered \cup {t}
  /\ UNCHANGED <<world, preprocessed, resolver>>

\* The IP of a sample, with a callchain or without.
SampleIp(t, callchain) ==
  /\ t \in delivered
  /\ resolver' = PreprocessOnce(initialize_kernel_mapping(resolver, t), t, callchain)
  /\ preprocessed' = preprocessed \cup ({t} \ {Core})
  /\ UNCHANGED <<world, delivered>>

Stacks == UNION {[1 .. n -> delivered] : n \in 1 .. MaxStack}

\* perf script output writes a sample's frames, folded output counts them.
ScriptFrames(stack) ==
  /\ resolver' = InOrder(resolver, stack).resolver
  /\ UNCHANGED <<world, delivered, preprocessed>>

FoldedFrames(stack) ==
  /\ resolver' = Rendered(resolver, stack).resolver
  /\ UNCHANGED <<world, delivered, preprocessed>>

Next ==
  \/ \E t \in Targets : Deliver(t)
  \/ \E t \in Targets, callchain \in BOOLEAN : SampleIp(t, callchain)
  \/ \E stack \in Stacks : ScriptFrames(stack) \/ FoldedFrames(stack)

Spec == Init /\ [][Next]_vars

-----------------------------------------------------------------------------
\* A native source is completed from its preparation, which exists until then
\* ("native source completes once"), and the source pinned is the one that would be
\* chosen with all of them known.
CompletedOnce ==
  /\ ~resolver.overdrawn
  /\ resolver.pin # "unset" =>
       resolver.pin = IF world.live # "none" THEN "live"
                      ELSE IF world.cached THEN "cached" ELSE "none"

\* An accepted kcore was not rejected, and is accepted before the ordinary source
\* it replaces has answered anything.
KcoreReplaces ==
  resolver.active => ~resolver.rejected /\ resolver.ordinary = [s \in Sources |-> None]

\* A module that was tried before the core was loaded, and failed then, is not answered
\* from all of its rows later, whichever request completes the source: the first row of
\* each run stays failed.
FailedStaysFailed ==
  \A m \in resolver.before : resolve_kernel_source(resolver, m).answer \notin Sources

\* Once the order of the frames is said not to matter it does not: the folded path
\* answers what the script path does, frame by frame.
BatchIsOrdered ==
  \A stack \in Stacks :
    Rendered(resolver, stack).answers = InOrder(resolver, stack).answers

\* Without a kernel ELF the sources are loaded once, in the order of perf, and
\* whatever is found in the cache, a batch is like its requests one by one as long
\* as that ELF can be used.
SourcesExact ==
  /\ CompletedOnce /\ KcoreReplaces
  /\ world.elf = "none" => FailedStaysFailed
  /\ world.elf # "unusable" => BatchIsOrdered
=============================================================================
