----------------------------- MODULE FrameCache -----------------------------
(***************************************************************************)
(* SymbolFrameCache of src/symbols.rs, the cache of resolved frames one    *)
(* fold keeps.  It has a table for inline and one for base frames; each    *)
(* finds user frames by source and address, through two levels of hints,   *)
(* and kernel frames by map and address.                                   *)
(*                                                                         *)
(* Loading the core kernel may replace the map of a kernel module while a  *)
(* callchain is being printed.  The chain's nodes in that map keep the old *)
(* symbols as long as they are adjacent, later ones get the new.  The      *)
(* cache therefore notes replaced entries, and misses made before the core *)
(* was loaded, and forgets them afterwards.                                *)
(*                                                                         *)
(* The resolver is external: which sources are unavailable, which          *)
(* addresses have no symbol and how a module's map is loaded is chosen at  *)
(* the start.                                                              *)
(***************************************************************************)
EXTENDS Integers, Sequences, SequencesExt, FiniteSets, Functions

CONSTANTS
  Recordings,                 \* what recordings ask of the cache, see below
  MainKey,                    \* an address of the core kernel
  Nothing                     \* an Option that is None

CacheAssumption ==
  /\ Nothing \notin Nat
  /\ \A r \in Recordings :
       /\ r.gaps \subseteq r.addresses /\ r.modes \subseteq {"inline", "base"} /\ r.batch \in Nat \ {0}
       /\ MainKey \notin [source : r.sources, address : r.addresses]
       /\ MainKey \notin [map : r.maps, address : r.map_addresses]

VARIABLES
  recording,     \* the one being read
  tables,        \* mode -> MappingFrameTable
  replaced_kernel_entries, pending_kernel_module_misses,
  kernel_cursor_hint,         \* the map of the cursor, and whether its object has symbols
  retained_sample_ip,
  core,          \* the resolver: the core kernel is loaded
  unavailable, loading,       \* the resolver: sources without an object; kinds of maps
  text,          \* the sample is being printed as text, not folded directly
  served,        \* history: the last lookup
  began,         \* history: core when the sample began
  run,           \* history: the replaced map the last nodes were in
  projected      \* history: an identity and the frames rendered for it

noteVars == <<replaced_kernel_entries, pending_kernel_module_misses>>
cursorVars == <<kernel_cursor_hint, retained_sample_ip>>
worldVars == <<recording, unavailable, loading>>
vars == <<tables, noteVars, cursorVars, core, worldVars, text, served, began, run, projected>>

Sources == recording.sources       \* user objects,
Addresses == recording.addresses   \* addresses in them,
Gaps == recording.gaps             \* those of them without a symbol,
Maps == recording.maps             \* maps of kernel modules,
MapAddresses == recording.map_addresses
Modes == recording.modes           \* inline and base frames,
MaxBatch == recording.batch        \* and a bound on the mappings of one prefetch

Put(f, x, v) == [y \in DOMAIN f \cup {x} |-> IF y = x THEN v ELSE f[y]]
Without(f, S) == [y \in DOMAIN f \ S |-> f[y]]

UserKeys == [source : Sources, address : Addresses]
ModuleKeys == [map : Maps, address : MapAddresses]
KernelKeys == ModuleKeys \cup {MainKey}
IsUser(k) == k \in UserKeys
IsModule(k) == k \in ModuleKeys

\* How the resolver loads a module's map while the core is not loaded: from its
\* object, not at all, or by loading the core, which replaces the map and leaves
\* this cursor without symbols or with those of the object.
Loadings == {"object", "miss", "replaced", "objectReplaced"}

-----------------------------------------------------------------------------
(* The resolver's answers. *)

Unresolved == [of |-> "no symbol"]
UserFrames(k, m) == [of |-> "user", key |-> k, mode |-> m]
ObjectFrames(k, m) == [of |-> "object", key |-> k, mode |-> m]
CoreFrames(k, m) == [of |-> "core", key |-> k, mode |-> m]

Answer(frames, state) == [frames |-> frames, state |-> state, loads |-> FALSE]
Loading(frames, state) == [Answer(frames, state) EXCEPT !.loads = TRUE]

UserAnswer(k, m) ==
  IF k.source \in unavailable THEN Answer(Unresolved, "Unavailable")
  ELSE Answer(IF k.address \in Gaps THEN Unresolved ELSE UserFrames(k, m), "AddressDependent")

KernelAnswer(k, m) ==
  IF k = MainKey THEN Loading(CoreFrames(k, m), "AddressDependent")
  ELSE IF loading[k.map] = "object" THEN Answer(ObjectFrames(k, m), "AddressDependent")
  ELSE IF core THEN Answer(CoreFrames(k, m), "AddressDependent")
  ELSE CASE loading[k.map] = "miss" -> Answer(Unresolved, "AddressDependent")
         [] loading[k.map] = "replaced" -> Loading(Unresolved, "KernelMapReplaced")
         [] OTHER -> Loading(ObjectFrames(k, m), "KernelObjectMapReplaced")

Resolve(k, m) == IF IsUser(k) THEN UserAnswer(k, m) ELSE KernelAnswer(k, m)

-----------------------------------------------------------------------------
(* UserFrameTable: hints in front of a map of maps. *)

NewSource == [by_address |-> <<>>, unavailable |-> FALSE, last_address |-> Nothing]

\* The table's address hint belongs to the source hint.
Published(t, s, indexed) ==
  [t EXCEPT !.last_source = [source |-> s, indexed |-> indexed], !.last_address = Nothing]

Found(t, slot) == [slot |-> slot, table |-> t]

LookupAddress(t, s, a) ==
  LET by == t.by_source[s].by_address
      hit == [address |-> a, slot |-> IF a \in DOMAIN by THEN by[a] ELSE Nothing]
  IN Found([t EXCEPT !.by_source[s].last_address = hit, !.last_address = hit], hit.slot)

SlotForNewSource(t, s, a) ==
  IF s \notin DOMAIN t.by_source THEN Found(t, Nothing)
  ELSE IF t.by_source[s].unavailable THEN Found(Published(t, s, FALSE), 0)
  ELSE LET last == t.by_source[s].last_address
           u == Published(t, s, TRUE)
       IN IF last # Nothing /\ last.address = a
            THEN Found([u EXCEPT !.last_address = last], last.slot)
            ELSE LookupAddress(u, s, a)

UserSlot(t, s, a) ==
  IF t.last_source = Nothing \/ t.last_source.source # s THEN SlotForNewSource(t, s, a)
  ELSE IF t.last_address # Nothing /\ t.last_address.address = a
    THEN Found(t, t.last_address.slot)
  ELSE IF ~t.last_source.indexed THEN Found(t, 0)
  ELSE LookupAddress(t, s, a)

UserInsert(t, s, a, slot) ==
  LET old == IF s \in DOMAIN t.by_source THEN t.by_source[s] ELSE NewSource
  IN Published([t EXCEPT !.by_source = Put(@, s,
       [by_address |-> Put(old.by_address, a, slot), unavailable |-> FALSE,
        last_address |-> Nothing])], s, TRUE)

MarkUnavailable(t, s) ==
  Published([t EXCEPT !.by_source = Put(@, s, [NewSource EXCEPT !.unavailable = TRUE])], s, FALSE)

-----------------------------------------------------------------------------
(* MappingFrameTable. *)

NewTable ==
  [by_source |-> <<>>, last_source |-> Nothing, last_address |-> Nothing,
   kernel |-> <<>>, frames |-> <<>>, last_revision |-> 0]

Slot(t, k) ==
  IF IsUser(k) THEN UserSlot(t, k.source, k.address)
  ELSE Found(t, IF k \in DOMAIN t.kernel THEN t.kernel[k] ELSE Nothing)

\* Slot 0 is a resolved negative result; a lookup without a slot is an error.
Unstored(frames) == [frames |-> frames, revision |-> 0, script |-> FALSE]
AtSlot(t, slot) ==
  CASE slot = 0 -> Unstored(Unresolved)
    [] slot \in DOMAIN t.frames -> t.frames[slot]
    [] OTHER -> Unstored([of |-> "lookup missed after resolution"])

\* Every stored list of frames gets a revision of its own.
Revision(t) == t.last_revision + 1

Keyed(t, k, slot) ==
  IF IsUser(k) THEN UserInsert(t, k.source, k.address, slot)
  ELSE [t EXCEPT !.kernel = Put(@, k, slot)]

\* Frames of a replaced map can only be printed as text (script).
Insert(t0, k, frames, script) ==
  LET seen == Slot(t0, k)
      revision == IF frames = Unresolved THEN 0 ELSE Revision(seen.table)
      t == IF revision = 0 THEN seen.table ELSE [seen.table EXCEPT !.last_revision = revision]
      entry == [frames |-> frames, revision |-> revision, script |-> script]
  IN IF seen.slot \in DOMAIN t.frames THEN [t EXCEPT !.frames[seen.slot] = entry]
     ELSE IF revision = 0 /\ seen.slot = 0 THEN t
     ELSE IF revision = 0 THEN Keyed(t, k, 0)
     ELSE Keyed([t EXCEPT !.frames = Append(@, entry)], k, Len(t.frames) + 1)

-----------------------------------------------------------------------------
(* SymbolFrameCache.  Its operations are over the record Cache. *)

Cache ==
  [tables |-> tables, replaced |-> replaced_kernel_entries,
   pending |-> pending_kernel_module_misses, core |-> core]

\* Looking a key up moves the hints.
Touched(c, m, k) == [c EXCEPT !.tables[m] = Slot(@, k).table]
IsCached(c, m, k) == Slot(c.tables[m], k).slot # Nothing

\* The keys of a batch that are not cached, each once; every check moves hints.
Check(a, m, k) ==
  [cache |-> Touched(a.cache, m, k),
   missing |-> IF IsCached(a.cache, m, k) \/ k \in Range(a.missing)
                 THEN a.missing ELSE Append(a.missing, k)]
Checks(c, m, keys) ==
  LET f[i \in 0 .. Len(keys)] ==
        IF i = 0 THEN [cache |-> c, missing |-> <<>>] ELSE Check(f[i - 1], m, keys[i])
  IN f
Checked(c, m, keys) == Checks(c, m, keys)[Len(keys)]

Replacing == {"KernelMapReplaced", "KernelObjectMapReplaced"}

\* Misses of modules that the core kernel may still provide.
\* Mutant: kept for good.
NoMisses(missing) == {}
MayAppear(missing) == IF core THEN {} ELSE {k \in Range(missing) : IsModule(k)}

\* A source without an object has no symbol anywhere.
UnavailableSource(k, a) == a.state = "Unavailable" /\ IsUser(k)

Stored(c, m, k, a, retry) ==
  LET noted == [c EXCEPT
        !.core = @ \/ a.loads,
        !.replaced = IF a.state \in Replacing
          THEN @ \cup {[mode |-> m, key |-> k, object |-> a.state = "KernelObjectMapReplaced"]}
          ELSE @,
        !.pending = IF k \in retry /\ a.frames = Unresolved THEN @ \cup {[mode |-> m, key |-> k]} ELSE @]
  IN IF UnavailableSource(k, a)
       THEN [noted EXCEPT !.tables = [n \in Modes |-> MarkUnavailable(@[n], k.source)]]
       ELSE [noted EXCEPT !.tables[m] = Insert(@, k, a.frames, a.state \in Replacing)]

\* prefetch_mapping_refs_with_mode.
Stores(c, m, keys, retry) ==
  LET f[i \in 0 .. Len(keys)] ==
        IF i = 0 THEN c ELSE Stored(f[i - 1], m, keys[i], Resolve(keys[i], m), retry)
  IN f
Prefetched(c, m, keys) ==
  LET checked == Checked(c, m, keys)
  IN Stores(checked.cache, m, checked.missing, MayAppear(checked.missing))[Len(checked.missing)]

\* finish_kernel_cursor, for a cache without a cursor hint: entries of old
\* cursors, and misses made before the core was loaded, are forgotten once it is.
Retired(c) == {[mode |-> e.mode, key |-> e.key] : e \in c.replaced} \cup c.pending

RetiredKeys(c, m) == {e.key : e \in {r \in Retired(c) : r.mode = m}}

Forgotten(c) ==
  [m \in Modes |-> [c.tables[m] EXCEPT !.kernel = Without(@, RetiredKeys(c, m))]]

Finished(c) ==
  IF c.core THEN [c EXCEPT !.tables = Forgotten(c), !.replaced = {}, !.pending = {}] ELSE c

Becomes(c) ==
  /\ tables' = c.tables /\ core' = c.core
  /\ replaced_kernel_entries' = c.replaced
  /\ pending_kernel_module_misses' = c.pending

Lookup(c, m, k) == AtSlot(c.tables[m], Slot(c.tables[m], k).slot)

Serve(m, k, frames) == served' = [mode |-> m, key |-> k, frames |-> frames]

\* What is rendered from a list of frames is kept under its identity.  The
\* history follows any one of them.
Project(m, entry) ==
  \/ UNCHANGED projected
  \/ /\ projected = Nothing /\ entry.revision # 0
     /\ projected' = [mode |-> m, revision |-> entry.revision, frames |-> entry.frames]

-----------------------------------------------------------------------------
(* Samples.  One is folded directly, or printed as text, perhaps after the
   attempt to fold it failed. *)

\* Text ends and every sample starts with finish_kernel_sample; then the event's
\* own address may load the core kernel, and is kept for an event without a
\* callchain.
BeginSample ==
  \E loads, keep \in BOOLEAN :
    /\ LET c == Finished(Cache)
       IN Becomes([c EXCEPT !.core = @ \/ loads])
    /\ kernel_cursor_hint' = Nothing
    /\ retained_sample_ip' = IF loads /\ keep /\ ~core THEN MainKey ELSE Nothing
    /\ began' = core /\ run' = Nothing /\ served' = Nothing /\ text' = FALSE
    /\ UNCHANGED <<worldVars, projected>>

\* A direct fold: cached frames are used as they come.  From the first miss on
\* the stack is resolved as one batch, unless there is a kernel frame in it and
\* the core is not loaded.  Frames of replaced maps are not folded.
FoldStack ==
  \E m \in Modes, keys \in BoundedSeq(UserKeys \cup KernelKeys, MaxBatch) :
    /\ ~text /\ keys # <<>>
    /\ core \/ \A i \in DOMAIN keys :
         IsUser(keys[i]) \/ \A j \in 1 .. i : IsCached(Cache, m, keys[j])
    /\ LET c == Prefetched(Cache, m, keys)
           last == keys[Len(keys)]
       IN /\ \A i \in DOMAIN keys : ~Lookup(c, m, keys[i]).script
          /\ Becomes(Touched(c, m, last))
          /\ Serve(m, last, Lookup(c, m, last).frames)
          /\ Project(m, Lookup(c, m, last))
    /\ UNCHANGED <<cursorVars, worldVars, text, began, run>>

\* The stack must be printed instead, or the resolver fails: the hints have moved.
FoldFails ==
  \E m \in Modes, k \in UserKeys \cup KernelKeys :
    /\ ~text /\ ~IsCached(Cache, m, k)
    /\ IsUser(k) \/ ~core
    /\ Becomes(Touched(Cache, m, k))
    /\ served' = Nothing
    /\ UNCHANGED <<cursorVars, worldVars, text, began, run, projected>>

\* resolve_script_mapping_ref, the event's own address: kept from before.
ScriptRetained ==
  \E m \in Modes :
    /\ retained_sample_ip # Nothing
    /\ Serve(m, retained_sample_ip, CoreFrames(retained_sample_ip, m))
    /\ text' = TRUE
    /\ Becomes(IF kernel_cursor_hint = Nothing THEN Finished(Cache) ELSE Cache)
    /\ UNCHANGED <<cursorVars, worldVars, began, run, projected>>

SameMap(k) == kernel_cursor_hint # Nothing /\ IsModule(k) /\ kernel_cursor_hint.map = k.map

\* Another node of a map that was replaced under the cursor: the object's
\* symbols, or none.
Continued(c, m, k) ==
  IF ~SameMap(k) \/ IsCached(c, m, k) THEN c
  ELSE LET object == kernel_cursor_hint.object
           frames == IF object THEN ObjectFrames(k, m) ELSE Unresolved
       IN [c EXCEPT !.replaced = @ \cup {[mode |-> m, key |-> k, object |-> object]},
                    !.tables[m] = Insert(@, k, frames, FALSE)]

\* A node elsewhere ends the run.
Before(m, k) ==
  IF kernel_cursor_hint # Nothing /\ ~SameMap(k) THEN Finished(Cache) ELSE Continued(Cache, m, k)

\* The node becomes the cursor if its map was replaced under it; if there is no
\* such cursor, the caller lets finish_kernel_cursor forget old entries.
ScriptFrame ==
  \E m \in Modes, k \in UserKeys \cup KernelKeys :
    /\ retained_sample_ip # k
    /\ text' = TRUE
    /\ LET c == Prefetched(Before(m, k), m, <<k>>)
           old == {e \in c.replaced : e.mode = m /\ e.key = k}
           hint == IF old # {} THEN [map |-> k.map, object |-> \E e \in old : e.object]
                   ELSE IF SameMap(k) THEN kernel_cursor_hint ELSE Nothing
       IN /\ Becomes(IF hint = Nothing THEN Finished(Touched(c, m, k)) ELSE Touched(c, m, k))
          /\ Serve(m, k, Lookup(c, m, k).frames)
          /\ kernel_cursor_hint' = hint
          /\ run' = IF hint = Nothing THEN Nothing ELSE k.map
    /\ retained_sample_ip' = IF kernel_cursor_hint # Nothing /\ ~SameMap(k) THEN Nothing
                             ELSE retained_sample_ip
    /\ UNCHANGED <<worldVars, began, projected>>

Init ==
  /\ recording \in Recordings
  /\ tables = [m \in Modes |-> NewTable]
  /\ replaced_kernel_entries = {} /\ pending_kernel_module_misses = {}
  /\ kernel_cursor_hint = Nothing /\ retained_sample_ip = Nothing /\ core = FALSE
  /\ unavailable \in SUBSET Sources /\ loading \in [Maps -> Loadings]
  /\ text = FALSE /\ served = Nothing /\ began = FALSE /\ run = Nothing /\ projected = Nothing

Next == BeginSample \/ FoldStack \/ FoldFails \/ ScriptRetained \/ ScriptFrame

Spec == Init /\ [][Next]_vars

-----------------------------------------------------------------------------
(* Properties. *)

\* Every variable keeps its type, and slots address stored frames.
TypeOK ==
  /\ \A m \in Modes :
       LET t == tables[m]
           slots == 0 .. Len(t.frames)
       IN /\ \A s \in DOMAIN t.by_source : Range(t.by_source[s].by_address) \subseteq slots
          /\ Range(t.kernel) \subseteq slots
          /\ DOMAIN t.by_source \subseteq Sources /\ DOMAIN t.kernel \subseteq KernelKeys
          /\ t.last_revision \in Nat
  /\ \A e \in replaced_kernel_entries : e.mode \in Modes /\ e.key \in ModuleKeys
  /\ \A e \in pending_kernel_module_misses : e.mode \in Modes /\ e.key \in ModuleKeys
  /\ kernel_cursor_hint = Nothing \/ kernel_cursor_hint.map \in Maps
  /\ retained_sample_ip \in {Nothing, MainKey}
  /\ {core, text} \subseteq BOOLEAN /\ began \in BOOLEAN /\ run \in Maps \cup {Nothing}

\* A slot looked up without hints.
PlainSlot(t, s, a) ==
  IF s \notin DOMAIN t.by_source THEN Nothing
  ELSE IF t.by_source[s].unavailable THEN 0
  ELSE IF a \in DOMAIN t.by_source[s].by_address THEN t.by_source[s].by_address[a]
  ELSE Nothing

\* The hints of both levels change nothing: any lookup made next finds what a
\* search of the maps finds (UserFrameTable::slot).
HintsExact ==
  \A m \in Modes, s \in Sources, a \in Addresses :
    UserSlot(tables[m], s, a).slot = PlainSlot(tables[m], s, a)

\* A user frame is served as the resolver resolves it, in the mode asked for,
\* whether it was cached alone, in a batch, or with its source as unavailable.
UserServed ==
  (served # Nothing /\ IsUser(served.key)) =>
    served.frames = UserAnswer(served.key, served.mode).frames

\* A sample that begins when the core kernel is loaded never gets the entries of
\* replaced maps nor the misses of the time before (finish_kernel_cursor).
NothingStale ==
  (served # Nothing /\ ~IsUser(served.key) /\ began) =>
    served.frames = KernelAnswer(served.key, served.mode).frames

\* Adjacent nodes in a map that was replaced under the cursor are all printed
\* from the old map, at any address of it.
RunKeepsSource ==
  (run # Nothing /\ served # Nothing) =>
    /\ loading[run] \in {"replaced", "objectReplaced"}
    /\ served.frames = IF loading[run] = "objectReplaced"
                         THEN ObjectFrames(served.key, served.mode) ELSE Unresolved

\* An identity stands for one list of frames for good, so that what was rendered
\* for it can be used again after the cache forgot and refilled an entry.
IdentityKept ==
  projected # Nothing =>
    \A i \in DOMAIN tables[projected.mode].frames :
      LET e == tables[projected.mode].frames[i]
      IN e.revision = projected.revision => e.frames = projected.frames

\* A frame is served as the resolver would give it: user and kernel code, alone, in
\* batches and while the core kernel is being loaded; identities keep their frames;
\* and the variables keep their types.
FramesExact ==
  TypeOK /\ HintsExact /\ UserServed /\ NothingStale /\ RunKeepsSource /\ IdentityKept
=============================================================================
