----------------------------- MODULE FoldPasses -----------------------------
(***************************************************************************)
(* The two passes of collect_fold_counts_from_source_inner in              *)
(* src/perfdata/fold.rs.  The first folds samples directly.  When it meets *)
(* a sample whose thread name would be read as stream syntax, it counts no *)
(* more, and the whole recording is replayed through one stream parser.    *)
(* The second pass starts with a new SessionState, made with the build ids *)
(* the first one ended with, and goes on using its cache of symbol frames, *)
(* which is keyed by the mapping table's numbers of symbol sources.        *)
(*                                                                         *)
(* One thread, MMAP records (which carry no identity of their own, so that *)
(* a path has one DSO), and one address per object.  A frame is the object *)
(* with the build id whose symbols were loaded.                            *)
(***************************************************************************)
EXTENDS Integers, Sequences, SequencesExt, FiniteSets

CONSTANTS
  Paths, BuildIds, NoId,
  Regions,        \* places objects are mapped to
  HeaderIds,      \* path -> id in the build-id feature of the file, or NoId
  LiveIds,        \* path -> id of the object on this system, or NoId
  MaxRecords      \* bound on the records

NotLoaded == "not loaded"

PassesAssumption ==
  /\ NoId \notin BuildIds /\ NotLoaded \notin BuildIds \cup {NoId} /\ MaxRecords \in Nat
  /\ {HeaderIds, LiveIds} \subseteq [Paths -> BuildIds \cup {NoId}]

VARIABLES
  file,      \* the records, as far as they have been read
  pos, pc,   \* records applied in this pass; "direct", "stream", "done", "failed"
  state,     \* SessionState
  cache,     \* SymbolFrameCache: number of the source -> frame
  requires_stream_parser,
  output     \* the frame of each sample counted in this pass

vars == <<file, pos, pc, state, cache, requires_stream_parser, output>>

Ids == BuildIds \cup {NoId}
Comms == {"plain", "stream"}
Unmapped == [path |-> "none", id |-> NoId]
Frame == [path : Paths, id : Ids] \cup {Unmapped}

Record ==
  [kind : {"comm"}, comm : Comms]
    \cup [kind : {"build_id"}, path : Paths, id : BuildIds]
    \cup [kind : {"mmap"}, path : Paths, region : Regions]
    \cup [kind : {"sample"}, region : Regions]

-----------------------------------------------------------------------------
(* SessionState. *)

\* SessionState::new: nothing but the build ids, which become the DSOs' ids
\* before the first record (initialize_native_dso_headers).
NewState(ids) ==
  [header_build_ids |-> ids,
   dsos |-> [p \in Paths |-> [build_id |-> ids[p], symbol_build_id |-> NotLoaded]],
   sources |-> <<>>,
   maps |-> [r \in Regions |-> [path |-> "none", source |-> 0]],
   comm |-> "plain"]

\* SymbolSourceKey.  Mutant: sources are told apart by id alone.
SourceKeyById(s, path) == <<"any", s.header_build_ids[path]>>
SourceKey(s, path) == <<path, s.header_build_ids[path]>>

\* intern_symbol_source numbers keys as they come.
Interned(s, path) ==
  LET key == SourceKey(s, path)
      known == \E i \in DOMAIN s.sources : s.sources[i] = key
      sources == IF known THEN s.sources ELSE Append(s.sources, key)
  IN [sources |-> sources, id |-> CHOOSE i \in DOMAIN sources : sources[i] = key]

\* apply_metadata.
ApplyMetadata(s, r) ==
  CASE r.kind = "comm" -> [s EXCEPT !.comm = r.comm]
    [] r.kind = "build_id" ->
         [s EXCEPT !.header_build_ids[r.path] = r.id, !.dsos[r.path].build_id = r.id]
    [] r.kind = "mmap" ->
         [s EXCEPT !.sources = Interned(s, r.path).sources,
                   !.maps[r.region] = [path |-> r.path, source |-> Interned(s, r.path).id]]

\* symbol_mapping_ref: the first use of an object loads it, with its id or the
\* live one, and later ids change nothing.
LoadedAnew(s, path) ==
  IF s.dsos[path].build_id = NoId
    THEN [s EXCEPT !.dsos[path] = [build_id |-> LiveIds[path], symbol_build_id |-> LiveIds[path]]]
    ELSE [s EXCEPT !.dsos[path].symbol_build_id = s.dsos[path].build_id]
Loaded(s, path) == IF s.dsos[path].symbol_build_id = NotLoaded THEN LoadedAnew(s, path) ELSE s

Resolved(s, path) == [path |-> path, id |-> s.dsos[path].symbol_build_id]

-----------------------------------------------------------------------------
(* Samples. *)

Mapping(r) == state.maps[r.region]
Cached(m) == m.source \in DOMAIN cache

\* A sample in a mapped region: a frame of the cache, or a new one.  The stream
\* pass loads the object in both cases, the direct pass only on a miss.
CountMapped(r) ==
  LET m == Mapping(r)
      s == IF pc = "stream" \/ ~Cached(m) THEN Loaded(state, m.path) ELSE state
      frame == IF Cached(m) THEN cache[m.source] ELSE Resolved(s, m.path)
  IN /\ m.source > 0
     /\ state' = s
     /\ cache' = [i \in DOMAIN cache \cup {m.source} |-> IF i \in DOMAIN cache THEN cache[i] ELSE frame]
     /\ output' = Append(output, frame)
     /\ UNCHANGED requires_stream_parser

CountUnmapped(r) ==
  /\ Mapping(r).source = 0
  /\ output' = Append(output, Unmapped)
  /\ UNCHANGED <<state, cache, requires_stream_parser>>

\* write_sample_event of FoldedOutput: the first name with stream syntax ends
\* the direct fold; that sample and the later ones are not counted.
Skips == requires_stream_parser \/ state.comm = "stream"

SkipSample ==
  /\ pc = "direct" /\ Skips
  /\ requires_stream_parser' = TRUE
  /\ UNCHANGED <<state, cache, output>>

Metadata(r) ==
  /\ r.kind # "sample"
  /\ state' = ApplyMetadata(state, r)
  /\ UNCHANGED <<cache, output, requires_stream_parser>>

Sample(r) ==
  /\ r.kind = "sample"
  /\ \/ SkipSample
     \/ ~(pc = "direct" /\ Skips) /\ (CountMapped(r) \/ CountUnmapped(r))

-----------------------------------------------------------------------------
(* The passes. *)

\* The first pass meets the recording for the first time.
ApplyDirect ==
  /\ pc = "direct" /\ Len(file) < MaxRecords
  /\ \E r \in Record : (Metadata(r) \/ Sample(r)) /\ file' = Append(file, r)
  /\ pos' = pos + 1
  /\ UNCHANGED pc

ApplyStream ==
  /\ pc = "stream" /\ pos < Len(file)
  /\ Metadata(file[pos + 1]) \/ Sample(file[pos + 1])
  /\ pos' = pos + 1
  /\ UNCHANGED <<pc, file>>

\* A second pass counts from nothing, with the ids and the cache of the first.
EndDirect ==
  /\ pc = "direct"
  /\ IF requires_stream_parser
       THEN /\ pc' = "stream" /\ pos' = 0
            /\ state' = NewState(state.header_build_ids)
            /\ output' = <<>>
       ELSE pc' = "done" /\ UNCHANGED <<pos, state, output>>
  /\ UNCHANGED <<file, cache, requires_stream_parser>>

EndStream ==
  /\ pc = "stream" /\ pos = Len(file)
  /\ pc' = "done"
  /\ UNCHANGED <<file, pos, state, cache, requires_stream_parser, output>>

\* Reading or resolving a record fails, and with it the fold.
Fails ==
  /\ pc \in {"direct", "stream"}
  /\ pc' = "failed"
  /\ UNCHANGED <<file, pos, state, cache, requires_stream_parser, output>>

Init ==
  /\ file = <<>> /\ pos = 0 /\ pc = "direct"
  /\ state = NewState(HeaderIds)
  /\ cache = <<>> /\ requires_stream_parser = FALSE /\ output = <<>>

Ended == pc \in {"done", "failed"} /\ UNCHANGED vars

Next == ApplyDirect \/ ApplyStream \/ EndDirect \/ EndStream \/ Fails \/ Ended

Spec == Init /\ [][Next]_vars

-----------------------------------------------------------------------------
(* Properties. *)

\* Every variable keeps its type; the source of a mapping is one of its table.
TypeOK ==
  /\ file \in Seq(Record) /\ Len(file) <= MaxRecords /\ pos \in 0 .. Len(file)
  /\ pc \in {"direct", "stream", "done", "failed"}
  /\ state.header_build_ids \in [Paths -> Ids] /\ state.comm \in Comms
  /\ \A p \in Paths : state.dsos[p].symbol_build_id \in Ids \cup {NotLoaded}
  /\ \A r \in Regions : state.maps[r].source \in 0 .. Len(state.sources)
  /\ \A i \in DOMAIN cache : cache[i] \in Frame
  /\ requires_stream_parser \in BOOLEAN /\ output \in Seq(Frame)

\* What the recording means: its records applied once, in order, from the ids of
\* the file's header, every sample counted and nothing cached.
Beginning == [state |-> NewState(HeaderIds), output |-> <<>>]
Sampled(a, m) ==
  IF m.source = 0 THEN [state |-> a.state, output |-> Append(a.output, Unmapped)]
  ELSE LET s == Loaded(a.state, m.path)
       IN [state |-> s, output |-> Append(a.output, Resolved(s, m.path))]
After(a, r) ==
  IF r.kind = "sample" THEN Sampled(a, a.state.maps[r.region])
  ELSE [state |-> ApplyMetadata(a.state, r), output |-> a.output]
Meanings(records) ==
  LET m[i \in 0 .. Len(records)] == IF i = 0 THEN Beginning ELSE After(m[i - 1], records[i])
  IN m
Meaning == Meanings(file)[Len(file)].output

NoStreamIds == \A i \in DOMAIN file : file[i].kind # "build_id"

\* A fold that needed one pass, or a second one over a recording whose stream has
\* no BUILD_ID record, counts every sample once with the symbols the recording
\* means: neither the cache nor the change of parser alters the result.
PassExact ==
  (pc = "done" /\ (~requires_stream_parser \/ NoStreamIds)) => output = Meaning

\* A fold is exact, and its variables keep their types.
FoldExact == TypeOK /\ PassExact

\* The second pass works with fresh metadata (the comment where the replay
\* starts): its result does not depend on what the first pass learnt.
FreshMetadata == pc = "done" => output = Meaning

\* A sample is never shown with the symbols of an object other than the one
\* mapped where it was taken, whatever the passes before it cached.
OwnFrames ==
  pc = "done" =>
    /\ Len(output) = Len(Meaning)
    /\ \A i \in DOMAIN output : output[i].path = Meaning[i].path
=============================================================================
