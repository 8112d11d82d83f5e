----------------------------- MODULE RecordFold -----------------------------
(***************************************************************************)
(* The replay of src/perfdata/fold.rs as far as it is reasoned about: the  *)
(* order in which replay_records hands over the records of a recording     *)
(* (RecordReplay), the samples that wait for their callchain               *)
(* (DeferredCallchains), and the passes of                                 *)
(* collect_fold_counts_from_source_inner (FoldPasses).                     *)
(***************************************************************************)
EXTENDS RecordReplay

CONSTANTS
  Tids, NoTid, Cookies, NoCookie, DeferredRecords,                  \* DeferredCallchains
  Paths, BuildIds, NoId, Regions, HeaderIds, LiveIds, FoldRecords   \* FoldPasses

VARIABLES
  waiting, batch, deferred_pc, deferred_count, deferrals, chains, emitted,
  fold_file, fold_pos, fold_pc, fold_state, fold_cache, requires_stream_parser, fold_output

deferredVars == <<waiting, batch, deferred_pc, deferred_count, deferrals, chains, emitted>>
foldVars ==
  <<fold_file, fold_pos, fold_pc, fold_state, fold_cache, requires_stream_parser, fold_output>>

Deferred == INSTANCE DeferredCallchains WITH
  MaxRecords <- DeferredRecords, deferred_samples <- waiting, pc <- deferred_pc,
  count <- deferred_count, samples <- deferrals, output <- emitted

Passes == INSTANCE FoldPasses WITH
  MaxRecords <- FoldRecords, file <- fold_file, pos <- fold_pos, pc <- fold_pc,
  state <- fold_state, cache <- fold_cache, output <- fold_output

ASSUME DeferredConstants == Deferred!DeferredAssumption
ASSUME PassesConstants == Passes!PassesAssumption

-----------------------------------------------------------------------------
(* What they promise, under these variables.                                 *)

\* Until the replay fails, every deferred sample is in exactly one place, once, and
\* in the end delivered; the samples of a thread keep their order, the first chain
\* record of the thread decides each, and none waits behind it.
DeferredExact == Deferred!DeferredExact

\* A fold that needed one pass, or a second one over a recording without BUILD_ID
\* records, counts every sample once with the symbols the recording means.
FoldExact == Passes!FoldExact
=============================================================================
