----------------------------- MODULE Resolution -----------------------------
(***************************************************************************)
(* What the symbols of a fold are resolved from as far as it is reasoned   *)
(* about: the objects read while unwinding (DsoMemory) and the frames kept *)
(* of all sources (FrameCache).                                            *)
(***************************************************************************)
EXTENDS DsoMemory

CONSTANTS
  Recordings, MainKey, Nothing                                     \* FrameCache

VARIABLES
  recording, tables, replaced_kernel_entries,                      \* FrameCache
  pending_kernel_module_misses,
  kernel_cursor_hint, retained_sample_ip, core, unavailable, loading,
  text, served, began, run, projected

frameVars ==
  <<recording, tables, replaced_kernel_entries, pending_kernel_module_misses, kernel_cursor_hint,
    retained_sample_ip, core, unavailable, loading, text, served, began, run, projected>>

Frames == INSTANCE FrameCache

ASSUME FrameConstants == Frames!CacheAssumption

-----------------------------------------------------------------------------
(* What the cache promises, under these variables.                           *)

\* A frame is served as the resolver would give it: the hints change nothing, a
\* sample that begins when the core kernel is loaded gets nothing of the time
\* before, adjacent nodes in a map replaced under the cursor keep to it, and an
\* identity stands for one list of frames for good.
FramesExact == Frames!FramesExact
=============================================================================
