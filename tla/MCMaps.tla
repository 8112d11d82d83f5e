------------------------------- MODULE MCMaps -------------------------------
(* Threads and their map groups (SessionMaps) and the mappings of those groups *)
(* (MmapTable), on the small instances below.  They are checked in one run;     *)
(* `part` says which runs, and the other module rests in an initial state.      *)
EXTENDS SessionMaps, TLC

CONSTANT Spawned                                   \* a set of model values

VARIABLES part, table, cache, ctx, space, changes, samples

mapVars == <<table, cache, ctx, space, changes, samples>>
suiteVars == <<part, vars, mapVars>>

\* Three address spaces, one without forks: mappings split, touch, saturate, are
\* empty and are copied by a fork.
Spaces == INSTANCE MmapTable WITH
  Groups <- Spawned, Global <- "kernel", UserImages <- {"u"}, KernelImages <- {},
  MaxAddress <- 3, Offsets <- {2}, MaxChanges <- 3, MaxSamples <- 0

\* Every lookup in an address space after up to two changes.
Lookups == INSTANCE MmapTable WITH
  Groups <- {"g"}, Global <- "kernel", UserImages <- {"u"}, KernelImages <- {"k"},
  MaxAddress <- 3, Offsets <- {1}, MaxChanges <- 2, MaxSamples <- 1

\* Two samples with changes between them, so that slots the first one remembered
\* are freed and used again; no kernel mappings.
Reuse == INSTANCE MmapTable WITH
  Groups <- {"g"}, Global <- "kernel", UserImages <- {"u"}, KernelImages <- {},
  MaxAddress <- 1, Offsets <- {0}, MaxChanges <- 4, MaxSamples <- 2

\* Nothing tells two images or two groups apart.
Symmetry == Permutations(Images) \cup Permutations(Spawned)

ASSUME ThreadConstants == IdsAssumption
ASSUME MapConstants ==
  Spaces!TableAssumption /\ Lookups!TableAssumption /\ Reuse!TableAssumption

MCInit ==
  /\ part \in {"groups", "names", "threads", "spaces", "lookups", "reuse"}
  /\ Init
  /\ CASE part = "spaces" -> Spaces!Init
       [] part = "lookups" -> Lookups!Init
       [] OTHER -> Reuse!Init

\* Two processes that map objects, or that name their threads, all their records
\* with thread ids; or a leader, its worker, another process and records without a
\* thread id, which do neither.
Identified == Unknown \notin DOMAIN session.threads
NothingMapped == DOMAIN session.maps \cup DOMAIN session.unwind = {}
NothingNamed == DOMAIN session.comms = {}

ThreadStep(step) == step /\ UNCHANGED <<part, mapVars>>
MapStep(step) == step /\ UNCHANGED <<part, vars>>

MCNext ==
  \/ part = "groups" /\ ThreadStep(Next /\ Identified' /\ NothingNamed')
  \/ part = "names" /\ ThreadStep(Next /\ Identified' /\ NothingMapped')
  \/ part = "threads" /\ ThreadStep(Next /\ NothingMapped' /\ NothingNamed')
  \/ part = "spaces" /\ MapStep(Spaces!Next)
  \/ part = "lookups" /\ MapStep(Lookups!Next)
  \/ part = "reuse" /\ MapStep(Reuse!Next)

MCSpec == MCInit /\ [][MCNext]_suiteVars

-----------------------------------------------------------------------------
(* GroupsIsolated and NotMoved come with SessionMaps.                          *)

\* An address is in at most one mapping of a bucket and is translated by it to
\* where the last record put it; the interval index holds exactly the live
\* mappings with exact ends; the arena's list visits exactly the live slots.  A
\* lookup through hints, gaps and a cache filled before the table changed finds
\* what a search of the live mappings finds.
LookupExact ==
  /\ part = "spaces" => Spaces!TableExact
  /\ part = "lookups" => Lookups!TableExact /\ Lookups!LookupExact
  /\ part = "reuse" => Reuse!TableExact /\ Reuse!LookupExact
=============================================================================
