----------------------------- MODULE DsoMemory -----------------------------
(***************************************************************************)
(* DsoMemorySources of src/perfdata/memory.rs: the object files the        *)
(* unwinder reads words of memory from.  A file is opened at the first     *)
(* read, blocks of it are kept, and descriptors are given back oldest      *)
(* first: to stay under half the process's limit, and whenever the system  *)
(* has none left.                                                          *)
(*                                                                         *)
(* A byte is its own position in its file.  Between reads, objects are     *)
(* removed or installed and the rest of the process opens or closes        *)
(* descriptors; the bytes of an object do not change.                      *)
(***************************************************************************)
EXTENDS Integers, Sequences, SequencesExt, FiniteSets, FiniteSetsExt

CONSTANTS
  Ids,            \* source ids of mapped DSOs
  CachedIds,      \* those with a build id, hence a path in the build-id cache
  Offsets,        \* file offsets read
  Length,         \* length of every object
  Block, Word,    \* BLOCK_SIZE and size_of::<u64>()
  FdLimit,        \* native_fd_limit
  MaxFds,         \* descriptors the process may have
  Absent,         \* no entry in sources
  Unusable        \* the entry is None: the first open failed

Files == (Ids \X {"system"}) \cup (CachedIds \X {"cache"})

\* A DsoMemory with the blocks of these starts: a block is the bytes it has.
DsoMemories(starts) ==
  [file : BOOLEAN, path : Files, len : {0, Length}, failed : BOOLEAN,
   blocks : [starts -> Seq(Files \X Nat)]]

ASSUME DsoAssumption ==
  /\ CachedIds \subseteq Ids /\ Offsets \subseteq Nat /\ {Length, FdLimit} \subseteq Nat
  /\ {Block, Word, MaxFds} \subseteq Nat \ {0} /\ Word <= Block
  /\ Absent # Unusable
  /\ \A starts \in SUBSET (0 .. Length) : {Absent, Unusable} \cap DsoMemories(starts) = {}

VARIABLES
  sources,        \* DsoMemorySources::sources
  open_order,     \* DsoMemorySources::open_order
  present,        \* objects that exist
  others,         \* descriptors the rest of the process holds
  last            \* history: the last read

vars == <<sources, open_order, present, others, last>>

NoBytes == <<>>         \* read_u64 returns None

Bytes(path, a, b) == [i \in 1 .. b - a |-> <<path, a + i - 1>>]

IsDsoMemory(s) ==
  /\ DOMAIN s.blocks \subseteq 0 .. Length /\ s \in DsoMemories(DOMAIN s.blocks)
  /\ s.len = IF s.file THEN Length ELSE 0

State == [sources |-> sources, open_order |-> open_order]
Known(st, id) == st.sources[id] \notin {Absent, Unusable}
Open(st) == {id \in Ids : Known(st, id) /\ st.sources[id].file}

-----------------------------------------------------------------------------
(* Descriptors. *)

\* close_oldest closes the front of open_order, if it has a file: n times.
Closable(st) == Max({n \in 0 .. Len(st.open_order) :
                       \A i \in 1 .. n : st.open_order[i] \in Open(st)})
ClosedSources(st, n) ==
  [id \in Ids |-> IF id \in ToSet(SubSeq(st.open_order, 1, n))
                  THEN [st.sources[id] EXCEPT !.file = FALSE, !.len = 0] ELSE st.sources[id]]
Closed(st, n) ==
  [sources |-> ClosedSources(st, n),
   open_order |-> SubSeq(st.open_order, n + 1, Len(st.open_order))]

\* open_with_eviction: a missing object fails at once; EMFILE is retried as long
\* as a descriptor can be closed.  Mutant: it is not retried.
Free(st) == others + Cardinality(Open(st)) < MaxFds
EvictionsNone(st) == 0
Evictions(st) ==
  Min({n \in 0 .. Closable(st) : Free(Closed(st, n)) \/ n = Closable(st)})
OpenWithEviction(st, path) ==
  LET after == IF path \in present THEN Closed(st, Evictions(st)) ELSE st
  IN [ok |-> path \in present /\ Free(after), st |-> after, path |-> path]

\* register_open runs before the new file is stored, so it never closes it.
OverLimit(n) == n >= FdLimit
RegisterOpen(st, id) ==
  LET queued == [st EXCEPT !.open_order = Append(@, id)]
  IN Closed(queued, IF OverLimit(Len(queued.open_order)) /\ Closable(queued) > 0 THEN 1 ELSE 0)

\* DsoMemory::open_with: the build-id cache, then the path of the mapping.
OpenWith(st, id) ==
  LET cached == OpenWithEviction(st, <<id, "cache">>)
  IN IF id \in CachedIds /\ cached.ok THEN cached
     ELSE OpenWithEviction(IF id \in CachedIds THEN cached.st ELSE st, <<id, "system">>)

With(st, id, source) ==
  [sources |-> [st.sources EXCEPT ![id] = source], open_order |-> st.open_order]

FirstOpen(st, id) ==
  LET r == OpenWith(st, id)
  IN IF ~r.ok THEN With(r.st, id, Unusable)
     ELSE With(RegisterOpen(r.st, id), id,
               [file |-> TRUE, path |-> r.path, len |-> Length, failed |-> FALSE, blocks |-> <<>>])

\* An evicted file is opened again by the path selected first.
SelectedPath(st, id) == OpenWithEviction(st, st.sources[id].path)
Failed(s) == [s EXCEPT !.failed = TRUE]
Reopen(st, id) ==
  LET r == SelectedPath(st, id)
      opened == RegisterOpen(r.st, id)
  IN IF ~r.ok THEN With(r.st, id, Failed(r.st.sources[id]))
     ELSE With(opened, id,
               [opened.sources[id] EXCEPT !.file = TRUE, !.path = r.path, !.len = Length])

Ready(st, id) ==
  CASE st.sources[id] = Absent -> FirstOpen(st, id)
    [] Known(st, id) /\ ~st.sources[id].failed /\ ~st.sources[id].file -> Reopen(st, id)
    [] OTHER -> st

-----------------------------------------------------------------------------
(* Blocks. *)

\* The block of a position: kept, or read from the file up to its length.
BlockStart(position) == position - (position % Block)
BlockAt(s, start) ==
  IF start \in DOMAIN s.blocks THEN s.blocks[start]
  ELSE Bytes(s.path, start, Min({s.len, start + Block}))
WithBlock(s, start) ==
  IF BlockAt(s, start) = <<>> THEN s
  ELSE [s EXCEPT !.blocks = [x \in DOMAIN @ \cup {start} |-> BlockAt(s, x)]]

\* What the block of a position has of the bytes wanted there.  Mutant: counted
\* from the start of the block.
WithinBlockStart(position) == 0
Within(position) == position % Block
Available(s, position, wanted) ==
  LET block == BlockAt(s, BlockStart(position))
  IN SubSeq(block, Within(position) + 1, Min({Len(block), Within(position) + wanted}))

\* DsoMemory::read_u64.  A word has its bytes in two blocks at most, so the loop
\* goes round at most twice before it has them all or finds none.
ReadWord(s, offset) ==
  IF offset > s.len THEN [source |-> s, bytes |-> NoBytes]
  ELSE LET a == Available(s, offset, Word)
           s1 == WithBlock(s, BlockStart(offset))
           next == offset + Len(a)
           b == Available(s1, next, Word - Len(a))
           s2 == WithBlock(s1, BlockStart(next))
       IN CASE a = <<>> -> [source |-> s1, bytes |-> NoBytes]
            [] Len(a) = Word -> [source |-> s1, bytes |-> a]
            [] OTHER -> [source |-> s2, bytes |-> IF Len(a \o b) = Word THEN a \o b ELSE NoBytes]

-----------------------------------------------------------------------------
\* DsoMemorySources::read_u64.
Read ==
  \E id \in Ids, offset \in Offsets :
    LET st == Ready(State, id)
        usable == Known(st, id) /\ ~st.sources[id].failed
        r == IF usable THEN ReadWord(st.sources[id], offset)
             ELSE [source |-> st.sources[id], bytes |-> NoBytes]
    IN /\ sources' = [st.sources EXCEPT ![id] = r.source]
       /\ open_order' = st.open_order
       /\ last' = [id |-> id, offset |-> offset, usable |-> usable, bytes |-> r.bytes]
       /\ UNCHANGED <<present, others>>

\* Objects come and go, and so do the descriptors of the rest of the process.
Install == \E f \in Files : present' = present \cup {f} /\ UNCHANGED <<sources, open_order, others, last>>
Uninstall == \E f \in present : present' = present \ {f} /\ UNCHANGED <<sources, open_order, others, last>>
OthersChange ==
  /\ others' \in 0 .. MaxFds - Cardinality(Open(State))
  /\ UNCHANGED <<sources, open_order, present, last>>

Init ==
  /\ sources = [id \in Ids |-> Absent] /\ open_order = <<>>
  /\ present = Files /\ others = 0
  /\ last = [id |-> CHOOSE id \in Ids : TRUE, offset |-> 0, usable |-> FALSE, bytes |-> NoBytes]

Next == Read \/ Install \/ Uninstall \/ OthersChange

Spec == Init /\ [][Next]_vars

-----------------------------------------------------------------------------
(* Properties. *)

\* Every variable keeps its type.
TypeOK ==
  /\ DOMAIN sources = Ids
  /\ \A id \in Ids : sources[id] \in {Absent, Unusable} \/ IsDsoMemory(sources[id])
  /\ open_order \in Seq(Ids) /\ present \subseteq Files /\ others \in 0 .. MaxFds

\* open_order holds the ids with an open file, each once: none is leaked out of
\* the queue, where eviction would never find it, or closed twice.
OrderExact ==
  /\ ToSet(open_order) = Open(State)
  /\ Cardinality(Open(State)) = Len(open_order)

\* After any read fewer files than half the limit are open (or one, if that
\* allows none), however often files are evicted and opened again.
FewOpen == Cardinality(Open(State)) <= Max({1, FdLimit - 1})

\* A word read is the word of the file selected first: whatever was evicted, kept
\* or loaded in between, and nothing is read past the end.
ReadExact ==
  last.usable =>
    last.bytes = IF last.offset + Word <= Length
                 THEN Bytes(sources[last.id].path, last.offset, last.offset + Word) ELSE NoBytes

\* What is read is what the file has; open files are counted exactly and stay below
\* the limit; and the variables keep their types.
MemoryExact == TypeOK /\ OrderExact /\ FewOpen /\ ReadExact

\* The path selected by the first open is never selected again, and a source that
\* failed stays failed.
SelectionKept ==
  \A id \in Ids :
    /\ sources[id] = Unusable => sources'[id] = Unusable
    /\ Known(State, id) =>
         /\ Known(State', id) /\ sources'[id].path = sources[id].path
         /\ sources[id].failed => sources'[id].failed

Readable(id) == sources[id] = Absent \/ (Known(State, id) /\ ~sources[id].failed)
GivenUp(id) == sources[id] = Unusable \/ (Known(State, id) /\ sources[id].failed)
Installed(id) ==
  <<id, "system">> \in present /\ (Known(State, id) => sources[id].path \in present)

\* A read whose object is there fails only when the rest of the process holds
\* every descriptor: all of its own have then been closed for it.
FailureForced ==
  \A id \in Ids :
    (Readable(id) /\ Installed(id) /\ GivenUp(id)') => others = MaxFds /\ Open(State') = {}

\* What the first open of a source decided stays, and it fails only when it must.
SourcesKept == [][SelectionKept /\ FailureForced]_vars
=============================================================================
