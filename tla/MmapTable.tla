------------------------------ MODULE MmapTable ------------------------------
(***************************************************************************)
(* MmapTable of src/perfdata/mappings.rs: the mappings of every address    *)
(* space in one arena with reused slots, a sorted interval index per       *)
(* bucket, overlap fix-up on insertion, fork copies, and the lookups of a  *)
(* FrameMappingContext through hints, known gaps and a cache of slot       *)
(* numbers that outlives changes of the table.                             *)
(*                                                                         *)
(* Addresses are 0 .. MaxAddress, which is u64::MAX.  The variable space   *)
(* is history: what each address was last mapped to, address by address.   *)
(* Publishing the section maps of a kernel module is not modelled.         *)
(***************************************************************************)
EXTENDS Integers, Sequences, SequencesExt, FiniteSets, FiniteSetsExt

CONSTANTS
  Groups,       \* map groups, the buckets of threads
  Global,       \* the kernel's bucket (u32::MAX)
  UserImages,   \* files mapped in user mode
  KernelImages, \* "[kernel.kallsyms]" and the like
  MaxAddress,   \* u64::MAX
  Offsets,      \* page offsets that occur
  MaxChanges,   \* bound on the changes of the table
  MaxSamples    \* bound on the samples rendered

TableAssumption ==
  /\ Global \notin Groups /\ UserImages \cap KernelImages = {}
  /\ MaxAddress \in Nat \ {0} /\ Offsets \subseteq 0 .. MaxAddress
  /\ MaxChanges \in Nat /\ MaxSamples \in Nat

VARIABLES
  table,     \* the arena, the buckets and which of them have mappings
  cache,     \* MappingResolveCache of the render buffers
  ctx,       \* the FrameMappingContext of the sample being rendered
  space,     \* history: address -> [image, address in it]
  changes, samples

vars == <<table, cache, ctx, space, changes, samples>>

Addresses == 0 .. MaxAddress
Buckets == Groups \cup {Global}
Mapped == UserImages \cup KernelImages
Mapping == [pid : Buckets, start : Addresses, len : Addresses, pgoff : Addresses, image : Mapped]

Nil == 0                      \* no slot
Dead == [pid |-> "dead"]      \* a slot without a mapping
NoContext == [pid |-> "none"]
NoGap == [start |-> 1, last |-> 0]
Unmapped == [image |-> "none"]

\* Addresses wrap.
Wrapped(n) == n % (MaxAddress + 1)
End(m) == Min({m.start + m.len, MaxAddress})
Overlap(m, n) == m.start < End(n) /\ n.start < End(m)
IsUser(m) == m.image \in UserImages

\* Kernel symbol mappings translate to themselves.
Translate(m, ip) ==
  IF m.pid = Global /\ m.image \in KernelImages THEN ip ELSE Wrapped(ip + m.pgoff - m.start)

-----------------------------------------------------------------------------
(* MappingArena: slots in a doubly linked list in insertion order. *)

Live(t, i) == i \in DOMAIN t.slots /\ t.slots[i].mapping # Dead
At(t, i) == t.slots[i].mapping

ArenaIndex(t) == IF t.free = <<>> THEN Len(t.slots) + 1 ELSE Last(t.free)

ArenaInsert(t, m) ==
  LET i == ArenaIndex(t)
      slot == [mapping |-> m, previous |-> t.last, next |-> Nil, id |-> t.next_id]
      placed == IF t.free = <<>> THEN Append(t.slots, slot) ELSE [t.slots EXCEPT ![i] = slot]
  IN [t EXCEPT !.slots = IF t.last = Nil THEN placed ELSE [placed EXCEPT ![t.last].next = i],
               !.free = IF t.free = <<>> THEN @ ELSE Front(@),
               !.first = IF t.last = Nil THEN i ELSE @,
               !.last = i,
               !.next_id = @ + 1]

Unlinked(t, i) ==
  LET p == t.slots[i].previous
      n == t.slots[i].next
      Relinked(j) == [mapping  |-> IF j = i THEN Dead ELSE t.slots[j].mapping,
                      previous |-> IF j = i THEN Nil ELSE IF j = n THEN p ELSE t.slots[j].previous,
                      next     |-> IF j = i THEN Nil ELSE IF j = p THEN n ELSE t.slots[j].next,
                      id       |-> t.slots[j].id]
  IN [j \in DOMAIN t.slots |-> Relinked(j)]

ArenaRemove(t, i) ==
  [t EXCEPT !.slots = Unlinked(t, i),
            !.first = IF t.slots[i].previous = Nil THEN t.slots[i].next ELSE @,
            !.last = IF t.slots[i].next = Nil THEN t.slots[i].previous ELSE @,
            !.free = Append(@, i)]

-----------------------------------------------------------------------------
(* The interval index: rows [start, max_end, index] sorted by start, max_end   *)
(* being the largest end up to the row.                                        *)

RowsBelow(b, limit) == Cardinality({i \in DOMAIN b : b[i].start < limit})

PrefixEnd(t, b, i) == Max({End(At(t, b[j].index)) : j \in 1 .. i})

Reindexed(t, b) == [i \in DOMAIN b |-> [b[i] EXCEPT !.max_end = PrefixEnd(t, b, i)]]

\* insert_mapping_without_overlap_fix stops updating at the first row whose
\* max_end is right already.
FirstSettled(t, b, position) ==
  Min({i \in position + 1 .. Len(b) : b[i].max_end = PrefixEnd(t, b, i)} \cup {Len(b) + 1})

InsertRow(t, b, m, i) ==
  LET position == RowsBelow(b, m.start + 1) + 1
      grown == InsertAt(b, position, [start |-> m.start, max_end |-> 0, index |-> i])
      stop == FirstSettled(t, grown, position)
  IN [j \in DOMAIN grown |->
        IF j >= position /\ j < stop
          THEN [grown[j] EXCEPT !.max_end = PrefixEnd(t, grown, j)] ELSE grown[j]]

InsertPlain(t, m) ==
  LET i == ArenaIndex(t)
      inserted == ArenaInsert(t, m)
  IN [inserted EXCEPT !.buckets[m.pid] = InsertRow(inserted, @, m, i),
                      !.present = @ \cup {m.pid}]

\* The descent over the rows from position top down stops where max_end says
\* that no earlier mapping reaches the address.
Reached(b, i, top, address) == \A j \in i .. top : b[j].max_end > address

HasOverlapping(t, m) ==
  LET b == t.buckets[m.pid]
      top == RowsBelow(b, End(m))
  IN \E i \in 1 .. top :
       Reached(b, i, top, m.start) /\ m.start < End(At(t, b[i].index)) /\ b[i].start < End(m)

\* What an overlapped mapping leaves before and after the new one.  Mutant: the
\* rest after it keeps its page offset.
AfterSameOffset(old, m) == [old EXCEPT !.start = End(m), !.len = End(old) - End(m)]
After(old, m) ==
  [old EXCEPT !.start = End(m), !.len = End(old) - End(m),
              !.pgoff = Wrapped(@ + End(m) - old.start)]

Splits(old, m) ==
  (IF old.start < m.start THEN <<[old EXCEPT !.len = m.start - old.start]>> ELSE <<>>) \o
  (IF End(old) > End(m) THEN <<After(old, m)>> ELSE <<>>)

\* The slots the mapping overlaps, in insertion order.
Overlapped(t, m) ==
  SetToSortSeq({t.buckets[m.pid][i].index : i \in
                  {i \in DOMAIN t.buckets[m.pid] : Overlap(At(t, t.buckets[m.pid][i].index), m)}},
               LAMBDA i, j : t.slots[i].id < t.slots[j].id)

WithoutOverlapping(t, m) ==
  LET gone == Overlapped(t, m)
      removed == FoldLeft(ArenaRemove, t, gone)
      kept == SelectSeq(t.buckets[m.pid], LAMBDA r : r.index \notin ToSet(gone))
  IN [removed EXCEPT !.buckets[m.pid] = Reindexed(removed, kept),
                     !.present = IF kept = <<>> THEN @ \ {m.pid} ELSE @]

\* insert_mapping: what is left of the overlapped ones first, then the new one.
Inserted(t, m) ==
  IF HasOverlapping(t, m)
    THEN LET gone == Overlapped(t, m)
             rests == FlattenSeq([i \in DOMAIN gone |-> Splits(At(t, gone[i]), m)])
         IN InsertPlain(FoldLeft(InsertPlain, WithoutOverlapping(t, m), rests), m)
    ELSE InsertPlain(t, m)

\* remove_pid_mappings.
Removed(t, g) ==
  [FoldLeft(ArenaRemove, t, [i \in DOMAIN t.buckets[g] |-> t.buckets[g][i].index])
     EXCEPT !.buckets[g] = <<>>, !.present = @ \ {g}]

\* clone_pid_mappings: the rows are copied as they are, the mappings inserted in
\* insertion order.
Cloned(t, from, to) ==
  LET rows == t.buckets[from]
      order == SetToSortSeq({rows[i].index : i \in DOMAIN rows},
                            LAMBDA i, j : t.slots[i].id < t.slots[j].id)
      Copy(acc, i) == [t |-> ArenaInsert(acc.t, [At(acc.t, i) EXCEPT !.pid = to]),
                       at |-> [acc.at EXCEPT ![i] = ArenaIndex(acc.t)]]
      copied == FoldLeft(Copy, [t |-> Removed(t, to), at |-> [i \in ToSet(order) |-> Nil]], order)
  IN [copied.t EXCEPT
        !.buckets[to] = [i \in DOMAIN rows |-> [rows[i] EXCEPT !.index = copied.at[@]]],
        !.present = IF rows = <<>> THEN @ ELSE @ \cup {to}]

-----------------------------------------------------------------------------
(* Lookups. *)

\* search_bucket: the topmost row at or below the address that contains it.
Containing(t, b, ip) ==
  LET top == RowsBelow(b, ip + 1)
  IN {i \in 1 .. top : Reached(b, i, top, ip) /\ ip < End(At(t, b[i].index))}

\* bucket_gap: the unmapped addresses around a miss.
Gap(t, b, ip) ==
  LET top == RowsBelow(b, ip + 1)
  IN [start |-> IF top = 0 THEN 0 ELSE b[top].max_end,
      last |-> IF top = Len(b) THEN MaxAddress ELSE b[top + 1].start - 1]

InGap(gap, ip) == gap.start <= ip /\ ip <= gap.last

\* frame_mapping_hint: a cached slot that is live in this bucket.  Mutant: the
\* slot may have been given to another bucket meanwhile.
HintAny(t, g, i) == IF Live(t, i) THEN i ELSE Nil
Hint(t, g, i) == IF Live(t, i) /\ At(t, i).pid = g THEN i ELSE Nil

\* resolve_bucket: the slot found, the hint and the gap afterwards.
Resolve(t, b, ip, hint, gap, user_only) ==
  LET Filtered(i) == IF user_only /\ ~IsUser(At(t, i)) THEN Nil ELSE i
      hit == Containing(t, b, ip)
      found == b[Max(hit)].index
  IN IF b = <<>> THEN [slot |-> Nil, hint |-> hint, gap |-> gap]
     ELSE IF hint # Nil /\ At(t, hint).start <= ip /\ ip < End(At(t, hint))
       THEN [slot |-> Filtered(hint), hint |-> hint, gap |-> gap]
     ELSE IF InGap(gap, ip) THEN [slot |-> Nil, hint |-> hint, gap |-> gap]
     ELSE IF hit = {} THEN [slot |-> Nil, hint |-> hint, gap |-> Gap(t, b, ip)]
     ELSE [slot |-> Filtered(found), hint |-> found, gap |-> gap]

GlobalRows == IF Global \in table.present THEN table.buckets[Global] ELSE <<>>

InUser(ip, user_only) ==
  Resolve(table, table.buckets[ctx.pid], ip, ctx.user_hint, ctx.user_gap, user_only)
InGlobal(ip) == Resolve(table, GlobalRows, ip, ctx.global_hint, ctx.global_gap, FALSE)

\* FrameMappingContext::resolve: the group's mapping unless the kernel's starts
\* later.
Chosen(user, global) ==
  IF user = Nil \/ (global # Nil /\ At(table, global).start > At(table, user).start)
    THEN global ELSE user

-----------------------------------------------------------------------------
(* Actions.  A context borrows the table: no change while it is open. *)

Change ==
  /\ ctx = NoContext /\ changes < MaxChanges
  /\ changes' = changes + 1
  /\ UNCHANGED <<cache, ctx, samples>>

Mmap ==
  \E m \in [pid : Buckets, start : Addresses, len : Addresses, pgoff : Offsets, image : Mapped] :
    /\ Change
    /\ table' = Inserted(table, m)
    /\ space' = [space EXCEPT ![m.pid] = [ip \in Addresses |->
                   IF m.start <= ip /\ ip < End(m)
                     THEN [image |-> m.image, address |-> Translate(m, ip)] ELSE @[ip]]]

Retire ==
  \E g \in Groups :
    /\ Change
    /\ table' = Removed(table, g)
    /\ space' = [space EXCEPT ![g] = [ip \in Addresses |-> Unmapped]]

Fork ==
  \E from, to \in Groups :
    /\ Change /\ from # to
    /\ table' = Cloned(table, from, to)
    /\ space' = [space EXCEPT ![to] = space[from]]

\* frame_context: the cached slots become hints if they still belong.
OpenContext ==
  \E g \in Groups :
    /\ ctx = NoContext /\ samples < MaxSamples
    /\ samples' = samples + 1
    /\ LET kept == IF cache.pid = g THEN cache.pid_index ELSE Nil
       IN /\ cache' = [cache EXCEPT !.pid = g, !.pid_index = kept]
          /\ ctx' = [pid |-> g, user_hint |-> Hint(table, g, kept), user_gap |-> NoGap,
                     global_hint |-> Hint(table, Global, cache.global_index), global_gap |-> NoGap]
    /\ UNCHANGED <<table, space, changes>>

LookupUser ==
  /\ ctx # NoContext
  /\ \E ip \in Addresses :
       LET u == InUser(ip, TRUE)
       IN /\ cache' = [cache EXCEPT !.pid_index = u.slot]
          /\ ctx' = [ctx EXCEPT !.user_hint = u.hint, !.user_gap = u.gap]
  /\ UNCHANGED <<table, space, changes, samples>>

Lookup ==
  /\ ctx # NoContext
  /\ \E ip \in Addresses :
       LET u == InUser(ip, FALSE)
           g == InGlobal(ip)
       IN /\ cache' = [cache EXCEPT !.pid_index = u.slot, !.global_index = g.slot]
          /\ ctx' = [ctx EXCEPT !.user_hint = u.hint, !.user_gap = u.gap,
                                !.global_hint = g.hint, !.global_gap = g.gap]
  /\ UNCHANGED <<table, space, changes, samples>>

CloseContext ==
  /\ ctx # NoContext
  /\ ctx' = NoContext
  /\ UNCHANGED <<table, cache, space, changes, samples>>

Init ==
  /\ table = [slots |-> <<>>, free |-> <<>>, first |-> Nil, last |-> Nil, next_id |-> 0,
              buckets |-> [g \in Buckets |-> <<>>], present |-> {}]
  /\ cache = [pid |-> "none", pid_index |-> Nil, global_index |-> Nil]
  /\ ctx = NoContext
  /\ space = [g \in Buckets |-> [ip \in Addresses |-> Unmapped]]
  /\ changes = 0 /\ samples = 0

Next == Mmap \/ Retire \/ Fork \/ OpenContext \/ LookupUser \/ Lookup \/ CloseContext

Spec == Init /\ [][Next]_vars

-----------------------------------------------------------------------------
(* Properties. *)

LiveSlots == {i \in DOMAIN table.slots : Live(table, i)}
Covering(g, ip) == {i \in LiveSlots : At(table, i).pid = g /\ At(table, i).start <= ip
                                                          /\ ip < End(At(table, i))}

\* Every field keeps its type.
TypeOK ==
  /\ \A i \in DOMAIN table.slots : At(table, i) \in Mapping \cup {Dead}
  /\ \A g \in Buckets : \A r \in ToSet(table.buckets[g]) :
       r.start \in Addresses /\ r.max_end \in Addresses /\ r.index \in DOMAIN table.slots
  /\ {cache.pid_index, cache.global_index} \subseteq {Nil} \cup DOMAIN table.slots

\* Splitting, copying and reusing slots keep the address spaces: an address is
\* in at most one mapping of a bucket, and is translated by it to where the last
\* record that covered it put it.
SpacesExact ==
  \A g \in Buckets, ip \in Addresses :
    IF space[g][ip] = Unmapped THEN Covering(g, ip) = {}
    ELSE \E i \in LiveSlots :
           /\ Covering(g, ip) = {i}
           /\ space[g][ip] = [image |-> At(table, i).image, address |-> Translate(At(table, i), ip)]

\* The interval index is exact, though insertion updates it only in part: the
\* rows of a bucket are its live slots sorted by start, max_end is the largest
\* end so far, and a bucket is present exactly when it has rows.
IndexExact ==
  \A g \in Buckets :
    LET b == table.buckets[g]
    IN /\ {b[i].index : i \in DOMAIN b} = {i \in LiveSlots : At(table, i).pid = g}
       /\ Len(b) = Cardinality({i \in LiveSlots : At(table, i).pid = g})
       /\ \A i \in DOMAIN b : b[i].start = At(table, b[i].index).start
                             /\ b[i].max_end = PrefixEnd(table, b, i)
       /\ \A i \in 2 .. Len(b) : b[i - 1].start <= b[i].start
       /\ (g \in table.present) <=> (b # <<>>)

\* The arena's list visits exactly the live slots in insertion order, and a slot
\* is free exactly when it is dead, once.
ArenaExact ==
  /\ ToSet(table.free) = DOMAIN table.slots \ LiveSlots
  /\ Len(table.free) = Cardinality(ToSet(table.free))
  /\ LiveSlots = {} <=> table.first = Nil
  /\ LiveSlots = {} <=> table.last = Nil
  /\ \A i \in LiveSlots :
       LET later == {j \in LiveSlots : table.slots[j].id > table.slots[i].id}
           n == table.slots[i].next
       IN IF later = {} THEN n = Nil /\ table.last = i
          ELSE /\ n \in later /\ table.slots[n].previous = i
               /\ \A j \in later : table.slots[n].id <= table.slots[j].id
  /\ table.first # Nil => table.slots[table.first].previous = Nil

\* The three views of the table, address spaces, index and arena, agree; and the
\* variables keep their types.
TableExact == TypeOK /\ SpacesExact /\ IndexExact /\ ArenaExact

\* A lookup through hints, gaps and a cache filled before the table changed finds
\* what a search of the live mappings finds.
LookupExact ==
  ctx # NoContext =>
    \A ip \in Addresses :
      /\ InUser(ip, TRUE).slot =
           Max({i \in Covering(ctx.pid, ip) : IsUser(At(table, i))} \cup {Nil})
      /\ InUser(ip, FALSE).slot = Max(Covering(ctx.pid, ip) \cup {Nil})
      /\ InGlobal(ip).slot = Max(Covering(Global, ip) \cup {Nil})
      /\ Chosen(InUser(ip, FALSE).slot, InGlobal(ip).slot) # Nil <=>
           Covering(ctx.pid, ip) \cup Covering(Global, ip) # {}
=============================================================================
