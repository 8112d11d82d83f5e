--------------------------- MODULE ModuleReports ---------------------------
(***************************************************************************)
(* The unwinder of one map group: PidUnwindState of src/perfdata/fold.rs   *)
(* and FramehopUnwinder of src/perfdata/unwind.rs.                         *)
(*                                                                         *)
(* A walk reports the object mapped at every program counter it meets.  A  *)
(* report opens the object and adds a module; the report of a module that  *)
(* is known already, under the same name at the same range, collects it    *)
(* for good.  An address is looked up in a list of boundaries that is only *)
(* ever extended and whose owners are rewritten, lazily, after reports.    *)
(* What was found at an address is remembered in two memos.                *)
(*                                                                         *)
(* A stack is what memory happens to hold: the caller of a frame is any of *)
(* Pcs.  Which instructions have call frame information, and which of them *)
(* belong to signal trampolines, is part of the image.                     *)
(***************************************************************************)
EXTENDS Integers, Sequences, SequencesExt, Functions, FiniteSets, TLC

CONSTANTS
  Maps,        \* MMAP records that may come: path, start, len, pgoff, id
  Images,      \* path -> what can be opened there: span, linked, fixed, rows
  Names,       \* path -> file name
  Cached,      \* build id -> path of the object in the debug directory
  Jitted,      \* paths of generated objects, /tmp/jitted-*
  Vdso,        \* the path of vDSO mappings
  Live, LiveId,  \* path of the copied live vDSO, and its build id
  None,        \* no mapping, no module, no build id
  Limit,       \* highest address
  Pcs,         \* return addresses found on stacks
  MaxMaps, MaxSamples, MaxFrames   \* bounds: MMAP records, samples; 256 frames

ReportsAssumption ==
  /\ Limit \in Nat /\ Pcs \subseteq 1 .. Limit
  /\ MaxMaps \in Nat /\ MaxSamples \in Nat /\ MaxFrames \in Nat \ {0}
  /\ \A m \in Maps : m.len > 0 /\ m.start >= 0 /\ m.start + m.len - 1 <= Limit
  /\ \A p \in DOMAIN Images : Images[p].span > 0

VARIABLES
  space,       \* the group's mappings
  state,       \* PidUnwindState
  cursor,      \* the walk of the current sample, or of the last one
  depth,       \* how many entries it has given
  walking,     \* the walk has not ended
  maps, samples  \* how many records were applied
vars == <<space, state, cursor, depth, walking, maps, samples>>

Addresses == 0 .. Limit

-----------------------------------------------------------------------------
(* DwflSegmentLookup: a list of boundaries, each with the module from there on. *)

Slot(address, module) == [address |-> address, module |-> module]
Beyond(slots, i, address) == i > Len(slots) \/ address < slots[i].address

\* Binary search for the slot that ends after the address; 0 if there is none.
Search(slots, address) ==
  LET find[low \in 1 .. Len(slots) + 1, high \in 1 .. Len(slots) + 1] ==
        IF low >= high THEN 0
        ELSE LET mid == (low + high - 2) \div 2 + 1
             IN IF address < slots[mid].address THEN find[low, mid]
                ELSE IF Beyond(slots, mid + 1, address) THEN mid
                ELSE find[mid + 1, high]
  IN find[1, Len(slots) + 1]

lookup(slots, address, hint) ==
  IF hint # 0 /\ address >= slots[hint].address /\ Beyond(slots, hint + 1, address)
    THEN hint
    ELSE Search(slots, address)

\* Boundaries for a range, put in from position i on.
insert(slots, i, start, end) ==
  LET needStart == i = 1 \/ slots[i - 1].address # start
      needEnd == i >= Len(slots) \/ slots[i + 1].address # end
  IN SubSeq(slots, 1, i - 1)
       \o (IF needStart THEN <<Slot(start, None)>> ELSE <<>>)
       \o (IF needEnd THEN <<Slot(end, None)>> ELSE <<>>)
       \o SubSeq(slots, i, Len(slots))

\* The slots from i on up to the first that starts at the end or after it.
Painted(slots, i, end) ==
  {j \in i .. Len(slots) : \A k \in i + 1 .. j : slots[k].address < end}

\* One module of reify: its boundaries are made where they are missing, and what
\* lies between them is its own.
Owned(slots, painted, next, module) ==
  [slots |-> [j \in DOMAIN slots |->
                IF j \in painted THEN Slot(slots[j].address, module.id) ELSE slots[j]],
   hint |-> IF next <= Len(slots) THEN next ELSE 0]
Split(slots, i, module) ==
  IF i < Len(slots) /\ module.high < slots[i + 1].address
    THEN insert(slots, i + 1, module.high, slots[i + 1].address)
    ELSE slots
PaintFrom(slots, i, module, painted) ==
  Owned(slots, painted, i + Cardinality(painted), module)
PaintSplit(slots, i, module) == PaintFrom(slots, i, module, Painted(slots, i, module.high))
Paint(slots, i, module) == PaintSplit(Split(slots, i, module), i, module)

OwnAt(slots, i, module) ==
  IF i # 0 /\ slots[IF i = 0 THEN 1 ELSE i].address = module.low
    THEN Paint(slots, i, module)
    ELSE Paint(insert(slots, i + 1, module.low, module.high), i + 1, module)
Own(found, module) == OwnAt(found.slots, lookup(found.slots, module.low, found.hint), module)

reify(slots, modules) ==
  FoldLeft(Own, [slots |-> [j \in DOMAIN slots |-> Slot(slots[j].address, None)], hint |-> 0],
           modules).slots

\* module_for_ip: the end of a module is its own too if nobody starts there.
OwnerFrom(s, ip, i) ==
  IF i = 0 THEN None
  ELSE IF s.slots[i].module # None THEN s.slots[i].module
  ELSE IF /\ i > 1 /\ s.slots[i].address = ip /\ s.slots[i - 1].module # None
          /\ s.reported[s.slots[i - 1].module].high = ip
    THEN s.slots[i - 1].module
  ELSE None
Owner(s, ip) == OwnerFrom(s, ip, Search(s.slots, ip))

-----------------------------------------------------------------------------
(* Reported modules. *)

\* The modules that were not collected, in the order they are listed in.
LiveModules(s) ==
  SelectSeq([i \in DOMAIN s.order |-> s.reported[s.order[i]]], LAMBDA m : ~m.gc)

refresh_segment_lookup(s) ==
  IF s.stale THEN [s EXCEPT !.slots = reify(s.slots, LiveModules(s)), !.stale = FALSE] ELSE s

\* The parts of the address space that Framehop is given, each with its module:
\* between neighbouring boundaries one module owns everything but its end.
SpansBetween(s, boundaries) ==
  {span \in [low : boundaries, high : boundaries, id : DOMAIN s.reported] :
     /\ span.low < span.high /\ span.id = Owner(s, span.low)
     /\ \A b \in boundaries : b <= span.low \/ span.high <= b}
Spans(s) == SpansBetween(s, {s.slots[i].address : i \in DOMAIN s.slots}
                              \cup {m.high + 1 : m \in ToSet(LiveModules(s))})

Rebuilt(s) == [s EXCEPT !.registered = Spans(s), !.dirty = FALSE]
refresh_framehop_modules(s) ==
  IF s.dirty THEN Rebuilt(refresh_segment_lookup(s)) ELSE s

invalidate_module_lookups(s) == [s EXCEPT !.stale = TRUE, !.dirty = TRUE, !.memo = <<>>]

\* Where a module goes in such an order: after the last that was not collected.
Place(s, order) ==
  1 + SelectLastInSeq(order, LAMBDA id : ~s.reported[id].gc)

\* reject_existing_elf_report.  Mutant: the memo of what has call frame
\* information is kept.
Collect(s, i) ==
  LET order == InsertAt(RemoveAt(s.order, i), Place(s, SubSeq(s.order, 1, i - 1)), s.order[i])
  IN [s EXCEPT !.order = order, !.reported[s.order[i]].gc = TRUE]
CollectedQuietly(s, i) == [Collect(s, i) EXCEPT !.stale = TRUE, !.dirty = TRUE]
Collected(s, i) == invalidate_module_lookups(Collect(s, i))

Added(s, module) ==
  invalidate_module_lookups(
    [s EXCEPT !.reported = Append(@, module), !.order = InsertAt(@, Place(s, @), module.id)])

Rejected(s) == [state |-> s, module |-> None, added |-> FALSE]

\* object_mapping_addresses for an ELF file: where its first byte is, or None.
Base(image, path, m) ==
  IF image.fixed THEN image.linked
  ELSE IF path \in Jitted THEN m.start
  ELSE IF m.pgoff <= m.start THEN m.start - m.pgoff
  ELSE None

\* report_object_mapping of an image that can be opened.
Known(s, module) ==
  SelectInSeq(s.order, LAMBDA id : /\ s.reported[id].name = module.name
                                  /\ s.reported[id].low = module.low
                                  /\ s.reported[id].high = module.high)
Report(s, module) ==
  IF Known(s, module) # 0 THEN Rejected(Collected(s, Known(s, module)))
  ELSE [state |-> Added(s, module), module |-> module.id, added |-> TRUE]

\* load_unwind_mapping: the object at this path, under the name of the mapping's.
LoadedAt(s, image, base, name) ==
  IF base = None THEN Rejected(s)
  ELSE Report(s, [id |-> Len(s.reported) + 1, name |-> name, low |-> base,
                  high |-> base + image.span, gc |-> FALSE, rows |-> image.rows])
load_unwind_mapping(s, path, m) ==
  IF path \notin DOMAIN Images THEN Rejected(s)
  ELSE LoadedAt(s, Images[path], Base(Images[path], path, m), Names[m.path])

\* report_unwind_mapping_source: a vDSO without a cached object is taken from this
\* system, whatever offset was recorded; of anything else the file that is there
\* now, else the one in the debug directory.
Fallback(first, m) ==
  IF first.module # None \/ m.id = None THEN first
  ELSE load_unwind_mapping(first.state, IF m.id \in DOMAIN Cached THEN Cached[m.id] ELSE m.path, m)
report_unwind_mapping_source(s, m) ==
  IF m.path = Vdso /\ m.id \notin DOMAIN Cached
    THEN IF Live \in DOMAIN Images /\ m.id \in {None, LiveId}
           THEN load_unwind_mapping(s, Live, [m EXCEPT !.pgoff = 0])
           ELSE Rejected(s)
    ELSE Fallback(load_unwind_mapping(s, m.path, m), m)

-----------------------------------------------------------------------------
(* Reporting an address. *)

Mapped(ip) == {m \in space : m.start <= ip /\ ip < m.start + m.len}
MappingOf(ip) == CHOOSE m \in Mapped(ip) : TRUE

\* reported_unwind_module_for_mapping, by a looked-up state: the owner if it starts
\* where this mapping's file does.
FileBase(m) == IF m.path \in Jitted THEN m.start ELSE m.start - m.pgoff
Reported(s, m, ip) ==
  IF \E id \in DOMAIN s.reported : id = Owner(s, ip) /\ s.reported[id].low = FileBase(m)
    THEN Owner(s, ip) ELSE None

\* The load counts only if the address belongs to the module it gave.
Settled(s, loaded, ip) ==
  [state |-> s,
   result |-> IF loaded.module = None \/ loaded.module # Owner(s, ip) THEN "failed"
              ELSE IF loaded.added THEN "new" ELSE "known"]
Settle(loaded, ip) == Settled(refresh_segment_lookup(loaded.state), loaded, ip)

\* report_unwind_module_for_ip_like_perf, on a refreshed lookup.
ReportMapped(s, m, ip) ==
  IF Reported(s, m, ip) # None
    THEN Settle([state |-> s, module |-> Reported(s, m, ip), added |-> FALSE], ip)
    ELSE Settle(report_unwind_mapping_source([s EXCEPT !.eligibility = <<>>], m), ip)
ReportIp(before, ip) ==
  IF Mapped(ip) = {} THEN [state |-> before, result |-> "no_dso"]
  ELSE ReportMapped(refresh_segment_lookup(before), MappingOf(ip), ip)

\* has_unwind_info_for_ip, computed and remembered, on a refreshed lookup.
Described(s, ip, owner) ==
  owner # None /\ ip - s.reported[owner].low \in DOMAIN s.reported[owner].rows
Covered(s, ip) == Described(s, ip, Owner(s, ip))
WithMemo(s, ip) ==
  IF ip \in DOMAIN s.memo THEN s ELSE [s EXCEPT !.memo = (ip :> Covered(s, ip)) @@ @]

\* leaf_only_eligibility, by what is remembered.
Decided(s, ip, owned) ==
  [s EXCEPT !.eligibility = (ip :> (owned /\ ~s.memo[ip])) @@ @]
Decide(s, ip, owned) == Decided(IF owned THEN WithMemo(s, ip) ELSE s, ip, owned)
WithEligibility(s, ip) ==
  IF ip \in DOMAIN s.eligibility THEN s
  ELSE Decide(s, ip, Mapped(ip) # {} /\ Owner(s, ip) # None)

-----------------------------------------------------------------------------
(* The cursor.  `chain` says that the frame pointers may lead further: a walk   *)
(* never gets past arch_fallback_provably_cannot_advance without it.            *)

Registers == [pc : Pcs, chain : BOOLEAN]
Caller(regs, signal) == [kind |-> "caller", regs |-> regs, signal |-> signal]
NoRow == [kind |-> "no_row", signal |-> FALSE]
Stop == [kind |-> "stop", signal |-> FALSE]

\* raw_pc, or the call before a return address.
StepAddress(c) == IF c.initial \/ c.signal THEN c.regs.pc ELSE c.regs.pc - 1

\* entry_pc: the caller of a signal trampoline was interrupted, not calling.
entry_pc(c, next) == IF next.signal THEN c.regs.pc ELSE StepAddress(c)

requires_lookahead(c) == ~c.initial /\ ~c.signal

\* prepare_cursor: the caller by call frame information, else by the frame
\* pointers, whose failure counts as having found nothing.
Row(s, owner, ip) == s.reported[owner].rows[ip - s.reported[owner].low]
Steps(s, c) ==
  IF Covered(s, StepAddress(c))
    THEN {Stop} \cup {Caller(regs, Row(s, Owner(s, StepAddress(c)), StepAddress(c)) = "signal") :
                        regs \in Registers}
    ELSE {NoRow} \cup {Caller(regs, FALSE) : regs \in {r \in Registers : c.regs.chain}}

\* Mutant: what was found before the frame was reported stands.
NeverRetried(next) == FALSE
needs_retry(next) == next = NoRow

-----------------------------------------------------------------------------
(* Records. *)

Fresh ==
  [reported |-> <<>>, order |-> <<>>, slots |-> <<>>, stale |-> FALSE, dirty |-> FALSE,
   registered |-> {}, memo |-> <<>>, attached |-> FALSE, eligibility |-> <<>>]
Resting == [regs |-> None, initial |-> TRUE, signal |-> FALSE, next |-> Stop]

Init ==
  /\ space = {} /\ state = Fresh /\ cursor = Resting /\ depth = 0 /\ walking = FALSE
  /\ maps = 0 /\ samples = 0

\* What a new mapping leaves of another one (MmapTable has the table itself).
End(m) == m.start + m.len
Left(old, m) ==
  IF m.start >= End(old) \/ End(m) <= old.start THEN {old}
  ELSE {piece \in {[old EXCEPT !.len = m.start - old.start],
                   [old EXCEPT !.start = End(m), !.len = End(old) - End(m),
                               !.pgoff = @ + End(m) - old.start]} : piece.len > 0}

\* An MMAP record: what was concluded from the mappings goes, the modules stay.
Mmap(m) ==
  /\ ~walking /\ maps < MaxMaps
  /\ space' = {m} \cup UNION {Left(old, m) : old \in space}
  /\ state' = [state EXCEPT !.eligibility = <<>>]
  /\ maps' = maps + 1 /\ UNCHANGED <<cursor, depth, walking, samples>>

\* The walk ends, for good or for want of a row (which `cursor` records).
Finish(s, entries, c) ==
  /\ state' = s /\ depth' = entries /\ walking' = FALSE
  /\ cursor' = IF c.next = NoRow THEN c ELSE Resting

\* The state in which a sample's registers may be asked for, after the report of
\* its address: unwind_object_frame_addresses_like_perf up to the attachment.
Attaches(reported) == reported.result # "failed"
                        /\ (reported.state.attached \/ reported.state.reported # <<>>)

\* sample_is_leaf_only: the report of a mapped address has refreshed the lookup.
KnownHere(s, ip) == Mapped(ip) # {} /\ Reported(s, MappingOf(ip), ip) # None
LeafOnly(s, regs) ==
  /\ KnownHere(s, regs.pc) /\ ~regs.chain
  /\ WithEligibility(s, regs.pc).eligibility[regs.pc]
Asked(s, ip) == IF KnownHere(s, ip) THEN WithEligibility(s, ip) ELSE s

First(regs) == [regs |-> regs, initial |-> TRUE, signal |-> FALSE, next |-> Stop]
Walk(s, regs) ==
  \/ LeafOnly(s, regs) /\ Finish(Asked(s, regs.pc), 1, Resting)
  \/ /\ ~LeafOnly(s, regs)
     /\ state' = Asked(s, regs.pc) /\ cursor' = First(regs) /\ depth' = 0 /\ walking' = TRUE
Unwind(reported, regs) ==
  \/ ~Attaches(reported) /\ Finish(reported.state, 0, Resting)
  \/ Attaches(reported) /\ Walk([reported.state EXCEPT !.attached = TRUE], regs)
Sample(regs) ==
  /\ ~walking /\ samples < MaxSamples /\ samples' = samples + 1
  /\ Unwind(ReportIp(state, regs.pc), regs)
  /\ UNCHANGED <<space, maps>>

\* One turn of unwind_reported_frame_addresses_like_perf: the program counter is
\* reported, then the entry; the step to the caller is prepared between the two
\* for an ordinary caller, and after both for the others and for a failed one.
Advance(s, next) ==
  IF next.kind = "caller" /\ depth + 1 < MaxFrames
    THEN /\ state' = s /\ depth' = depth + 1
         /\ cursor' = [regs |-> next.regs, initial |-> FALSE, signal |-> next.signal,
                       next |-> Stop]
         /\ UNCHANGED walking
    ELSE Finish(s, depth + 1, [cursor EXCEPT !.next = next])
Enter(reported, first) ==
  IF reported.result = "failed"
    THEN Finish(reported.state, depth, [cursor EXCEPT !.next = Stop])
  ELSE IF requires_lookahead(cursor) /\ ~needs_retry(first)
    THEN Advance(reported.state, first)
  ELSE \E s \in {refresh_framehop_modules(reported.state)} :
         \E next \in Steps(s, cursor) : Advance(s, next)
Turn(s) ==
  \E first \in IF requires_lookahead(cursor) THEN Steps(s, cursor) ELSE {Stop} :
    Enter(ReportIp(s, entry_pc(cursor, first)), first)
Frame ==
  /\ walking
  /\ LET raw == ReportIp(state, cursor.regs.pc).state
     IN Turn(IF requires_lookahead(cursor) THEN refresh_framehop_modules(raw) ELSE raw)
  /\ UNCHANGED <<space, maps, samples>>

Next ==
  \/ \E m \in Maps : Mmap(m)
  \/ \E regs \in Registers : Sample(regs)
  \/ Frame

Spec == Init /\ [][Next]_vars

-----------------------------------------------------------------------------
(* Properties. *)

TypeOK ==
  /\ space \subseteq [path : {m.path : m \in Maps}, start : Addresses, len : Addresses,
                      pgoff : Nat, id : {m.id : m \in Maps}]
  /\ state.order \in Seq(DOMAIN state.reported) /\ state.attached \in BOOLEAN
  /\ walking \in BOOLEAN

Now == refresh_segment_lookup(state)
Everywhere == 0 .. Limit + 2

\* A collected module owns nothing.  As long as modules do not overlap unless they
\* are in the same place, an address in one of them belongs to the last that was
\* reported there; if no module starts where another ends, an address outside of
\* them belongs to the one that ends there, or to none.  (After such a start the
\* last module reaches further than its end, as in elfutils.)
Modules == {state.reported[id] : id \in DOMAIN state.reported}
Together(m, n) == m.low = n.low /\ m.high = n.high
Holders(ip) == {i \in DOMAIN state.order : LET m == state.reported[state.order[i]]
                                            IN ~m.gc /\ m.low <= ip /\ ip < m.high}
Enders(ip) == {i \in DOMAIN state.order : LET m == state.reported[state.order[i]]
                                           IN ~m.gc /\ m.high = ip}
LastOf(positions) == state.order[CHOOSE i \in positions : \A j \in positions : j <= i]
OwnersExact ==
  /\ \A ip \in Everywhere : Owner(Now, ip) # None => ~state.reported[Owner(Now, ip)].gc
  /\ (\A m, n \in Modules : Together(m, n) \/ m.high <= n.low \/ n.high <= m.low) =>
       \A ip \in Everywhere : Holders(ip) # {} => Owner(Now, ip) = LastOf(Holders(ip))
  /\ (\A m, n \in Modules : Together(m, n) \/ m.high < n.low \/ n.high < m.low) =>
       \A ip \in Everywhere : Holders(ip) = {} =>
         Owner(Now, ip) = IF Enders(ip) # {} THEN LastOf(Enders(ip)) ELSE None

\* What is remembered of an address is what would be found there now.
MemosFresh ==
  /\ \A ip \in DOMAIN state.memo : state.memo[ip] = Covered(Now, ip)
  /\ \A ip \in DOMAIN state.eligibility :
       state.eligibility[ip] <=> Mapped(ip) # {} /\ Owner(Now, ip) # None /\ ~Covered(Now, ip)

\* Framehop has been given, at every address up to the last end, the module that
\* the lookup finds there, unless it is given the modules again before its next use.
FramehopExact ==
  ~state.dirty =>
    /\ ~state.stale
    /\ \A ip \in Everywhere :
         (\E m \in Modules : ~m.gc /\ ip <= m.high) =>
           {s.id : s \in {r \in state.registered : r.low <= ip /\ ip < r.high}}
             = {Owner(state, ip)} \ {None}

\* A sample whose walk is skipped would have given its address alone: reporting
\* the address again succeeds and nothing leads to a caller.
LeafExact ==
  \A ip \in Pcs : LET regs == [pc |-> ip, chain |-> FALSE]
                  IN ~walking /\ LeafOnly(Now, regs) =>
                       /\ ReportIp(state, ip).result = "known"
                       /\ Steps(Now, [regs |-> regs, initial |-> TRUE, signal |-> FALSE]) = {NoRow}

\* A walk does not end for want of a module that it has reported meanwhile.
EndsFinal ==
  ~walking /\ cursor.next = NoRow => NoRow \in Steps(Now, cursor)

UnwindExact == TypeOK /\ OwnersExact /\ MemosFresh /\ FramehopExact /\ LeafExact /\ EndsFinal
=============================================================================
