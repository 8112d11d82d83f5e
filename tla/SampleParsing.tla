---------------------------- MODULE SampleParsing ----------------------------
(***************************************************************************)
(* The sample records of a perf.data file: which event a payload belongs   *)
(* to (SampleLayouts of src/perfdata/fold.rs), what the two parsers of     *)
(* src/perfdata/samples.rs read from it, the times and thread ids at fixed *)
(* offsets, and the merge of a deferred callchain into a kept payload.     *)
(*                                                                         *)
(* A payload is a sequence of 32-bit words; a 64-bit word is a pair <<low, *)
(* high>>, and a size in bytes takes Words(size) of them.  What the kernel *)
(* writes (perf_output_sample, perf_event__output_id_sample) is the        *)
(* reference the parsers are compared with.                                *)
(***************************************************************************)
EXTENDS Integers, FiniteSets, Sequences, SequencesExt, Functions

CONSTANTS
  Recordings,  \* what may be recorded, see RecordingOK
  Marker,      \* the low word of PERF_CONTEXT_USER_DEFERRED
  Cookie,      \* the cookie of a deferred callchain
  Addresses,   \* the sequences of addresses a deferred record may bring
  Top,         \* the high word of a context marker
  Error, None

VARIABLES
  recording,  \* the events, the one that wrote, and the sample it wrote
  payload,    \* the bytes the program has
  merged,     \* the addresses a deferred record brought, or None
  damage      \* how many words are missing, or -1: one too many

vars == <<recording, payload, merged, damage>>

Words(bytes) == (bytes + 3) \div 4
Small(n) == <<n, 0>>
\* A 64-bit word as a length: no payload is as long as one with a high word.
Length(u64) == IF u64[2] = 0 THEN u64[1] ELSE 10000

\* The marker before the cookie of a deferred callchain.
DeferredMarker == <<Marker, Top>>

-----------------------------------------------------------------------------
(* What the kernel writes.                                                  *)

Pair(a, b) == <<a, b>>
Repeat(n, words) == FlattenSeq([i \in 1 .. n |-> words])
Chosen(flags, flag, words) == IF flag \in flags THEN words ELSE <<>>

WrittenRead(format, group) ==
  LET times == Chosen(format, "ENABLED", Small(3)) \o Chosen(format, "RUNNING", Small(2))
      value == Small(5) \o Chosen(format, "ID", Small(1)) \o Chosen(format, "LOST", Small(0))
  IN IF "GROUP" \in format THEN Small(group) \o times \o Repeat(group, value)
     ELSE Small(5) \o times \o Chosen(format, "ID", Small(1)) \o Chosen(format, "LOST", Small(0))

WrittenRegs(abi, count) == Small(abi) \o IF abi = 0 THEN <<>> ELSE Repeat(count, Small(6))

WrittenStack(size, dynamic) ==
  Small(size) \o IF size = 0 THEN <<>> ELSE Repeat(Words(size), <<7>>) \o Small(dynamic)

WrittenBranches(flags, count) ==
  Small(count) \o Chosen(flags, "HW_INDEX", Small(1)) \o Repeat(count, Repeat(3, Small(8)))
    \o Chosen(flags, "COUNTERS", Repeat(count, Small(9)))

KernelOrder ==
  <<"IDENTIFIER", "IP", "TID", "TIME", "ADDR", "ID", "STREAM_ID", "CPU", "PERIOD", "READ",
    "CALLCHAIN", "RAW", "BRANCH_STACK", "REGS_USER", "STACK_USER", "WEIGHT", "WEIGHT_STRUCT",
    "DATA_SRC", "TRANSACTION", "REGS_INTR", "PHYS_ADDR", "CGROUP", "DATA_PAGE_SIZE",
    "CODE_PAGE_SIZE", "AUX">>

Written(flag, layout, s) ==
  CASE flag \in {"IDENTIFIER", "ID"} -> Small(s.id)
    [] flag = "IP" -> s.ip
    [] flag = "TID" -> Pair(s.pid, s.tid)
    [] flag = "TIME" -> Small(s.time)
    [] flag = "CPU" -> Pair(s.cpu, 0)
    [] flag = "PERIOD" -> Small(s.period)
    [] flag = "READ" -> WrittenRead(layout.read_format, s.group)
    [] flag = "CALLCHAIN" -> Small(Len(s.callchain)) \o FlattenSeq(s.callchain)
    [] flag = "RAW" -> <<s.raw>> \o Repeat(Words(s.raw), <<4>>)
    [] flag = "BRANCH_STACK" -> WrittenBranches(layout.branch_sample_type, s.branches)
    [] flag = "REGS_USER" -> WrittenRegs(s.abi, layout.sample_regs_user)
    [] flag = "STACK_USER" -> WrittenStack(s.stack, s.dynamic)
    [] flag = "REGS_INTR" -> WrittenRegs(s.abi, layout.sample_regs_intr)
    [] flag = "AUX" -> Small(s.aux) \o Repeat(Words(s.aux), <<11>>)
    [] OTHER -> Small(12)

WriteFields(order, layout, s) ==
  FlattenSeq([i \in DOMAIN order |->
                Chosen(layout.sample_type, order[i], Written(order[i], layout, s))])

WriteSample(layout, s) == WriteFields(KernelOrder, layout, s)

\* The record parser reads AUX before the fields the kernel writes before it.
InKernelOrder(order, layout, s) == WriteFields(order, layout, s) = WriteSample(layout, s)

\* The identification at the end of a record that is not a sample.
TailOrder == <<"TID", "TIME", "ID", "STREAM_ID", "CPU", "IDENTIFIER">>
WriteTail(layout, s) == WriteFields(TailOrder, layout, s)

-----------------------------------------------------------------------------
(* The cursor and the fields (SampleCursor).                                *)

Cursor(bytes) == [payload |-> bytes, offset |-> 0, ok |-> TRUE, at |-> <<>>]
Failed(c) == [c EXCEPT !.ok = FALSE]

read_bytes(c, words) ==
  IF c.ok /\ c.offset + words <= Len(c.payload) THEN [c EXCEPT !.offset = @ + words]
  ELSE Failed(c)
skip_u64(c) == read_bytes(c, 2)

\* The value just read.
Last64(c) == <<c.payload[c.offset - 1], c.payload[c.offset]>>
Last32(c) == c.payload[c.offset]

skip_if(c, flags, flag) == IF flag \in flags THEN skip_u64(c) ELSE c

\* Reads a 64-bit count, and goes on with it.
Counted(c, Then(_, _)) ==
  LET After(head) == IF head.ok THEN Then(head, Length(Last64(head))) ELSE head
  IN After(skip_u64(c))

skip_sized_u32_payload(c) ==
  LET After(head) == IF head.ok THEN read_bytes(head, Words(Last32(head))) ELSE head
  IN After(read_bytes(c, 1))
skip_sized_u64_payload(c) == Counted(c, LAMBDA head, size : read_bytes(head, Words(size)))

skip_branch_stack(c, flags) ==
  Counted(c, LAMBDA head, branches :
    LET entries == read_bytes(skip_if(head, flags, "HW_INDEX"), 6 * branches)
    IN IF "COUNTERS" \in flags THEN read_bytes(entries, 2 * branches) ELSE entries)

read_regs(c, count) ==
  Counted(c, LAMBDA head, abi : IF abi = 0 THEN head ELSE read_bytes(head, 2 * count))

\* The dynamic size just read is no more than what was captured.
Within(tail, size) == IF tail.ok /\ Length(Last64(tail)) > size THEN Failed(tail) ELSE tail

\* read_user_stack without its early return.
StackAlwaysSized(c) ==
  Counted(c, LAMBDA head, size : Within(skip_u64(read_bytes(head, Words(size))), size))

read_user_stack(c) ==
  Counted(c, LAMBDA head, size :
    IF size = 0 THEN head ELSE Within(skip_u64(read_bytes(head, Words(size))), size))

skip_user_stack(c) == read_user_stack(c)

skip_times(c, format) == skip_if(skip_if(c, format, "ENABLED"), format, "RUNNING")

skip_group_read_format(c, format) ==
  Counted(c, LAMBDA head, values :
    read_bytes(skip_times(head, format), 2 * values * (1 + Cardinality(format \cap {"ID", "LOST"}))))

skip_read_format(c, format) ==
  IF "GROUP" \in format THEN skip_group_read_format(c, format)
  ELSE skip_if(skip_if(skip_times(skip_u64(c), format), format, "ID"), format, "LOST")

read_callchain(c) == Counted(c, LAMBDA head, frames : read_bytes(head, 2 * frames))

Field(c, flag, layout) ==
  CASE flag = "READ" -> skip_read_format(c, layout.read_format)
    [] flag = "CALLCHAIN" -> read_callchain(c)
    [] flag = "RAW" -> skip_sized_u32_payload(c)
    [] flag = "BRANCH_STACK" -> skip_branch_stack(c, layout.branch_sample_type)
    [] flag = "REGS_USER" -> read_regs(c, layout.sample_regs_user)
    [] flag = "STACK_USER" -> skip_user_stack(c)
    [] flag = "REGS_INTR" -> read_regs(c, layout.sample_regs_intr)
    [] flag = "AUX" -> skip_sized_u64_payload(c)
    [] OTHER -> skip_u64(c)

Placed(next, flag, from) == [next EXCEPT !.at = flag :> <<from, next.offset>> @@ @]

\* Reads the fields of `order` the layout has, and remembers where they were.
ReadFields(bytes, order, layout) ==
  FoldLeft(LAMBDA c, flag :
             IF flag \notin layout.sample_type \/ ~c.ok THEN c
             ELSE Placed(Field(c, flag, layout), flag, c.offset),
           Cursor(bytes), order)

Value(c, flag) ==
  IF flag \in DOMAIN c.at THEN <<c.payload[c.at[flag][1] + 1], c.payload[c.at[flag][1] + 2]>>
  ELSE None
First(value) == IF value = None THEN None ELSE value[1]
Second(value) == IF value = None THEN None ELSE value[2]

\* The 64-bit words between two offsets.
Frames(bytes, from, to) ==
  [i \in 1 .. (to - from) \div 2 |-> <<bytes[from + 2 * i - 1], bytes[from + 2 * i]>>]
UserRegs(c) ==
  [abi |-> Value(c, "REGS_USER"),
   values |-> Frames(c.payload, c.at["REGS_USER"][1] + 2, c.at["REGS_USER"][2])]
UserStack(c) ==
  LET size == Length(Value(c, "STACK_USER"))
      to == c.at["STACK_USER"][2]
  IN [bytes |-> size,
      dynamic |-> IF size = 0 THEN 0 ELSE Length(<<c.payload[to - 1], c.payload[to]>>)]
Callchain(c) == Frames(c.payload, c.at["CALLCHAIN"][1] + 2, c.at["CALLCHAIN"][2])

-----------------------------------------------------------------------------
(* The parsers.                                                             *)

MetadataOrder ==
  <<"IDENTIFIER", "IP", "TID", "TIME", "ADDR", "ID", "STREAM_ID", "CPU", "PERIOD", "READ">>
CapturedOrder == <<"RAW", "BRANCH_STACK", "REGS_USER", "STACK_USER">>
RecordOrder ==
  MetadataOrder \o <<"CALLCHAIN">> \o CapturedOrder
    \o <<"WEIGHT", "WEIGHT_STRUCT", "DATA_SRC", "TRANSACTION", "REGS_INTR", "PHYS_ADDR", "AUX",
         "CGROUP", "DATA_PAGE_SIZE", "CODE_PAGE_SIZE">>

SampleRecord(c) ==
  IF ~c.ok \/ c.offset # Len(c.payload) THEN Error
  ELSE [ip |-> Value(c, "IP"), pid |-> First(Value(c, "TID")), tid |-> Second(Value(c, "TID")),
        period |-> Value(c, "PERIOD"),
        callchain |-> IF "CALLCHAIN" \in DOMAIN c.at THEN Callchain(c) ELSE <<>>]

parse_sample_record(bytes, layout) == SampleRecord(ReadFields(bytes, RecordOrder, layout))

\* Also skip_non_callchain_tail: without a callchain, and without retain_metadata,
\* registers and stack are checked and dropped.
SampleCallchain(c, retain_metadata) ==
  LET has_chain == "CALLCHAIN" \in DOMAIN c.at
      captured == has_chain \/ retain_metadata
      ip == Value(c, "IP")
      Captured(flag) == captured /\ flag \in DOMAIN c.at
  IN IF ~c.ok THEN Error
     ELSE IF ~captured /\ ip = None THEN None
     ELSE [sample_ip |-> ip, pid |-> First(Value(c, "TID")), tid |-> Second(Value(c, "TID")),
           time |-> Value(c, "TIME"), cpu |-> First(Value(c, "CPU")),
           period |-> Value(c, "PERIOD"),
           frames |-> IF has_chain THEN Callchain(c) ELSE IF ip = None THEN <<>> ELSE <<ip>>,
           callchain_range |-> IF has_chain THEN c.at["CALLCHAIN"] ELSE None,
           user_regs |-> IF Captured("REGS_USER") THEN UserRegs(c) ELSE None,
           user_stack |-> IF Captured("STACK_USER") THEN UserStack(c) ELSE None]

parse_sample_callchain(bytes, layout, retain_metadata) ==
  SampleCallchain(ReadFields(bytes, MetadataOrder \o <<"CALLCHAIN">> \o CapturedOrder, layout),
                  retain_metadata)

deferred_cookie(frames) ==
  IF Len(frames) >= 2 /\ frames[Len(frames) - 1] = DeferredMarker THEN Last(frames) ELSE None

\* The payload with the addresses in the place of the cookie.
Spliced(bytes, range, count, ips) ==
  SubSeq(bytes, 1, range[1]) \o Small(count - 1 + Len(ips))
    \o SubSeq(bytes, range[1] + 3, range[2] - 2) \o FlattenSeq(ips)
    \o SubSeq(bytes, range[2] + 1, Len(bytes))
Merged(parsed, bytes, ips) ==
  Spliced(bytes, parsed.callchain_range, Len(parsed.frames), ips)
merge_deferred_sample_payload(bytes, layout, ips) ==
  Merged(parse_sample_callchain(bytes, layout, FALSE), bytes, ips)

-----------------------------------------------------------------------------
(* Events and fixed offsets.                                                *)

Events == recording.events
Count(flags, sample_type) == 2 * Cardinality(flags \cap sample_type)
ReadAt(bytes, offset) ==
  IF offset + 2 > Len(bytes) THEN Error ELSE <<bytes[offset + 1], bytes[offset + 2]>>

IdOffset(type) ==
  IF "IDENTIFIER" \in type THEN 0
  ELSE IF "ID" \in type THEN Count({"IP", "TID", "TIME", "ADDR"}, type) ELSE None
TimeOffset(type) ==
  IF "TIME" \in type THEN Count({"IDENTIFIER", "IP", "TID"}, type) ELSE None

\* Regions of ids are shared or overlap: the ids of each distinct region are given
\* to the last event that has it, and an id in several regions to the latest event.
by_identifier ==
  LET regions == {Events[i].ids : i \in DOMAIN Events}
      LastOf(region) == CHOOSE i \in DOMAIN Events :
                          /\ Events[i].ids = region
                          /\ \A j \in DOMAIN Events : Events[j].ids = region => j <= i
      Selects(region, selected) ==
        [id \in DOMAIN selected \cup region |->
           IF id \in region /\ (id \notin DOMAIN selected \/ selected[id] < LastOf(region))
           THEN LastOf(region) ELSE selected[id]]
  IN FoldLeft(LAMBDA selected, region : Selects(region, selected), <<>>, SetToSeq(regions))

event_for_payload(bytes) ==
  LET offset == IdOffset(Events[1].layout.sample_type)
  IN IF by_identifier = <<>> \/ offset = None THEN 1
     ELSE LET id == ReadAt(bytes, offset)
          IN IF id = Error THEN Error
             ELSE IF id[1] \in DOMAIN by_identifier THEN by_identifier[id[1]] ELSE 1

\* record_time of a sample.
SampleTime(bytes) ==
  LET event == event_for_payload(bytes)
      offset == TimeOffset(Events[event].layout.sample_type)
  IN IF event = Error THEN Error ELSE IF offset = None THEN None ELSE ReadAt(bytes, offset)

\* Of other records: fallback's layout, from the end.
sample_id_size(type) == 2 * Cardinality(ToSet(TailOrder) \cap type)
sample_id_payload_time(bytes, type) ==
  IF "TIME" \notin type \/ Len(bytes) < sample_id_size(type) THEN None
  ELSE ReadAt(bytes, Len(bytes) - sample_id_size(type) + Count({"TID"}, type))
sample_id_payload_tid(bytes, type) ==
  IF "TID" \notin type \/ Len(bytes) < sample_id_size(type) THEN None
  ELSE bytes[Len(bytes) - sample_id_size(type) + 2]

-----------------------------------------------------------------------------
Writer == Events[recording.writer]

\* What perf record guarantees: several events are told apart by the id of every
\* sample, in the same place, and identify their other records alike; a sample's
\* id belongs to the event that wrote it and to no later one.
RecordingOK(r) ==
  LET types == {r.events[i].layout.sample_type : i \in DOMAIN r.events}
  IN /\ r.writer \in DOMAIN r.events
     /\ Cardinality({type \cap ToSet(TailOrder) : type \in types}) = 1
     /\ \/ Len(r.events) = 1
        \/ \A type \in types : "IDENTIFIER" \in type
        \/ Cardinality(types) = 1 /\ \A type \in types : "ID" \in type
     /\ Len(r.events) > 1 =>
          /\ r.sample.id \in r.events[r.writer].ids
          /\ \A i \in DOMAIN r.events : i > r.writer => r.sample.id \notin r.events[i].ids

SampleAssumption == \A r \in Recordings : RecordingOK(r)

Init ==
  /\ recording \in Recordings
  /\ payload = WriteSample(recording.events[recording.writer].layout, recording.sample)
  /\ merged = None /\ damage = 0

\* A deferred record brings the addresses a kept sample waits for.
Merge(ips) ==
  /\ merged = None /\ damage = 0 /\ "CALLCHAIN" \in Writer.layout.sample_type
  /\ deferred_cookie(parse_sample_callchain(payload, Writer.layout, FALSE).frames) = Cookie
  /\ merged' = ips
  /\ payload' = merge_deferred_sample_payload(payload, Writer.layout, ips)
  /\ UNCHANGED <<recording, damage>>

\* The record in the file is shorter, or longer, than what was written.
Cut ==
  /\ merged = None /\ damage >= 0 /\ payload # <<>>
  /\ payload' = Front(payload) /\ damage' = damage + 1
  /\ UNCHANGED <<recording, merged>>

Pad ==
  /\ damage = 0 /\ payload' = Append(payload, 0) /\ damage' = -1
  /\ UNCHANGED <<recording, merged>>

Next == (\E ips \in Addresses : Merge(ips)) \/ Cut \/ Pad

-----------------------------------------------------------------------------
Has(flag, value) == IF flag \in Writer.layout.sample_type THEN value ELSE None

\* The callchain that was recorded, with what was deferred.
Recorded ==
  IF merged = None THEN recording.sample.callchain
  ELSE Front(recording.sample.callchain) \o merged

WrittenRecord ==
  LET s == recording.sample
  IN [ip |-> Has("IP", s.ip), pid |-> Has("TID", s.pid), tid |-> Has("TID", s.tid),
      period |-> Has("PERIOD", Small(s.period)),
      callchain |-> IF "CALLCHAIN" \in Writer.layout.sample_type THEN Recorded ELSE <<>>]

WrittenCallchain(retain_metadata) ==
  LET s == recording.sample
      has_chain == "CALLCHAIN" \in Writer.layout.sample_type
      registers == IF s.abi = 0 THEN 0 ELSE Writer.layout.sample_regs_user
  IN [sample_ip |-> Has("IP", s.ip), pid |-> Has("TID", s.pid), tid |-> Has("TID", s.tid),
      time |-> Has("TIME", Small(s.time)), cpu |-> Has("CPU", s.cpu),
      period |-> Has("PERIOD", Small(s.period)),
      frames |-> IF has_chain THEN Recorded ELSE IF Has("IP", s.ip) = None THEN <<>> ELSE <<s.ip>>,
      user_regs |-> IF has_chain \/ retain_metadata
                    THEN Has("REGS_USER", [abi |-> Small(s.abi),
                                           values |-> [i \in 1 .. registers |-> Small(6)]])
                    ELSE None,
      user_stack |-> IF has_chain \/ retain_metadata
                     THEN Has("STACK_USER", [bytes |-> s.stack,
                                             dynamic |-> IF s.stack = 0 THEN 0 ELSE s.dynamic])
                     ELSE None]

Unranged(parsed) == [f \in DOMAIN parsed \ {"callchain_range"} |-> parsed[f]]

\* The callchain parser gives what was written, or fails: never something else.
TrueTo(parsed, retain_metadata) ==
  \/ parsed = Error /\ damage > 0
  \/ /\ parsed = None /\ ~retain_metadata
     /\ {"IP", "CALLCHAIN"} \cap Writer.layout.sample_type = {}
  \/ parsed \notin {Error, None} /\ Unranged(parsed) = WrittenCallchain(retain_metadata)
CallchainTrue(retain_metadata) ==
  TrueTo(parse_sample_callchain(payload, Writer.layout, retain_metadata), retain_metadata)

\* A payload is parsed with the layout of the event that wrote it, into what the
\* event wrote, with the deferred addresses once they were merged; the record
\* parser refuses a payload that lacks a word or has one too many, and the time a
\* record is ordered by is the one it was written at, of a sample and of any other.
SamplesExact ==
  LET s == recording.sample
      tail == WriteTail(Writer.layout, s)
      type == Events[1].layout.sample_type
      selected == event_for_payload(payload)
      time == SampleTime(payload)
  IN /\ InKernelOrder(RecordOrder, Writer.layout, s) =>
          parse_sample_record(payload, Writer.layout) =
            IF damage # 0 THEN Error ELSE WrittenRecord
     /\ CallchainTrue(TRUE) /\ CallchainTrue(FALSE)
     /\ selected = recording.writer \/ (damage > 0 /\ selected = Error)
     /\ time = Has("TIME", Small(s.time)) \/ (damage > 0 /\ time = Error)
     /\ sample_id_payload_time(<<0, 0>> \o tail, type) = Has("TIME", Small(s.time))
     /\ sample_id_payload_tid(<<0, 0>> \o tail, type) = Has("TID", s.tid)
=============================================================================
