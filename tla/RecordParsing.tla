---------------------------- MODULE RecordParsing ----------------------------
(***************************************************************************)
(* The records of a perf.data file (src/perfdata/records.rs) and the build *)
(* IDs found among them (src/perfdata/build_id.rs), which are read in      *)
(* three ways: of a whole file in memory, of an open file up to the        *)
(* kernel's, and of the header's feature alone.                            *)
(*                                                                         *)
(* A section is a sequence of 32-bit words.  Every record starts with its  *)
(* type and with a word Flags * misc + size, the size in bytes; two 16-bit *)
(* lengths in one word are written in the same way.  A text is a sequence  *)
(* of words without a zero, followed by one.                               *)
(***************************************************************************)
EXTENDS Integers, Sequences, SequencesExt, Functions

CONSTANTS
  Files,   \* what may be recorded: [feature, data], each a sequence of records
  Sizes,   \* the sizes, in bytes, a damaged record may declare
  Kernel,  \* the first word of the kernel's names
  Error, None

VARIABLES
  file,    \* what was recorded
  bytes,   \* the words of the two sections
  damaged  \* whether a size was changed since

vars == <<file, bytes, damaged>>

Flags == 1000
Size(word) == word % Flags
Misc(word) == word \div Flags
Words(size) == (size + 3) \div 4

\* The misc bits 13, 14 and 15.
EXEC == 1
MMAP_BUILD_ID == 2
BUILD_ID_SIZE == 4
has_misc_flag(misc, flag) == (misc \div flag) % 2 = 1

Types ==
  [MMAP |-> 1, LOST |-> 2, COMM |-> 3, EXIT |-> 4, THROTTLE |-> 5, UNTHROTTLE |-> 6, FORK |-> 7,
   READ |-> 8, SAMPLE |-> 9, MMAP2 |-> 10, AUX |-> 11, ITRACE_START |-> 12, LOST_SAMPLES |-> 13,
   SWITCH |-> 14, SWITCH_CPU_WIDE |-> 15, NAMESPACES |-> 16, KSYMBOL |-> 17, BPF_EVENT |-> 18,
   CGROUP |-> 19, TEXT_POKE |-> 20, AUX_OUTPUT_HW_ID |-> 21, CALLCHAIN_DEFERRED |-> 22,
   HEADER_BUILD_ID |-> 67]
T(name) == Types[name]

-----------------------------------------------------------------------------
(* What is written.  `fixed` are the words of the fields of fixed size, the *)
(* word or words of a count included; `entries` what is counted, `name` the *)
(* text and `tail` the identification at the end.                           *)

Body(r) ==
  r.fixed \o r.entries \o (IF r.name = None THEN <<>> ELSE r.name \o <<0>>) \o r.tail
Encoded(r) == <<r.type, Flags * r.misc + 4 * (2 + Len(Body(r)))>> \o Body(r)
Section(records) == FlattenSeq([i \in DOMAIN records |-> Encoded(records[i])])

-----------------------------------------------------------------------------
(* Framing.                                                                 *)

Framed(offset, size, words, min) ==
  /\ offset + 2 <= Len(words) /\ size >= min /\ offset + Words(size) <= Len(words)

\* The records of a section up to the first that cannot be framed: `ok` says
\* whether there is none.
Frames(words, min) ==
  LET after[offset \in 0 .. Len(words)] ==
        IF offset = Len(words) THEN [records |-> <<>>, ok |-> TRUE]
        ELSE LET header == IF offset + 2 <= Len(words) THEN words[offset + 2] ELSE 0
             IN IF ~Framed(offset, Size(header), words, min)
                THEN [records |-> <<>>, ok |-> FALSE]
                ELSE LET next == offset + Words(Size(header))
                         rest == after[next]
                     IN [rest EXCEPT !.records =
                           <<[type |-> words[offset + 1], misc |-> Misc(header),
                              payload |-> SubSeq(words, offset + 3, next)]>> \o @]
  IN after[0]

iter_records(words) ==
  LET framed == Frames(words, 8) IN IF framed.ok THEN framed.records ELSE Error

-----------------------------------------------------------------------------
(* Typed records.                                                           *)

FixedWords(type) ==
  CASE type \in {T("FORK"), T("EXIT"), T("THROTTLE"), T("UNTHROTTLE"), T("AUX")} -> 6
    [] type \in {T("LOST"), T("NAMESPACES"), T("CALLCHAIN_DEFERRED"), T("KSYMBOL"),
                 T("BPF_EVENT")} -> 4
    [] type \in {T("SWITCH"), T("SAMPLE")} -> 0
    [] type = T("MMAP") -> 8
    [] type = T("MMAP2") -> 16
    [] type = T("TEXT_POKE") -> 3
    [] OTHER -> 2

Supported(type) == type \in Range(Types) \ {T("HEADER_BUILD_ID")}
Named(type) == type \in {T("COMM"), T("MMAP"), T("MMAP2"), T("KSYMBOL"), T("CGROUP")}
Identified(type) ==
  type \in {T("READ"), T("SAMPLE"), T("AUX"), T("ITRACE_START"), T("SWITCH"),
            T("SWITCH_CPU_WIDE"), T("NAMESPACES"), T("KSYMBOL"), T("BPF_EVENT"), T("CGROUP"),
            T("TEXT_POKE"), T("AUX_OUTPUT_HW_ID"), T("CALLCHAIN_DEFERRED")}

IsMmapBuildId(record) ==
  record.type = T("MMAP2") /\ has_misc_flag(record.misc, MMAP_BUILD_ID)

\* The words of what a record counts.
Declared(type, payload) ==
  CASE type = T("NAMESPACES") -> 4 * payload[3]
    [] type = T("CALLCHAIN_DEFERRED") -> 2 * payload[3]
    [] type = T("TEXT_POKE") -> Words(Size(payload[3]) + Misc(payload[3]))
    [] OTHER -> 0

\* parse_c_string_with_remainder; the rest of the word with the zero is left out.
TextAndRest(words) ==
  LET zeros == {i \in DOMAIN words : words[i] = 0}
      end == CHOOSE i \in zeros : \A j \in zeros : i <= j
  IN IF zeros = {} THEN [text |-> words, rest |-> <<>>]
     ELSE [text |-> SubSeq(words, 1, end - 1), rest |-> SubSeq(words, end + 1, Len(words))]

parse_record(record) ==
  LET type == record.type
      fixed == FixedWords(type)
      entries == fixed + Declared(type, record.payload)
      text == TextAndRest(SubSeq(record.payload, entries + 1, Len(record.payload)))
      rest == IF Named(type) THEN text.rest
              ELSE SubSeq(record.payload, entries + 1, Len(record.payload))
  IN IF ~Supported(type) THEN None
     ELSE IF Len(record.payload) < fixed THEN Error
     ELSE IF Len(record.payload) < entries THEN Error
     ELSE IF IsMmapBuildId(record) /\ record.payload[9] > 20 THEN Error
     ELSE [type |-> type, fixed |-> SubSeq(record.payload, 1, fixed),
           exec |-> has_misc_flag(record.misc, EXEC),
           entries |-> SubSeq(record.payload, fixed + 1, entries),
           name |-> IF Named(type) THEN text.text ELSE None,
           sample_id |-> IF Identified(type) THEN rest ELSE <<>>]

-----------------------------------------------------------------------------
(* Build IDs.                                                               *)

\* A build ID of a size in bytes.
Id(words, size) == [size |-> size, words |-> SubSeq(words, 1, Words(size))]
Event(pid, id, filename) == [pid |-> pid, id |-> id, filename |-> filename]
FileName(words) == TextAndRest(words).text

\* `most` is what the storage of the form holds: the two parsers differ in it.
Stored(record, most) ==
  LET size == IF has_misc_flag(record.misc, BUILD_ID_SIZE) THEN record.payload[7] ELSE 20
  IN IF Len(record.payload) < 7 THEN Error
     ELSE IF size > most THEN Error
     ELSE Event(record.payload[1], Id(Tail(record.payload), size),
                FileName(SubSeq(record.payload, 8, Len(record.payload))))

parse_build_id_event(record) == Stored(record, 20)
parse_build_id_record(record) == Stored(record, 24)

\* The ID in the mapping of a file.
parse_mmap2_build_id_record(record) ==
  LET payload == record.payload
  IN IF Len(payload) < 16 \/ payload[9] > 20 THEN Error
     ELSE Event(payload[1], Id(SubSeq(payload, 10, 14), payload[9]),
                FileName(SubSeq(payload, 17, Len(payload))))

StreamEvent(record) ==
  IF IsMmapBuildId(record) THEN parse_mmap2_build_id_record(record)
  ELSE parse_build_id_record(record)
InStream(record) == record.type = T("HEADER_BUILD_ID") \/ IsMmapBuildId(record)

\* The events of framed records, and Error for those that are malformed.
FeatureEvents(records) == [i \in DOMAIN records |-> parse_build_id_event(records[i])]
StreamEvents(records) ==
  LET events == SelectSeq(records, InStream)
  IN [i \in DOMAIN events |-> StreamEvent(events[i])]

Whole(framed, events) == IF framed.ok /\ Error \notin ToSet(events) THEN events ELSE Error

FeatureFrames == Frames(bytes.feature, 36)
DataFrames == Frames(bytes.data, 8)

\* header_build_id_events_from_perfdata and its reader's version.
header_build_id_events == Whole(FeatureFrames, FeatureEvents(FeatureFrames.records))

build_id_events_from_record_stream == Whole(DataFrames, StreamEvents(DataFrames.records))

is_defined_kernel_build_id(event) ==
  /\ \E i \in DOMAIN event.id.words : event.id.words[i] # 0
  /\ event.filename # <<>> /\ event.filename[1] = Kernel

FirstKernel(events) ==
  LET kernel == SelectSeq(events, is_defined_kernel_build_id)
  IN IF kernel = <<>> THEN None ELSE kernel[1].id

\* kernel_build_id_from_perfdata: everything is read, and must be well formed.
kernel_build_id_from_perfdata ==
  IF Error \in {header_build_id_events, build_id_events_from_record_stream} THEN Error
  ELSE FirstKernel(header_build_id_events \o build_id_events_from_record_stream)

\* The events before the first that is malformed.
UntilError(events) ==
  LET bad == {i \in DOMAIN events : events[i] = Error}
  IN IF bad = {} THEN events
     ELSE SubSeq(events, 1, (CHOOSE i \in bad : \A j \in bad : i <= j) - 1)

\* kernel_build_id_from_reader: the feature is read to its end, the records only to
\* the kernel's ID.
kernel_build_id_from_reader ==
  IF header_build_id_events = Error THEN Error
  ELSE IF FirstKernel(header_build_id_events) # None THEN FirstKernel(header_build_id_events)
  ELSE LET events == StreamEvents(DataFrames.records)
           found == FirstKernel(UntilError(events))
       IN IF found # None \/ build_id_events_from_record_stream # Error THEN found ELSE Error

-----------------------------------------------------------------------------
Init ==
  /\ file \in Files
  /\ bytes = [feature |-> Section(file.feature), data |-> Section(file.data)]
  /\ damaged = FALSE

\* The recorder did not finish, or the file was altered: a size is wrong.
Damage(section, i, size) ==
  LET at == Len(Section(SubSeq(file[section], 1, i - 1))) + 2
  IN /\ ~damaged /\ Size(bytes[section][at]) # size
     /\ bytes' = [bytes EXCEPT ![section][at] = Flags * Misc(@) + size]
     /\ damaged' = TRUE /\ UNCHANGED file

Next ==
  \E section \in {"feature", "data"} : \E i \in DOMAIN file[section], size \in Sizes :
     Damage(section, i, size)

-----------------------------------------------------------------------------
\* What a record says, as it was written.
Says(r) ==
  IF ~Supported(r.type) THEN None
  ELSE [type |-> r.type, fixed |-> r.fixed, exec |-> has_misc_flag(r.misc, EXEC),
        entries |-> r.entries, name |-> r.name,
        sample_id |-> IF Identified(r.type) THEN r.tail ELSE <<>>]

\* The kernel's build ID, as it was written: the feature's comes first.
WrittenKernelId ==
  LET Records == file.feature \o file.data
      IsId(r) == r.type \in {0, T("HEADER_BUILD_ID")} \/ IsMmapBuildId(r)
      SizeOf(r) == IF r.type = T("MMAP2") THEN r.fixed[9]
                   ELSE IF has_misc_flag(r.misc, BUILD_ID_SIZE) THEN r.fixed[7] ELSE 20
      Start(r) == IF r.type = T("MMAP2") THEN 10 ELSE 2
      IdOf(r) == Id(SubSeq(r.fixed, Start(r), Start(r) + 4), SizeOf(r))
      IsKernel(r) ==
        IsId(r) /\ r.name[1] = Kernel /\ \E i \in DOMAIN IdOf(r).words : IdOf(r).words[i] # 0
      kernel == SelectSeq(Records, IsKernel)
  IN IF kernel = <<>> THEN None ELSE IdOf(kernel[1])

\* Records are found and understood as they were written; whatever size a record
\* declares, records that are found tile their section; what a record counts and
\* its fixed part lie within it or it is refused.  The kernel's build ID is the one
\* written, whichever way it is looked for; in a damaged file the search in the open
\* file finds what the other does, or refuses, or stopped before the damage.
RecordsExact ==
  LET records == iter_records(bytes.data)
      whole == kernel_build_id_from_perfdata
      found == kernel_build_id_from_reader
  IN /\ ~damaged =>
          /\ Len(records) = Len(file.data)
          /\ \A i \in DOMAIN records : parse_record(records[i]) = Says(file.data[i])
          /\ whole = WrittenKernelId /\ found = WrittenKernelId
     /\ records # Error =>
          FlattenSeq([i \in DOMAIN records |->
             <<records[i].type,
               bytes.data[Len(FlattenSeq([j \in 1 .. i - 1 |->
                                            <<0, 0>> \o records[j].payload])) + 2]>>
             \o records[i].payload]) = bytes.data
     /\ whole # Error => found = whole
     /\ whole = Error => found = Error \/ (damaged /\ found = WrittenKernelId)
=============================================================================
