------------------------------ MODULE MCReplay ------------------------------
(* The replay of a recording on small instances: the parsing of its samples     *)
(* (SampleParsing) and of its other records (RecordParsing), the order in which  *)
(* records are handed over (RecordReplay), the samples that wait for their       *)
(* callchain (DeferredCallchains), the fold's two passes (FoldPasses) and its    *)
(* two ways to count a sample (SampleFrames), the walks of its unwinder          *)
(* (ModuleReports) and their steps (CallFrames).  All are checked in one run;    *)
(* `part` says which of them runs, the others rest in one initial state.         *)
EXTENDS RecordFold, SequencesExt

CONSTANTS
  Missing, Error   \* model values: no value, a parser's error

VARIABLES
  part,
  recording, payload, merged, damage,   \* SampleParsing
  file, bytes, damaged,                 \* RecordParsing
  space, state, cursor, depth, walking, maps, walks,   \* ModuleReports
  question, answer,                     \* CallFrames
  fold_world, fold_direct, fold_script, fold_counted, fold_samples  \* SampleFrames

sampleVars == <<recording, payload, merged, damage>>
recordVars == <<file, bytes, damaged>>
unwindVars == <<space, state, cursor, depth, walking, maps, walks>>
frameVars == <<question, answer>>
countVars == <<fold_world, fold_direct, fold_script, fold_counted, fold_samples>>
suiteVars ==
  <<part, vars, deferredVars, foldVars, sampleVars, recordVars, unwindVars, frameVars, countVars>>

\* One of two objects has a build id on this system, and none in the file's header.
MCHeaderIds == [p \in Paths |-> NoId]
MCLiveIds == [p \in Paths |-> IF p = "a" THEN "live" ELSE NoId]

-----------------------------------------------------------------------------
(* Samples with and without each field, and with any one but AUX left out. *)

\* The sample of event 1: a chain that waits for its user part, a stack of which
\* half was used, and two branches' worth of everything.
Busy ==
  [id |-> 1, ip |-> <<21, 0>>, pid |-> 31, tid |-> 32, time |-> 41, cpu |-> 51, period |-> 61,
   group |-> 2, callchain |-> <<<<5, 9>>, <<21, 0>>, <<77, 9>>, <<88, 0>>>>, raw |-> 12,
   branches |-> 2, abi |-> 1, stack |-> 8, dynamic |-> 4, aux |-> 8]
\* The sample of event 2: everything that may be empty is.
Idle ==
  [Busy EXCEPT !.id = 2, !.callchain = <<>>, !.raw = 4, !.branches = 0, !.abi = 0, !.stack = 0,
               !.aux = 0]

SampleFlags ==
  {"IDENTIFIER", "IP", "TID", "TIME", "ADDR", "ID", "STREAM_ID", "CPU", "PERIOD", "READ",
   "CALLCHAIN", "RAW", "BRANCH_STACK", "REGS_USER", "STACK_USER", "WEIGHT", "WEIGHT_STRUCT",
   "DATA_SRC", "TRANSACTION", "REGS_INTR", "PHYS_ADDR", "CGROUP", "DATA_PAGE_SIZE",
   "CODE_PAGE_SIZE", "AUX"}
Layout(type) ==
  [sample_type |-> type, read_format |-> {"ID", "LOST", "ENABLED"},
   branch_sample_type |-> {"COUNTERS", "HW_INDEX"}, sample_regs_user |-> 2,
   sample_regs_intr |-> 1]
Grouped(layout) ==
  [layout EXCEPT !.read_format = {"GROUP", "ID", "RUNNING"}, !.branch_sample_type = {}]

SampleTypes ==
  {SampleFlags} \cup {{flag} : flag \in SampleFlags}
    \cup {SampleFlags \ {"AUX", flag} : flag \in SampleFlags}
    \cup {SampleFlags \ {"AUX", f, g} : f, g \in {"IDENTIFIER", "IP", "TID", "TIME", "ADDR", "CALLCHAIN"}}

Attr(ids, layout) == [ids |-> ids, layout |-> layout]
Lean == Layout({"IDENTIFIER", "TID", "TIME", "ID", "STREAM_ID", "CPU"})
ById == Layout({"IP", "TID", "ADDR", "ID", "PERIOD", "CALLCHAIN"})

\* One event; two with layouts of their own; events that share or overlap their ids.
MCRecordings ==
  {[events |-> <<Attr({s.id}, Layout(type))>>, writer |-> 1, sample |-> s] :
     type \in SampleTypes, s \in {Busy, Idle}}
  \cup {[events |-> <<Attr({}, Grouped(Layout(SampleFlags)))>>, writer |-> 1, sample |-> s] :
          s \in {Busy, Idle}}
  \cup {[events |-> <<Attr({1}, Layout(SampleFlags)), Attr({2}, Lean)>>, writer |-> s.id,
         sample |-> s] : s \in {Busy, Idle}}
  \cup {[events |-> <<Attr({1, 2}, ById), Attr({2}, ById)>>, writer |-> s.id, sample |-> s] :
          s \in {Busy, Idle}}
  \cup {[events |-> <<Attr({1}, Lean), Attr({1}, Layout(SampleFlags))>>, writer |-> 2,
         sample |-> Busy]}

Parsing == INSTANCE SampleParsing WITH
  Recordings <- MCRecordings, Marker <- 77, Cookie <- <<88, 0>>, Top <- 9, None <- Missing,
  Addresses <- {<<>>, <<<<3, 0>>>>, <<<<3, 0>>, <<4, 0>>>>}

-----------------------------------------------------------------------------
(* A record of every form, between build IDs of every form.                    *)

Rec(type, misc, fixed, entries, name, tail) ==
  [type |-> type, misc |-> misc, fixed |-> fixed, entries |-> entries, name |-> name,
   tail |-> tail]
Numbers(n) == [i \in 1 .. n |-> i]
Sampled == <<9, 9>>

PlainRecords ==
  {Rec(3, misc, Numbers(2), <<>>, <<41>>, Sampled) : misc \in {0, 1}}                  \* COMM
  \cup {Rec(1, 0, Numbers(8), <<>>, <<40, 41>>, <<>>),                                 \* MMAP
        Rec(7, 1, Numbers(6), <<>>, Missing, <<>>), Rec(2, 0, Numbers(4), <<>>, Missing, <<>>),
        Rec(13, 4, Numbers(2), <<>>, Missing, <<>>),                              \* LOST_SAMPLES
        Rec(8, 0, Numbers(2), <<>>, Missing, <<5, 6>>),                                   \* READ
        Rec(14, 0, <<>>, <<>>, Missing, Sampled), Rec(11, 0, Numbers(6), <<>>, Missing, Sampled),
        Rec(16, 0, <<1, 2, 2, 0>>, Numbers(8), Missing, Sampled),                   \* NAMESPACES
        Rec(16, 0, <<1, 2, 0, 0>>, <<>>, Missing, <<>>),
        Rec(17, 0, Numbers(4), <<>>, <<41>>, Sampled),                              \* KSYMBOL
        Rec(18, 0, Numbers(4), <<>>, Missing, Sampled),                              \* BPF_EVENT
        Rec(19, 0, Numbers(2), <<>>, <<>>, Sampled),                                 \* CGROUP
        Rec(20, 0, <<1, 0, 5004>>, Numbers(3), Missing, Sampled),                    \* TEXT_POKE
        Rec(22, 0, <<1, 0, 2, 0>>, Numbers(4), Missing, Sampled)}           \* CALLCHAIN_DEFERRED

KernelName == <<77, 41>>
Nonzero == Numbers(5)
Zero == <<0, 0, 0, 0, 0>>
BuildId(type, misc, size, id, name) == Rec(type, misc, <<1>> \o id \o <<size>>, <<>>, name, <<>>)
MappedId(size, id, name) ==
  Rec(10, 2, Numbers(8) \o <<size>> \o id \o <<15, 16>>, <<>>, name, Sampled)

Features ==
  {<<>>, <<BuildId(0, 4, 20, Nonzero, <<41>>)>>, <<BuildId(0, 4, 20, Zero, KernelName)>>,
   <<BuildId(0, 0, 7, Nonzero, <<41>>), BuildId(0, 4, 16, Nonzero, KernelName)>>,
   <<BuildId(0, 4, 0, Nonzero, KernelName)>>}
StreamIds ==
  {MappedId(20, Nonzero, KernelName), MappedId(8, <<7, 8, 9, 10, 11>>, KernelName),
   MappedId(20, Nonzero, <<41>>), BuildId(67, 4, 12, Nonzero, KernelName),
   BuildId(67, 0, 9, Nonzero, KernelName), BuildId(67, 4, 12, Zero, KernelName)}

Records == INSTANCE RecordParsing WITH
  Files <- [feature : Features, data : {<<>>} \cup (PlainRecords \X StreamIds)
                                              \cup (StreamIds \X StreamIds)],
  Sizes <- {0, 8, 16, 36, 40, 60, 200}, Kernel <- 77, None <- Missing

-----------------------------------------------------------------------------
(* Objects with and without call frame information and at a fixed address, one   *)
(* only in the debug directory and a vDSO, in mappings that overlap, abut and    *)
(* move.                                                                         *)

Image(span, linked, fixed, rows) ==
  [span |-> span, linked |-> linked, fixed |-> fixed, rows |-> rows]
Map(path, start, len, pgoff, id) ==
  [path |-> path, start |-> start, len |-> len, pgoff |-> pgoff, id |-> id]

Reports == INSTANCE ModuleReports WITH
  Images <- [a |-> Image(3, 0, FALSE, (1 :> "plain")), b |-> Image(2, 0, FALSE, <<>>),
             f |-> Image(3, 2, TRUE, (0 :> "signal")),
             cached |-> Image(2, 0, FALSE, (0 :> "plain")),
             live |-> Image(2, 0, FALSE, (1 :> "plain"))],
  Names <- [a |-> "a", b |-> "b", f |-> "f", c |-> "c", vdso |-> "vdso"],
  Maps <- {Map("a", 0, 3, 0, Missing), Map("a", 1, 2, 1, Missing), Map("a", 3, 2, 0, Missing),
           Map("b", 4, 2, 0, Missing), Map("b", 1, 2, 0, Missing), Map("f", 2, 3, 0, Missing),
           Map("f", 3, 2, 0, Missing), Map("c", 4, 2, 0, "idc"), Map("vdso", 2, 2, 1, Missing)},
  Cached <- [idc |-> "cached"], Jitted <- {}, Vdso <- "vdso", Live <- "live",
  LiveId <- "idlive", None <- Missing, Limit <- 6, Pcs <- {1, 2, 4},
  MaxMaps <- 2, MaxSamples <- 2, MaxFrames <- 3, samples <- walks

-----------------------------------------------------------------------------
(* Words of four bits, made of two bytes.  Expressions of up to three operations *)
(* that branch into, between and behind each other; descriptions that overlap;   *)
(* rows that define, inherit, remember and restore their address; modules with   *)
(* one section or both; frame pointers of every kind over a stack with gaps.     *)

Op(op, size) == [op |-> op, size |-> size]
Const(n) == [op |-> "const", value |-> n, size |-> 2]
Pick(n) == [op |-> "pick", index |-> n, size |-> 2]
Deref(bits) == [op |-> "deref", bits |-> bits, size |-> 1]
Jump(op, target) == [op |-> op, target |-> target, size |-> 3]
Operations ==
  {Op(op, 1) : op \in {"drop", "swap", "rot", "neg", "minus", "div", "mod", "shra", "lt",
                       "call_frame_cfa", "stack_value", "nop", "undecodable"}}
    \cup {Const(0), Const(13), Pick(0), Pick(1), Deref(4), Deref(2),
          [op |-> "reg", reg |-> 9, size |-> 1], [op |-> "breg", reg |-> 7, offset |-> -1, size |-> 2],
          [op |-> "addr", value |-> 2, size |-> 2]}
    \cup {Jump(op, target) : op \in {"skip", "bra"}, target \in {-3, 0, 1}}

FullMemory == [a \in 0 .. 15 |-> (3 * a + 1) % 16]
Env(regs, memory, cfa, at) == [regs |-> regs, memory |-> memory, cfa |-> cfa, at |-> at]
At(svma, avma) == [svma |-> svma, avma |-> avma]
Recorded(fp, sp, lr) == [r \in 0 .. 32 |-> CASE r \in {6, 29} -> fp [] r \in {7, 31} -> sp
                                             [] r = 30 -> lr [] OTHER -> r % 16]

Fde(start, end, at, cie, code) ==
  [start |-> start, end |-> end, offset |-> at, cie |-> cie, code |-> code, signal |-> FALSE,
   ra |-> 16, rules |-> (16 :> [rule |-> "offset", offset |-> -2])
                          @@ (6 :> [rule |-> "val_expression", expr |-> <<Const(13), Op("plus", 1)>>])
                          @@ (30 :> [rule |-> "register", reg |-> 16])]
Define == [op |-> "def_cfa", reg |-> 7, offset |-> 2]
Codes ==
  {Define, [op |-> "def_cfa_register", reg |-> 6], [op |-> "def_cfa_offset", offset |-> 4],
   [op |-> "def_cfa_expression", expr |-> <<[op |-> "reg", reg |-> 6, size |-> 1]>>],
   Op("remember_state", 1), Op("restore_state", 1), [op |-> "advance_loc", delta |-> 1],
   [op |-> "advance_loc", delta |-> 15], [op |-> "set_loc", to |-> 3]}
Cies == {<<>>} \cup {<<code>> : code \in {c \in Codes : c.op \notin {"advance_loc", "set_loc"}}}
          \cup {<<Op("remember_state", 1), Define>>, <<Define, Op("remember_state", 1)>>}

Described == Fde(2, 4, 0, <<Define>>, <<>>)
Undecodable == Fde(2, 4, 0, <<>>, <<Op("restore_state", 1)>>)
Modules == [eh : {<<>>, <<Described>>, <<Undecodable>>}, debug : {<<>>, <<Described>>}]

Sections == SeqOf({Fde(low, high, low + high, <<>>, <<>>) : low \in 0 .. 2, high \in 2 .. 4}, 3)
Numbered(fdes) == [i \in DOMAIN fdes |-> [fdes[i] EXCEPT !.offset = i]]

Registers(arch, registers) ==
  {[kind |-> "registers", arch |-> arch, mask |-> mask,
    values |-> [i \in 1 .. Cardinality(mask) + n |-> 40 + i]] :
     mask \in SUBSET registers, n \in {0, 1}}

Addressed == {[at |-> at, module |-> module] : at \in {At(0, 0), At(1, 4)}, module \in Modules}
MCQuestions ==
  [expression |->
     {[kind |-> "expression", program |-> asked[1], of |-> asked[2],
       env |-> Env((7 :> 5) @@ (6 :> 3), [FullMemory EXCEPT ![0] = 7],
                   IF asked[2] = "cfa" THEN Missing ELSE 6, At(1, 4))] :
        asked \in (SeqOf(Operations, 3) \X {"cfa", "location"}) \cup (SeqOf(Operations, 2) \X {"value"})},
   entry |->
     {[kind |-> "entry", section |-> Numbered(section), address |-> address] :
        section \in Sections, address \in 0 .. 4},
   cfa |->
     {[kind |-> "cfa", fde |-> Fde(1, 5, 0, cie, code), address |-> address, arch |-> arch,
       env |-> Env(Recorded(8, 4, 11), FullMemory, Missing, At(0, 0))] :
        cie \in Cies, code \in SeqOf(Codes, 3), address \in {1, 2, 4},
        arch \in {"x86_64", "aarch64"}},
   step |->
     {[kind |-> "step", module |-> placed.module @@ [at |-> placed.at],
       address |-> placed.at.avma - placed.at.svma + address, arch |-> arch,
       env |-> Env(Recorded(fp, sp, lr), Restrict(FullMemory, words), Missing, placed.at)] :
        placed \in Addressed, address \in 1 .. 4, arch \in {"x86_64", "aarch64"},
        fp \in {0, 2, 11, 13, 15}, sp \in {0, 4, 15}, lr \in {0, 3},
        words \in {{}, 0 .. 15, {4, 13, 1}, {2, 11, 0}}},
   ranges |->
     {[kind |-> "ranges", ranges |-> ranges] :
        ranges \in SeqOf({[low |-> low, high |-> high] : low \in 0 .. 3, high \in 2 .. 4}, 3)},
   load |->
     {[kind |-> "load", segments |-> segments] :
        segments \in SeqOf([address : {0, 3, 5, 9}, size : {0, 3, 8}, align : {0, 1, 4}], 2)},
   x86_64 |-> Registers("x86_64", {0, 3, 6, 7, 8, 9, 17, 24}),
   aarch64 |-> Registers("aarch64", {5, 29, 30, 31, 32, 33}),
   read |->
     {[kind |-> "read", sp |-> sp, size |-> size, address |-> address] :
        sp \in 0 .. 15, size \in 0 .. 6, address \in 0 .. 15}]

Frames == INSTANCE CallFrames WITH
  Questions <- MCQuestions, Bits <- 4, Bytes <- 2, MaxSteps <- 5, MaxDepth <- 3, None <- Missing

-----------------------------------------------------------------------------
(* An object under two paths, one in a path with a space, one without a name; the *)
(* kernel's core; a module that loads and whose sections are published, and one  *)
(* that does not load.                                                           *)

Named(names) == [names |-> names, dso |-> "mapping"]
Nameless == Named(<<>>)
UserMap(path, source) ==
  [path |-> path, source |-> source, kernel |-> FALSE, module |-> FALSE, loads |-> FALSE]
KernelMap(path, source) == [UserMap(path, source) EXCEPT !.kernel = TRUE]
ModuleMap(path, source, loads) ==
  [KernelMap(path, source) EXCEPT !.module = TRUE, !.loads = loads]

Plain(chain, unwound, user_ip) ==
  [chain |-> chain, unwound |-> unwound, user_ip |-> user_ip, cookie |-> Missing,
   kernel_ip |-> Missing, comm |-> "plain", event |-> "cycles"]
UserPlaces == {"u", "g", "a", "s", "n", "v", "w", "p", "j", "h", "x", "y"}
UserStacks == {<<leaf, caller>> : leaf \in UserPlaces, caller \in {"u", "g", "x"}}
                \cup {<<place, place>> : place \in UserPlaces}
KernelStacks == SeqOf({"c", "k", "m", "i", "e", "f"}, 2)
FoldSamples ==
  {Plain(<<"KERNEL">> \o stack \o user, <<>>, Missing) :
     stack \in KernelStacks, user \in {<<>>, <<"USER", "u">>, <<"USER", "c">>}}
  \cup {Plain(<<"KERNEL", "m", "USER">>, <<leaf, "u">>, leaf) : leaf \in UserPlaces}
  \cup {Plain(stack, <<>>, Missing) : stack \in UserStacks}
  \cup {[Plain(stack, <<>>, Missing) EXCEPT !.event = "faults"] : stack \in UserStacks}
  \cup {Plain(<<>>, stack, Head(stack)) : stack \in UserStacks}
  \cup {Plain(<<>>, stack, Missing) : stack \in UserStacks}
  \cup {Plain(chain, <<"u">>, "u") :
          chain \in {<<"HV", "c", "u">>, <<"u", "GUEST", "u">>, <<"USER_DEFERRED", "u">>,
                     <<"u", "KERNEL", "m", "c", "i">>}}
  \cup {[Plain(<<"KERNEL", "m", "USER", "u">>, <<place, "u">>, place) EXCEPT !.cookie = cookie] :
          place \in {"v", "u", "g", "x"}, cookie \in {"v", "u", "g", "x", "m"}}
  \cup {[Plain(chain, <<>>, Missing) EXCEPT !.kernel_ip = ip] :
          chain \in {<<>>, <<"u">>, <<"KERNEL", "i", "e">>}, ip \in {"c", "m", "f", "u"}}
  \cup {[Plain(<<"u">>, <<>>, Missing) EXCEPT !.comm = "stream"]}

\* Left out is where the two ways differ: functions are inlined and an instruction
\* is sampled in the kernel's half of a user map; nothing is symbolized and such an
\* address is unwound without a map, or the kernel's core is met; a sample of an
\* event that is not counted loads a map.
SamplesOf(w) ==
  {s \in FoldSamples :
     /\ s.event \in w.events
     /\ w.inline /\ w.symbols => s.user_ip \notin {"v", "w"}
     /\ ~w.symbols => /\ "y" \notin ToSet(s.unwound)
                      /\ {"c", "k"} \cap ToSet(s.chain) = {}
     /\ "faults" \in w.events => s.chain \in UserStacks /\ s.comm = "plain"}
FoldRecordings ==
  [w \in [inline : BOOLEAN, symbols : BOOLEAN, events : {{"cycles"}, {"cycles", "faults"}}] |->
     SamplesOf(w)]
FoldMapping ==
  [lib |-> UserMap("/lib", "lib"), alias |-> UserMap("/alias", "lib"),
   spaced |-> UserMap("/a b", "lib"), anon |-> UserMap("[unknown]", "anon"),
   vdso |-> UserMap("[vdso]", "vdso"), core |-> KernelMap("[kernel.kallsyms]_stext", "core"),
   mod |-> ModuleMap("[mod]", "mod", TRUE), sect |-> KernelMap("[mod].init", "sect"),
   fail |-> ModuleMap("[fail]", "fail", FALSE)]

Folding == INSTANCE SampleFrames WITH
  Samples <- FoldRecordings, Mapping <- FoldMapping,
  Mapped <- [u |-> "lib", g |-> "lib", a |-> "alias", s |-> "spaced", n |-> "anon", v |-> "vdso",
             w |-> "vdso", c |-> "core", k |-> "core", m |-> "mod", i |-> "mod", e |-> "mod",
             f |-> "fail", p |-> "lib", j |-> "lib", h |-> "lib", x |-> Missing, y |-> Missing],
  Published <- [m |-> "mod", i |-> "sect", e |-> Missing],
  Looking <- {"v", "w", "c", "k", "m", "i", "e", "f", "y"},
  Symbols <-
    [lib |-> [u |-> Named(<<"main", "inlined">>), g |-> Nameless, a |-> Nameless,
              s |-> Named(<<"spaced">>), p |-> Named(<<" padded">>), j |-> Named(<<"a->b">>),
              h |-> Named(<<"(hidden">>)],
     anon |-> [n |-> Nameless], vdso |-> [v |-> Named(<<"time">>), w |-> Nameless],
     core |-> [c |-> [names |-> <<"read">>, dso |-> "kallsyms"],
               k |-> [names |-> <<>>, dso |-> "unmapped"]],
     mod |-> [m |-> Named(<<"probe">>), i |-> Nameless, e |-> Nameless],
     sect |-> [i |-> Named(<<"init">>)], fail |-> [f |-> Nameless]],
  Core <- "core", MaxStack <- 3, MaxSamples <- 2, None <- Missing, world <- fold_world,
  direct <- fold_direct, script <- fold_script, counted <- fold_counted, samples <- fold_samples

-----------------------------------------------------------------------------
ASSUME SampleConstants == Parsing!SampleAssumption
ASSUME FramesConstants == Frames!FrameAssumption
ASSUME ReportsConstants == Reports!ReportsAssumption
ASSUME FoldingConstants == Folding!SampleFramesAssumption

MCInit ==
  /\ part \in {"replay", "deferred", "fold", "samples", "records", "unwind", "frames", "folded"}
  /\ Init /\ Deferred!Init /\ Passes!Init /\ Reports!Init
  /\ part # "replay" => ordered
  /\ IF part = "samples" THEN Parsing!Init
     ELSE recording = Missing /\ payload = Missing /\ merged = Missing /\ damage = 0
  /\ IF part = "records" THEN Records!Init
     ELSE file = Missing /\ bytes = Missing /\ damaged = FALSE
  /\ IF part = "frames" THEN Frames!Init ELSE question = Missing /\ answer = Missing
  /\ IF part = "folded" THEN Folding!Init
     ELSE /\ fold_world = Missing /\ fold_direct = Missing /\ fold_script = Missing
          /\ fold_counted = Missing /\ fold_samples = 0

MCNext ==
  \/ /\ part = "replay" /\ Next
     /\ UNCHANGED <<part, deferredVars, foldVars, sampleVars, recordVars, unwindVars, frameVars, countVars>>
  \/ /\ part = "deferred" /\ Deferred!Next
     /\ UNCHANGED <<part, vars, foldVars, sampleVars, recordVars, unwindVars, frameVars, countVars>>
  \/ /\ part = "fold" /\ Passes!Next
     /\ UNCHANGED <<part, vars, deferredVars, sampleVars, recordVars, unwindVars, frameVars, countVars>>
  \/ /\ part = "samples" /\ Parsing!Next
     /\ UNCHANGED <<part, vars, deferredVars, foldVars, recordVars, unwindVars, frameVars, countVars>>
  \/ /\ part = "records" /\ Records!Next
     /\ UNCHANGED <<part, vars, deferredVars, foldVars, sampleVars, unwindVars, frameVars, countVars>>
  \/ /\ part = "unwind" /\ Reports!Next
     /\ UNCHANGED <<part, vars, deferredVars, foldVars, sampleVars, recordVars, frameVars, countVars>>
  \/ /\ part = "frames" /\ Frames!Next
     /\ UNCHANGED <<part, vars, deferredVars, foldVars, sampleVars, recordVars, unwindVars, countVars>>
  \/ /\ part = "folded" /\ Folding!Next
     /\ UNCHANGED <<part, vars, deferredVars, foldVars, sampleVars, recordVars, unwindVars, frameVars>>
  \/ /\ \/ part \in {"samples", "records"} \/ (part = "unwind" /\ ~walking)
        \/ part = "frames" /\ answer # <<>>
        \/ part = "folded" /\ fold_samples = 2
     /\ UNCHANGED suiteVars   \* parsing has no next step; the recording ends

MCSpec == MCInit /\ [][MCNext]_suiteVars

-----------------------------------------------------------------------------
(* The properties of the instances, under this suite's variables; those of      *)
(* RecordReplay come with it.                                                   *)

\* Walks find the modules as the last reports left them, remember nothing that
\* changed since, and neither skip nor end where more would have been found; a step
\* gives the caller that call frame information and frame pointers mean; a sample
\* that is counted directly has the stack its text would have, and loads what its
\* text would load.
StacksExact ==
  /\ part = "unwind" => Reports!UnwindExact
  /\ part = "frames" => Frames!FramesRecovered
  /\ part = "folded" => Folding!FoldIsScript

\* Samples are parsed, as the events that wrote them say, into what was recorded,
\* or refused; other records and the kernel's build ID are read as they were
\* written, whichever of the readers reads them.
RecordingParsed ==
  /\ part = "samples" => Parsing!SamplesExact
  /\ part = "records" => Records!RecordsExact
=============================================================================
