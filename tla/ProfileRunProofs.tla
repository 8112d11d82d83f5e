-------------------------- MODULE ProfileRunProofs --------------------------
(***************************************************************************)
(* A profile run tells the truth about what it recorded: for any set of    *)
(* requests and any number of signals, between any two steps.              *)
(***************************************************************************)
EXTENDS ProfileRun, SequenceTheorems, TLAPS

-----------------------------------------------------------------------------
(* What the order of a backend's steps has to be.                            *)

\* The steps after the i-th.
After(t, i) == {t[j] : j \in i + 1 .. Len(t)}

\* A step that, when it has succeeded, leaves artifact `a` of this run.
Provides(s, a) ==
  \/ s \in {<<"write", a>>, <<"render", a>>}
  \/ s[1] = "probe"
  \/ a = "raw" /\ s \in {<<"read", "raw">>, <<"command", "heaptrack_print">>,
                         <<"command", "perf">>, <<"command", "xctrace">>}
  \/ a = "xml" /\ s = <<"command", "xctrace">>

\* The artifacts that a manifest names whatever was recorded, but itself.
Required(b) ==
  {"logs", "command", "summary", "errors", "raw"}
  \cup (IF b = "perf" THEN {"stacks", "flamegraph"} ELSE {})
  \cup (IF b = "xctrace" THEN {"xml"} ELSE {})
  \cup (IF b = "bpftrace" THEN {"stacks"} ELSE {})

\* The last step writes the manifest, or finds the recorder whose plan comes next.
Ends == {<<"write", "run">>, <<"probe", "perf">>, <<"probe", "bpftrace">>}

\* What comes after a recording: nothing that a cancellation refuses.
Late == {s \in Steps : s[1] \notin {"record", "accept", "probe"} /\ s # <<"command", "cargo">>}

\* What is cleared is written again, and a supervisor's evidence is looked at.
Ordered(t, b) ==
  /\ t \in Seq(Steps)
  /\ t # <<>> => t[Len(t)] \in Ends
  /\ \A i \in DOMAIN t :
       /\ t[i] \in Ends => i = Len(t)
       /\ t[i][1] = "probe" => t[i] \in Ends
       /\ t[i][1] = "resolve" => t[i][2] \in Tools
       /\ t[i][1] = "command" => t[i][2] \in Tools \cup {"cargo"}
       /\ t[i][1] \in {"render", "nonempty"} => t[i][2] = "flamegraph"
       /\ t[i][1] = "finalize" => \A s \in After(t, i) : s[1] # "finalize"
       /\ t[i][1] = "prepare" => \A a \in Required(b) : \E s \in After(t, i) : Provides(s, a)
       /\ t[i][1] = "record" =>
            /\ After(t, i) \subseteq Late
            /\ b = "bpftrace" => \E s \in After(t, i) : s[1] = "outcome"

\* A tool that is used after the recording is in the cache `c` or looked for before.
ToolsFound(t, c) ==
  \A j, k \in DOMAIN t : k < j /\ t[k][1] = "record" /\ t[j][1] = "command" =>
    t[j][2] \in c \/ \E i \in 1 .. k - 1 : t[i] = <<"resolve", t[j][2]>>

\* The renderer's tool runs inside the one finalization scope; `d` is its depth.
Scoped(t, d) ==
  /\ d > 0 => \A s \in After(t, 0) : s[1] # "finalize"
  /\ \A j \in DOMAIN t : t[j] = <<"command", "inferno">> =>
       d > 0 \/ \E i \in 1 .. j - 1 : t[i][1] = "finalize"

-----------------------------------------------------------------------------
(* The inductive invariant.                                                  *)

\* What is left of the plan is in order, given what has been done of it.
OrderInv == Ordered(todo, backend) /\ ToolsFound(todo, cached) /\ Scoped(todo, depth)

\* A command runs for the step it is the first part of.
RunningInv ==
  /\ result # "none" => live = "none" /\ todo = <<>>
  /\ live = "recorder" => todo # <<>> /\ Head(todo)[1] = "record"
  /\ live \notin {"none", "recorder"} => todo # <<>> /\ Head(todo) = <<"command", live>>

\* Between the first clearing and the end a file is of this run or absent, and one
\* that the manifest will name is there or still to come.
FilesInv ==
  /\ result = "none" =>
       /\ \/ \A a \in Artifacts : files[a] \in {"none", "new"}
          \/ live = "none" /\ todo # <<>> /\ Head(todo)[1] = "prepare"
       /\ files["run"] = "new" <=> todo = <<>>
       /\ \A a \in Required(backend) : files[a] = "new" \/ \E s \in After(todo, 0) : Provides(s, a)
  /\ result = "ok" => files["run"] = "new"
  /\ ArtifactsTruthful

\* The recorder's end, as the run remembers it.
CauseInv ==
  /\ first = 0 <=> signals = 0
  /\ first = 0 => cause = "none" /\ snapshot = 0
  /\ snapshot # 0 => snapshot = first
  /\ result = "none" /\ cause = "recording" =>
       /\ live # "cargo"
       /\ live # "recorder" => After(todo, 0) \subseteq Late
       /\ live # "recorder" /\ fault = "none" => snapshot = first /\ Orderly(backend, rec)
       /\ live \notin {"none", "recorder"} /\ signals = 1 => shield
  /\ evidence.status = "cut" =>
       /\ fault # "none"
       /\ result = "none" => backend = "bpftrace" /\ \E s \in After(todo, 0) : s[1] = "outcome"
  /\ Finalized /\ ExitHonest

\* All of it.
RunInv == OrderInv /\ RunningInv /\ FilesInv /\ CauseInv

-----------------------------------------------------------------------------
(* The plans are in that order.                                              *)

\* What is needed of a plan before its first step.
PlanInv(t, b) ==
  /\ t # <<>> /\ Ordered(t, b) /\ ToolsFound(t, {}) /\ Scoped(t, 0)
  /\ \A a \in Required(b) : \E s \in After(t, 0) : Provides(s, a)

\* perf record and the folding of its recording.
LEMMA PerfOrdered == PlanInv(PerfPlan, "perf")
<1> DEFINE t == PerfPlan
<1>1. t # <<>> /\ Len(t) = 14 /\ DOMAIN t = 1 .. 14
  BY DEF PerfPlan
<1>2. t \in Seq(Steps)
  BY DEF PerfPlan, Step, Resolve, Write, Steps, Ops, Tools, Artifacts
<1>3. \A i \in 1 .. 14 : /\ t[i] \in Ends <=> i = 14
                         /\ t[i][1] # "probe"
                         /\ t[i][1] = "resolve" => t[i][2] \in Tools
                         /\ t[i][1] = "command" => t[i][2] \in Tools
                         /\ t[i][1] \in {"render", "nonempty"} => t[i][2] = "flamegraph"
  BY DEF PerfPlan, Step, Resolve, Write, Tools, Ends
<1>4. \A i \in 1 .. 14 : t[i][1] = "prepare" =>
        \A a \in Required("perf") : \E s \in After(t, i) : Provides(s, a)
  BY DEF PerfPlan, Step, Resolve, Write, Required, Provides, After
<1>5. \A i \in 1 .. 14 : t[i][1] = "record" => \A j \in i + 1 .. 14 : t[j] \in Late
  BY DEF PerfPlan, Step, Resolve, Write, Late, Steps, Ops, Tools, Artifacts
<1>6. \A i, j \in 1 .. 14 : t[i][1] = "finalize" /\ i < j => t[j][1] # "finalize"
  BY DEF PerfPlan, Step, Resolve, Write
<1>8. ToolsFound(t, {})
  BY DEF PerfPlan, Step, Resolve, Write, ToolsFound
<1>9. Scoped(t, 0)
  BY DEF PerfPlan, Step, Resolve, Write, Scoped
<1>10. \A a \in Required("perf") : \E s \in After(t, 0) : Provides(s, a)
  BY DEF PerfPlan, Step, Resolve, Write, Required, Provides, After
<1>11. Ordered(t, "perf")
  <2> HIDE DEF t
  <2>1. \A i \in 1 .. 14 : t[i][1] = "record" => After(t, i) \subseteq Late
    BY <1>1, <1>5 DEF After
  <2>2. \A i \in 1 .. 14 : t[i][1] = "finalize" => \A s \in After(t, i) : s[1] # "finalize"
    <3> SUFFICES ASSUME NEW i \in 1 .. 14, t[i][1] = "finalize", NEW j \in i + 1 .. 14
                 PROVE  t[j][1] # "finalize"
      BY <1>1 DEF After
    <3> QED
      BY <1>6
  <2> QED
    BY <1>1, <1>2, <1>3, <1>4, <2>1, <2>2 DEF Ordered
<1> QED
  BY <1>1, <1>8, <1>9, <1>10, <1>11 DEF PlanInv

\* The same with the renderer that runs a tool.
LEMMA InfernoOrdered == PlanInv(InfernoPlan, "perf")
<1> DEFINE t == InfernoPlan
<1>1. t # <<>> /\ Len(t) = 16 /\ DOMAIN t = 1 .. 16
  BY DEF InfernoPlan
<1>2. t \in Seq(Steps)
  BY DEF InfernoPlan, Step, Resolve, Write, Steps, Ops, Tools, Artifacts
<1>3. \A i \in 1 .. 16 : /\ t[i] \in Ends <=> i = 16
                         /\ t[i][1] # "probe"
                         /\ t[i][1] = "resolve" => t[i][2] \in Tools
                         /\ t[i][1] = "command" => t[i][2] \in Tools
                         /\ t[i][1] \in {"render", "nonempty"} => t[i][2] = "flamegraph"
  BY DEF InfernoPlan, Step, Resolve, Write, Tools, Ends
<1>4. \A i \in 1 .. 16 : t[i][1] = "prepare" =>
        \A a \in Required("perf") : \E s \in After(t, i) : Provides(s, a)
  BY DEF InfernoPlan, Step, Resolve, Write, Required, Provides, After
<1>5. \A i \in 1 .. 16 : t[i][1] = "record" => \A j \in i + 1 .. 16 : t[j] \in Late
  BY DEF InfernoPlan, Step, Resolve, Write, Late, Steps, Ops, Tools, Artifacts
<1>6. \A i, j \in 1 .. 16 : t[i][1] = "finalize" /\ i < j => t[j][1] # "finalize"
  BY DEF InfernoPlan, Step, Resolve, Write
<1>8. ToolsFound(t, {})
  BY DEF InfernoPlan, Step, Resolve, Write, ToolsFound
<1>9. Scoped(t, 0)
  BY DEF InfernoPlan, Step, Resolve, Write, Scoped
<1>10. \A a \in Required("perf") : \E s \in After(t, 0) : Provides(s, a)
  BY DEF InfernoPlan, Step, Resolve, Write, Required, Provides, After
<1>11. Ordered(t, "perf")
  <2> HIDE DEF t
  <2>1. \A i \in 1 .. 16 : t[i][1] = "record" => After(t, i) \subseteq Late
    BY <1>1, <1>5 DEF After
  <2>2. \A i \in 1 .. 16 : t[i][1] = "finalize" => \A s \in After(t, i) : s[1] # "finalize"
    <3> SUFFICES ASSUME NEW i \in 1 .. 16, t[i][1] = "finalize", NEW j \in i + 1 .. 16
                 PROVE  t[j][1] # "finalize"
      BY <1>1 DEF After
    <3> QED
      BY <1>6
  <2> QED
    BY <1>1, <1>2, <1>3, <1>4, <2>1, <2>2 DEF Ordered
<1> QED
  BY <1>1, <1>8, <1>9, <1>10, <1>11 DEF PlanInv

\* heaptrack and heaptrack_print.
LEMMA HeaptrackOrdered == PlanInv(HeaptrackPlan, "heaptrack")
<1> DEFINE t == HeaptrackPlan
<1>1. t # <<>> /\ Len(t) = 12 /\ DOMAIN t = 1 .. 12
  BY DEF HeaptrackPlan
<1>2. t \in Seq(Steps)
  BY DEF HeaptrackPlan, Step, Resolve, Write, Steps, Ops, Tools, Artifacts
<1>3. \A i \in 1 .. 12 : /\ t[i] \in Ends <=> i = 12
                         /\ t[i][1] # "probe"
                         /\ t[i][1] = "resolve" => t[i][2] \in Tools
                         /\ t[i][1] = "command" => t[i][2] \in Tools
                         /\ t[i][1] \in {"render", "nonempty"} => t[i][2] = "flamegraph"
  BY DEF HeaptrackPlan, Step, Resolve, Write, Tools, Ends
<1>4. \A i \in 1 .. 12 : t[i][1] = "prepare" =>
        \A a \in Required("heaptrack") : \E s \in After(t, i) : Provides(s, a)
  BY DEF HeaptrackPlan, Step, Resolve, Write, Required, Provides, After
<1>5. \A i \in 1 .. 12 : t[i][1] = "record" => \A j \in i + 1 .. 12 : t[j] \in Late
  BY DEF HeaptrackPlan, Step, Resolve, Write, Late, Steps, Ops, Tools, Artifacts
<1>6. \A i, j \in 1 .. 12 : t[i][1] = "finalize" /\ i < j => t[j][1] # "finalize"
  BY DEF HeaptrackPlan, Step, Resolve, Write
<1>8. ToolsFound(t, {})
  BY DEF HeaptrackPlan, Step, Resolve, Write, ToolsFound
<1>9. Scoped(t, 0)
  BY DEF HeaptrackPlan, Step, Resolve, Write, Scoped
<1>10. \A a \in Required("heaptrack") : \E s \in After(t, 0) : Provides(s, a)
  BY DEF HeaptrackPlan, Step, Resolve, Write, Required, Provides, After
<1>11. Ordered(t, "heaptrack")
  <2> HIDE DEF t
  <2>1. \A i \in 1 .. 12 : t[i][1] = "record" => After(t, i) \subseteq Late
    BY <1>1, <1>5 DEF After
  <2>2. \A i \in 1 .. 12 : t[i][1] = "finalize" => \A s \in After(t, i) : s[1] # "finalize"
    <3> SUFFICES ASSUME NEW i \in 1 .. 12, t[i][1] = "finalize", NEW j \in i + 1 .. 12
                 PROVE  t[j][1] # "finalize"
      BY <1>1 DEF After
    <3> QED
      BY <1>6
  <2> QED
    BY <1>1, <1>2, <1>3, <1>4, <2>1, <2>2 DEF Ordered
<1> QED
  BY <1>1, <1>8, <1>9, <1>10, <1>11 DEF PlanInv

\* strace.
LEMMA StraceOrdered == PlanInv(StracePlan, "strace")
<1> DEFINE t == StracePlan
<1>1. t # <<>> /\ Len(t) = 11 /\ DOMAIN t = 1 .. 11
  BY DEF StracePlan
<1>2. t \in Seq(Steps)
  BY DEF StracePlan, Step, Resolve, Write, Steps, Ops, Tools, Artifacts
<1>3. \A i \in 1 .. 11 : /\ t[i] \in Ends <=> i = 11
                         /\ t[i][1] # "probe"
                         /\ t[i][1] = "resolve" => t[i][2] \in Tools
                         /\ t[i][1] = "command" => t[i][2] \in Tools
                         /\ t[i][1] \in {"render", "nonempty"} => t[i][2] = "flamegraph"
  BY DEF StracePlan, Step, Resolve, Write, Tools, Ends
<1>4. \A i \in 1 .. 11 : t[i][1] = "prepare" =>
        \A a \in Required("strace") : \E s \in After(t, i) : Provides(s, a)
  BY DEF StracePlan, Step, Resolve, Write, Required, Provides, After
<1>5. \A i \in 1 .. 11 : t[i][1] = "record" => \A j \in i + 1 .. 11 : t[j] \in Late
  BY DEF StracePlan, Step, Resolve, Write, Late, Steps, Ops, Tools, Artifacts
<1>6. \A i, j \in 1 .. 11 : t[i][1] = "finalize" /\ i < j => t[j][1] # "finalize"
  BY DEF StracePlan, Step, Resolve, Write
<1>8. ToolsFound(t, {})
  BY DEF StracePlan, Step, Resolve, Write, ToolsFound
<1>9. Scoped(t, 0)
  BY DEF StracePlan, Step, Resolve, Write, Scoped
<1>10. \A a \in Required("strace") : \E s \in After(t, 0) : Provides(s, a)
  BY DEF StracePlan, Step, Resolve, Write, Required, Provides, After
<1>11. Ordered(t, "strace")
  <2> HIDE DEF t
  <2>1. \A i \in 1 .. 11 : t[i][1] = "record" => After(t, i) \subseteq Late
    BY <1>1, <1>5 DEF After
  <2>2. \A i \in 1 .. 11 : t[i][1] = "finalize" => \A s \in After(t, i) : s[1] # "finalize"
    <3> SUFFICES ASSUME NEW i \in 1 .. 11, t[i][1] = "finalize", NEW j \in i + 1 .. 11
                 PROVE  t[j][1] # "finalize"
      BY <1>1 DEF After
    <3> QED
      BY <1>6
  <2> QED
    BY <1>1, <1>2, <1>3, <1>4, <2>1, <2>2 DEF Ordered
<1> QED
  BY <1>1, <1>8, <1>9, <1>10, <1>11 DEF PlanInv

\* perf sched.
LEMMA SchedOrdered == PlanInv(SchedPlan, "sched")
<1> DEFINE t == SchedPlan
<1>1. t # <<>> /\ Len(t) = 12 /\ DOMAIN t = 1 .. 12
  BY DEF SchedPlan
<1>2. t \in Seq(Steps)
  BY DEF SchedPlan, Step, Resolve, Write, Steps, Ops, Tools, Artifacts
<1>3. \A i \in 1 .. 12 : /\ t[i] \in Ends <=> i = 12
                         /\ t[i][1] # "probe"
                         /\ t[i][1] = "resolve" => t[i][2] \in Tools
                         /\ t[i][1] = "command" => t[i][2] \in Tools
                         /\ t[i][1] \in {"render", "nonempty"} => t[i][2] = "flamegraph"
  BY DEF SchedPlan, Step, Resolve, Write, Tools, Ends
<1>4. \A i \in 1 .. 12 : t[i][1] = "prepare" =>
        \A a \in Required("sched") : \E s \in After(t, i) : Provides(s, a)
  BY DEF SchedPlan, Step, Resolve, Write, Required, Provides, After
<1>5. \A i \in 1 .. 12 : t[i][1] = "record" => \A j \in i + 1 .. 12 : t[j] \in Late
  BY DEF SchedPlan, Step, Resolve, Write, Late, Steps, Ops, Tools, Artifacts
<1>6. \A i, j \in 1 .. 12 : t[i][1] = "finalize" /\ i < j => t[j][1] # "finalize"
  BY DEF SchedPlan, Step, Resolve, Write
<1>8. ToolsFound(t, {})
  BY DEF SchedPlan, Step, Resolve, Write, ToolsFound
<1>9. Scoped(t, 0)
  BY DEF SchedPlan, Step, Resolve, Write, Scoped
<1>10. \A a \in Required("sched") : \E s \in After(t, 0) : Provides(s, a)
  BY DEF SchedPlan, Step, Resolve, Write, Required, Provides, After
<1>11. Ordered(t, "sched")
  <2> HIDE DEF t
  <2>1. \A i \in 1 .. 12 : t[i][1] = "record" => After(t, i) \subseteq Late
    BY <1>1, <1>5 DEF After
  <2>2. \A i \in 1 .. 12 : t[i][1] = "finalize" => \A s \in After(t, i) : s[1] # "finalize"
    <3> SUFFICES ASSUME NEW i \in 1 .. 12, t[i][1] = "finalize", NEW j \in i + 1 .. 12
                 PROVE  t[j][1] # "finalize"
      BY <1>1 DEF After
    <3> QED
      BY <1>6
  <2> QED
    BY <1>1, <1>2, <1>3, <1>4, <2>1, <2>2 DEF Ordered
<1> QED
  BY <1>1, <1>8, <1>9, <1>10, <1>11 DEF PlanInv

\* bpftrace and its supervisor's evidence.
LEMMA BpftraceOrdered == PlanInv(BpftracePlan, "bpftrace")
<1> DEFINE t == BpftracePlan
<1>1. t # <<>> /\ Len(t) = 17 /\ DOMAIN t = 1 .. 17
  BY DEF BpftracePlan
<1>2. t \in Seq(Steps)
  BY DEF BpftracePlan, Step, Resolve, Write, Steps, Ops, Tools, Artifacts
<1>3. \A i \in 1 .. 17 : /\ t[i] \in Ends <=> i = 17
                         /\ t[i][1] # "probe"
                         /\ t[i][1] = "resolve" => t[i][2] \in Tools
                         /\ t[i][1] = "command" => t[i][2] \in Tools
                         /\ t[i][1] \in {"render", "nonempty"} => t[i][2] = "flamegraph"
  BY DEF BpftracePlan, Step, Resolve, Write, Tools, Ends
<1>4. \A i \in 1 .. 17 : t[i][1] = "prepare" =>
        \A a \in Required("bpftrace") : \E s \in After(t, i) : Provides(s, a)
  BY DEF BpftracePlan, Step, Resolve, Write, Required, Provides, After
<1>5. \A i \in 1 .. 17 : t[i][1] = "record" => \A j \in i + 1 .. 17 : t[j] \in Late
  BY DEF BpftracePlan, Step, Resolve, Write, Late, Steps, Ops, Tools, Artifacts
<1>6. \A i, j \in 1 .. 17 : t[i][1] = "finalize" /\ i < j => t[j][1] # "finalize"
  BY DEF BpftracePlan, Step, Resolve, Write
<1>7. \A i \in 1 .. 17 : t[i][1] = "record" => \E s \in After(t, i) : s[1] = "outcome"
  BY DEF BpftracePlan, Step, Resolve, Write, After
<1>8. ToolsFound(t, {})
  BY DEF BpftracePlan, Step, Resolve, Write, ToolsFound
<1>9. Scoped(t, 0)
  BY DEF BpftracePlan, Step, Resolve, Write, Scoped
<1>10. \A a \in Required("bpftrace") : \E s \in After(t, 0) : Provides(s, a)
  BY DEF BpftracePlan, Step, Resolve, Write, Required, Provides, After
<1>11. Ordered(t, "bpftrace")
  <2> HIDE DEF t
  <2>1. \A i \in 1 .. 17 : t[i][1] = "record" => After(t, i) \subseteq Late
    BY <1>1, <1>5 DEF After
  <2>2. \A i \in 1 .. 17 : t[i][1] = "finalize" => \A s \in After(t, i) : s[1] # "finalize"
    <3> SUFFICES ASSUME NEW i \in 1 .. 17, t[i][1] = "finalize", NEW j \in i + 1 .. 17
                 PROVE  t[j][1] # "finalize"
      BY <1>1 DEF After
    <3> QED
      BY <1>6
  <2> QED
    BY <1>1, <1>2, <1>3, <1>4, <1>7, <2>1, <2>2 DEF Ordered
<1> QED
  BY <1>1, <1>8, <1>9, <1>10, <1>11 DEF PlanInv

\* xctrace and its export.
LEMMA XctraceOrdered == PlanInv(XctracePlan, "xctrace")
<1> DEFINE t == XctracePlan
<1>1. t # <<>> /\ Len(t) = 13 /\ DOMAIN t = 1 .. 13
  BY DEF XctracePlan
<1>2. t \in Seq(Steps)
  BY DEF XctracePlan, Step, Resolve, Write, Steps, Ops, Tools, Artifacts
<1>3. \A i \in 1 .. 13 : /\ t[i] \in Ends <=> i = 13
                         /\ t[i][1] # "probe"
                         /\ t[i][1] = "resolve" => t[i][2] \in Tools
                         /\ t[i][1] = "command" => t[i][2] \in Tools
                         /\ t[i][1] \in {"render", "nonempty"} => t[i][2] = "flamegraph"
  BY DEF XctracePlan, Step, Resolve, Write, Tools, Ends
<1>4. \A i \in 1 .. 13 : t[i][1] = "prepare" =>
        \A a \in Required("xctrace") : \E s \in After(t, i) : Provides(s, a)
  BY DEF XctracePlan, Step, Resolve, Write, Required, Provides, After
<1>5. \A i \in 1 .. 13 : t[i][1] = "record" => \A j \in i + 1 .. 13 : t[j] \in Late
  BY DEF XctracePlan, Step, Resolve, Write, Late, Steps, Ops, Tools, Artifacts
<1>6. \A i, j \in 1 .. 13 : t[i][1] = "finalize" /\ i < j => t[j][1] # "finalize"
  BY DEF XctracePlan, Step, Resolve, Write
<1>8. ToolsFound(t, {})
  BY DEF XctracePlan, Step, Resolve, Write, ToolsFound
<1>9. Scoped(t, 0)
  BY DEF XctracePlan, Step, Resolve, Write, Scoped
<1>10. \A a \in Required("xctrace") : \E s \in After(t, 0) : Provides(s, a)
  BY DEF XctracePlan, Step, Resolve, Write, Required, Provides, After
<1>11. Ordered(t, "xctrace")
  <2> HIDE DEF t
  <2>1. \A i \in 1 .. 13 : t[i][1] = "record" => After(t, i) \subseteq Late
    BY <1>1, <1>5 DEF After
  <2>2. \A i \in 1 .. 13 : t[i][1] = "finalize" => \A s \in After(t, i) : s[1] # "finalize"
    <3> SUFFICES ASSUME NEW i \in 1 .. 13, t[i][1] = "finalize", NEW j \in i + 1 .. 13
                 PROVE  t[j][1] # "finalize"
      BY <1>1 DEF After
    <3> QED
      BY <1>6
  <2> QED
    BY <1>1, <1>2, <1>3, <1>4, <2>1, <2>2 DEF Ordered
<1> QED
  BY <1>1, <1>8, <1>9, <1>10, <1>11 DEF PlanInv

\* The plan of each backend, with either renderer.
LEMMA PlansOrdered ==
  ASSUME NEW b \in Backends, NEW inferno \in BOOLEAN
  PROVE  PlanInv(PlanOf(b, inferno), b)
<1>1. CASE b = "perf"
  BY <1>1, PerfOrdered, InfernoOrdered DEF PlanOf
<1>2. CASE b = "heaptrack"
  BY <1>2, HeaptrackOrdered DEF PlanOf
<1>3. CASE b = "strace"
  BY <1>3, StraceOrdered DEF PlanOf
<1>4. CASE b = "sched"
  BY <1>4, SchedOrdered DEF PlanOf
<1>5. CASE b = "bpftrace"
  BY <1>5, BpftraceOrdered DEF PlanOf
<1>6. CASE b = "xctrace"
  BY <1>6, XctraceOrdered DEF PlanOf
<1> QED
  BY <1>1, <1>2, <1>3, <1>4, <1>5, <1>6 DEF Backends

\* The search for a recorder.
LEMMA ProbeOrdered ==
  ASSUME NEW tool \in {"perf", "bpftrace"}, NEW b
  PROVE  PlanInv(<<<<"probe", tool>>>>, b)
<1> DEFINE t == <<<<"probe", tool>>>>
<1>1. t # <<>> /\ Len(t) = 1 /\ DOMAIN t = 1 .. 1 /\ t[1] = <<"probe", tool>>
  OBVIOUS
<1>2. t \in Seq(Steps)
  BY DEF Steps, Ops, Tools
<1> HIDE DEF t
<1>3. t[1] \in Ends /\ t[1][1] = "probe"
  BY <1>1 DEF Ends
<1>4. After(t, 0) = {t[1]} /\ \A i \in 1 .. 1 : i = 1
  <2>1. \A j : j \in 0 + 1 .. 1 <=> j = 1
    OBVIOUS
  <2>2. After(t, 0) = {t[j] : j \in 0 + 1 .. 1}
    BY <1>1 DEF After
  <2>3. \A i \in 1 .. 1 : i = 1
    OBVIOUS
  <2> QED
    BY <2>1, <2>2, <2>3
<1>5. Ordered(t, b)
  BY <1>1, <1>2, <1>3, <1>4 DEF Ordered
<1>6. \A a \in Required(b) : \E s \in After(t, 0) : Provides(s, a)
  BY <1>3, <1>4 DEF Provides
<1>7. ToolsFound(t, {}) /\ Scoped(t, 0)
  BY <1>1, <1>3, <1>4 DEF ToolsFound, Scoped
<1>8. PlanInv(t, b)
  BY <1>1, <1>5, <1>6, <1>7 DEF PlanInv
<1> QED
  BY <1>8 DEF t

\* Steps before a plan that clear, check and build.
LEMMA PrefixOrdered ==
  ASSUME NEW s \in Seq(Steps), NEW t, NEW b, PlanInv(t, b),
         \A i \in DOMAIN s :
           s[i][1] \in {"prepare", "try", "accept"} \/ s[i] = <<"command", "cargo">>
  PROVE  PlanInv(s \o t, b)
<1> DEFINE g == s \o t
           m == Len(s)
           n == Len(t)
<1>1. t \in Seq(Steps) /\ t # <<>> /\ n \in Nat \ {0} /\ m \in Nat
  BY EmptySeq, LenProperties DEF PlanInv, Ordered
<1>2. DOMAIN s = 1 .. m /\ DOMAIN t = 1 .. n
  BY <1>1, LenProperties
<1>3. /\ g \in Seq(Steps) /\ Len(g) = m + n
      /\ \A i \in 1 .. m + n : g[i] = IF i <= m THEN s[i] ELSE t[i - m]
  BY <1>1, ConcatProperties
<1> HIDE DEF g, m, n
<1>4. DOMAIN g = 1 .. m + n /\ g # <<>>
  <2>1. DOMAIN g = 1 .. m + n /\ m + n # 0
    BY <1>1, <1>3, LenProperties
  <2> QED
    BY <1>3, <2>1, EmptySeq
<1>5. \A i \in 1 .. m : g[i] = s[i]
  BY <1>1, <1>3
<1>6. \A j \in 1 .. n : j + m \in 1 .. m + n /\ g[j + m] = t[j]
  <2>1. \A j \in 1 .. n : j + m \in 1 .. m + n /\ ~(j + m <= m) /\ (j + m) - m = j
    BY <1>1
  <2> QED
    BY <1>3, <2>1
<1>7. \A i \in 1 .. m + n : i \in 1 .. m \/ \E j \in 1 .. n : i = j + m
  <2> SUFFICES ASSUME NEW i \in 1 .. m + n, i \notin 1 .. m PROVE \E j \in 1 .. n : i = j + m
    OBVIOUS
  <2>1. i - m \in 1 .. n /\ i = (i - m) + m
    BY <1>1
  <2> QED
    BY <2>1
<1>8. \A i \in 0 .. m : After(t, 0) \subseteq After(g, i)
  <2> SUFFICES ASSUME NEW i \in 0 .. m, NEW j \in 0 + 1 .. n PROVE t[j] \in After(g, i)
    BY DEF After, n
  <2>1. j + m \in i + 1 .. m + n /\ j \in 1 .. n
    BY <1>1
  <2>2. t[j] = g[j + m]
    BY <1>6, <2>1
  <2> QED
    BY <1>3, <2>1, <2>2 DEF After
<1>9. \A j \in 1 .. n : After(g, j + m) = After(t, j)
  <2> SUFFICES ASSUME NEW j \in 1 .. n PROVE After(g, j + m) = After(t, j)
    OBVIOUS
  <2>1. \A k \in j + 1 .. n : k + m \in j + m + 1 .. m + n /\ g[k + m] = t[k]
    BY <1>1, <1>6
  <2>2. \A i \in j + m + 1 .. m + n : i - m \in j + 1 .. n /\ g[i] = t[i - m]
    BY <1>1, <1>3
  <2>3. After(t, j) = {t[k] : k \in j + 1 .. n}
    BY DEF After, n
  <2>4. After(g, j + m) = {g[i] : i \in j + m + 1 .. m + n}
    BY <1>3 DEF After
  <2>5. \A k \in j + 1 .. n : t[k] \in {g[i] : i \in j + m + 1 .. m + n}
    BY <2>1
  <2>6. \A i \in j + m + 1 .. m + n : g[i] \in {t[k] : k \in j + 1 .. n}
    BY <2>2
  <2> QED
    BY <2>3, <2>4, <2>5, <2>6
<1>10. Ordered(g, b)
  <2>1. ASSUME NEW i \in 1 .. m
        PROVE  /\ g[i] \notin Ends
               /\ g[i][1] \notin {"probe", "resolve", "finalize", "record", "render", "nonempty"}
               /\ g[i][1] = "command" => g[i][2] = "cargo"
               /\ g[i][1] = "prepare" =>
                    \A a \in Required(b) : \E x \in After(g, i) : Provides(x, a)
    <3>1. g[i][1] \in {"prepare", "try", "accept"} \/ g[i] = <<"command", "cargo">>
      BY <1>2, <1>5
    <3>2. \A a \in Required(b) : \E x \in After(g, i) : Provides(x, a)
      BY <1>1, <1>8 DEF PlanInv
    <3> QED
      BY <3>1, <3>2 DEF Ends
  <2>2. ASSUME NEW j \in 1 .. n
        PROVE  /\ g[j + m] \in Ends => j + m = m + n
               /\ g[j + m][1] = "probe" => g[j + m] \in Ends
               /\ g[j + m][1] = "resolve" => g[j + m][2] \in Tools
               /\ g[j + m][1] = "command" => g[j + m][2] \in Tools \cup {"cargo"}
               /\ g[j + m][1] \in {"render", "nonempty"} => g[j + m][2] = "flamegraph"
               /\ g[j + m][1] = "finalize" => \A x \in After(g, j + m) : x[1] # "finalize"
               /\ g[j + m][1] = "prepare" =>
                    \A a \in Required(b) : \E x \in After(g, j + m) : Provides(x, a)
               /\ g[j + m][1] = "record" =>
                    /\ After(g, j + m) \subseteq Late
                    /\ b = "bpftrace" => \E x \in After(g, j + m) : x[1] = "outcome"
    <3>0. j = n => j + m = m + n
      BY <1>1
    <3>1. g[j + m] = t[j] /\ After(g, j + m) = After(t, j) /\ (j = n => j + m = m + n)
      BY <1>6, <1>9, <3>0
    <3>2. j \in DOMAIN t
      BY <1>2
    <3> QED
      BY <3>1, <3>2 DEF PlanInv, Ordered, n
  <2>3. g[Len(g)] \in Ends
    <3>1. n \in 1 .. n /\ n + m = m + n
      BY <1>1
    <3>2. g[m + n] = t[n]
      BY <1>6, <3>1
    <3> QED
      BY <1>1, <1>3, <3>2 DEF PlanInv, Ordered, n
  <2> QED
    BY <1>3, <1>4, <1>7, <2>1, <2>2, <2>3 DEF Ordered
<1>11. ToolsFound(g, {})
  <2> SUFFICES ASSUME NEW j \in 1 .. m + n, NEW k \in 1 .. m + n, k < j,
                      g[k][1] = "record", g[j][1] = "command"
               PROVE  \E i \in 1 .. k - 1 : g[i] = <<"resolve", g[j][2]>>
    BY <1>4 DEF ToolsFound
  <2>1. PICK y \in 1 .. n : k = y + m
    <3>1. k \notin 1 .. m
      BY <1>2, <1>5
    <3> QED
      BY <1>7, <3>1
  <2>2. PICK x \in 1 .. n : j = x + m
    <3>1. j \notin 1 .. m
      BY <1>1, <2>1
    <3> QED
      BY <1>7, <3>1
  <2>3. y < x /\ t[y][1] = "record" /\ t[x][1] = "command" /\ g[j][2] = t[x][2]
    BY <1>1, <1>6, <2>1, <2>2
  <2>4. PICK i \in 1 .. y - 1 : t[i] = <<"resolve", t[x][2]>>
    BY <1>2, <2>3 DEF PlanInv, ToolsFound
  <2>5. i + m \in 1 .. k - 1 /\ i \in 1 .. n
    BY <1>1, <2>1
  <2> QED
    BY <1>6, <2>3, <2>4, <2>5
<1>12. Scoped(g, 0)
  <2> SUFFICES ASSUME NEW j \in 1 .. m + n, g[j] = <<"command", "inferno">>
               PROVE  \E i \in 1 .. j - 1 : g[i][1] = "finalize"
    BY <1>4 DEF Scoped
  <2>1. PICK x \in 1 .. n : j = x + m
    <3>1. j \notin 1 .. m
      BY <1>2, <1>5
    <3> QED
      BY <1>7, <3>1
  <2>2. PICK i \in 1 .. x - 1 : t[i][1] = "finalize"
    BY <1>2, <1>6, <2>1 DEF PlanInv, Scoped
  <2>3. i + m \in 1 .. j - 1 /\ i \in 1 .. n
    BY <1>1, <2>1
  <2> QED
    BY <1>6, <2>2, <2>3
<1>13. \A a \in Required(b) : \E x \in After(g, 0) : Provides(x, a)
  BY <1>1, <1>8 DEF PlanInv
<1>14. PlanInv(g, b)
  BY <1>4, <1>10, <1>11, <1>12, <1>13 DEF PlanInv
<1> QED
  BY <1>14 DEF g

\* What an invocation starts with, and that it clears the directory first.
LEMMA InvocationOrdered ==
  ASSUME NEW r \in AllRequests, NEW b, b = IF r.backend = "auto" THEN "none" ELSE r.backend
  PROVE  PlanInv(InvocationPlan(r), b) /\ InvocationPlan(r)[1][1] = "prepare"
<1> DEFINE c == IF r.cargo THEN CargoPlan ELSE <<>>
           p == <<Step("prepare"), Step("accept")>>
           t == IF r.backend = "auto" THEN <<<<"probe", "perf">>>> ELSE PlanOf(r.backend, r.inferno)
           Early(s) == \A i \in DOMAIN s : \/ s[i][1] \in {"prepare", "try", "accept"}
                                           \/ s[i] = <<"command", "cargo">>
<1>1. c \in Seq(Steps) /\ Early(c) /\ (c # <<>> => c[1][1] = "prepare")
  <2>1. CASE r.cargo
    <3>1. CargoPlan \in Seq(Steps)
      BY DEF CargoPlan, Step, Steps, Ops
    <3>2. Len(CargoPlan) = 3 /\ DOMAIN CargoPlan = 1 .. 3
      BY DEF CargoPlan
    <3>3. Early(CargoPlan) /\ CargoPlan[1][1] = "prepare"
      BY DEF CargoPlan, Step
    <3> QED
      BY <2>1, <3>1, <3>3
  <2>2. CASE ~r.cargo
    <3>1. <<>> \in Seq(Steps) /\ Early(<<>>)
      OBVIOUS
    <3> QED
      BY <2>2, <3>1
  <2> QED
    BY <2>1, <2>2
<1>2. p \in Seq(Steps) /\ Len(p) = 2 /\ Early(p) /\ p[1][1] = "prepare"
  BY DEF Step, Steps, Ops
<1>3. PlanInv(t, b)
  <2>1. CASE r.backend = "auto"
    BY <2>1, ProbeOrdered
  <2>2. CASE r.backend # "auto"
    <3>1. r.backend \in Backends /\ r.inferno \in BOOLEAN
      BY <2>2 DEF AllRequests
    <3> QED
      BY <2>2, <3>1, PlansOrdered
  <2> QED
    BY <2>1, <2>2
<1>4. InvocationPlan(r) = (c \o p) \o t
  BY DEF InvocationPlan
<1> HIDE DEF c, p, t
<1>5. /\ c \o p \in Seq(Steps) /\ Len(c) \in Nat /\ Len(c \o p) = Len(c) + 2
      /\ \A i \in 1 .. Len(c) + 2 : (c \o p)[i] = IF i <= Len(c) THEN c[i] ELSE p[i - Len(c)]
      /\ DOMAIN (c \o p) = 1 .. Len(c) + 2 /\ DOMAIN c = 1 .. Len(c) /\ DOMAIN p = 1 .. 2
  <2>1. /\ c \o p \in Seq(Steps) /\ Len(c \o p) = Len(c) + Len(p)
        /\ \A i \in 1 .. Len(c) + Len(p) :
             (c \o p)[i] = IF i <= Len(c) THEN c[i] ELSE p[i - Len(c)]
    BY <1>1, <1>2, ConcatProperties
  <2>2. Len(c) \in Nat /\ DOMAIN c = 1 .. Len(c) /\ DOMAIN p = 1 .. Len(p)
    BY <1>1, <1>2, LenProperties
  <2>3. DOMAIN (c \o p) = 1 .. Len(c \o p)
    BY <2>1, LenProperties
  <2> QED
    BY <1>2, <2>1, <2>2, <2>3
<1>6. Early(c \o p)
  <2> SUFFICES ASSUME NEW i \in 1 .. Len(c) + 2
               PROVE  \/ (c \o p)[i][1] \in {"prepare", "try", "accept"}
                      \/ (c \o p)[i] = <<"command", "cargo">>
    BY <1>5
  <2>1. CASE i <= Len(c)
    <3>1. i \in DOMAIN c /\ (c \o p)[i] = c[i]
      BY <1>5, <2>1
    <3> QED
      BY <1>1, <3>1
  <2>2. CASE ~(i <= Len(c))
    <3>1. i - Len(c) \in DOMAIN p /\ (c \o p)[i] = p[i - Len(c)]
      BY <1>5, <2>2
    <3> QED
      BY <1>2, <3>1
  <2> QED
    BY <2>1, <2>2
<1>7. (c \o p)[1][1] = "prepare"
  <2>1. CASE c = <<>>
    <3>1. Len(c) = 0
      BY <1>1, <2>1, EmptySeq
    <3>2. 1 \in 1 .. Len(c) + 2 /\ ~(1 <= Len(c)) /\ 1 - Len(c) = 1
      BY <3>1
    <3> QED
      BY <1>2, <1>5, <3>2
  <2>2. CASE c # <<>>
    <3>1. Len(c) # 0
      BY <1>1, <2>2, EmptySeq
    <3>2. 1 \in 1 .. Len(c) + 2 /\ 1 <= Len(c)
      BY <1>5, <3>1
    <3> QED
      BY <1>1, <1>5, <2>2, <3>2
  <2> QED
    BY <2>1, <2>2
<1>8. PlanInv((c \o p) \o t, b)
  BY <1>3, <1>5, <1>6, PrefixOrdered
<1>9. ((c \o p) \o t)[1] = (c \o p)[1]
  <2>1. t \in Seq(Steps) /\ Len(t) \in Nat
    BY <1>3, LenProperties DEF PlanInv, Ordered
  <2>2. 1 \in 1 .. Len(c \o p) + Len(t) /\ 1 <= Len(c \o p)
    BY <1>5, <2>1
  <2> QED
    BY <1>5, <2>1, <2>2, ConcatProperties
<1> QED
  BY <1>4, <1>7, <1>8, <1>9

-----------------------------------------------------------------------------
(* A step that has been taken leaves the rest in order.                      *)

\* The rest of a plan.
LEMMA TailFacts ==
  ASSUME NEW t \in Seq(Steps), t # <<>>
  PROVE  /\ Tail(t) \in Seq(Steps) /\ Len(t) \in Nat \ {0} /\ Len(Tail(t)) = Len(t) - 1
         /\ DOMAIN t = 1 .. Len(t) /\ DOMAIN Tail(t) = 1 .. Len(t) - 1
         /\ Head(t) = t[1] /\ Head(t) \in Steps
         /\ \A i \in 1 .. Len(t) - 1 : i + 1 \in 1 .. Len(t) /\ Tail(t)[i] = t[i + 1]
         /\ \A i \in 1 .. Len(t) - 1 : After(Tail(t), i) = After(t, i + 1)
         /\ After(Tail(t), 0) = After(t, 1)
         /\ After(t, 0) = {Head(t)} \cup After(Tail(t), 0)
<1> DEFINE n == Len(t)
           u == Tail(t)
<1>1. n \in Nat \ {0} /\ DOMAIN t = 1 .. n
  BY EmptySeq, LenProperties
<1>2. /\ u \in Seq(Steps) /\ Len(u) = n - 1
      /\ \A i \in 1 .. n - 1 : u[i] = t[i + 1]
      /\ Head(t) = t[1] /\ Head(t) \in Steps
  BY HeadTailProperties
<1>3. DOMAIN u = 1 .. n - 1
  BY <1>2, LenProperties
<1> HIDE DEF n, u
<1>4. \A i \in 1 .. n - 1 : i + 1 \in 1 .. n
  BY <1>1
<1>5. ASSUME NEW i \in 0 .. n - 1
      PROVE  After(u, i) = After(t, i + 1)
  <2>1. \A j \in i + 1 .. n - 1 : j + 1 \in i + 1 + 1 .. n /\ j \in 1 .. n - 1
    BY <1>1
  <2>2. \A j \in i + 1 + 1 .. n : j - 1 \in i + 1 .. n - 1 /\ j - 1 \in 1 .. n - 1 /\ j - 1 + 1 = j
    BY <1>1
  <2>3. \A j \in i + 1 .. n - 1 : u[j] \in {t[k] : k \in i + 1 + 1 .. n}
    BY <1>2, <2>1
  <2>4. \A j \in i + 1 + 1 .. n : t[j] \in {u[k] : k \in i + 1 .. n - 1}
    <3> SUFFICES ASSUME NEW j \in i + 1 + 1 .. n PROVE t[j] = u[j - 1]
      BY <2>2
    <3> QED
      BY <1>2, <2>2
  <2>5. /\ After(u, i) = {u[k] : k \in i + 1 .. n - 1}
        /\ After(t, i + 1) = {t[k] : k \in i + 1 + 1 .. n}
    BY <1>2 DEF After, n
  <2> QED
    BY <2>3, <2>4, <2>5
<1>6. After(u, 0) = After(t, 1)
  <2>1. 0 \in 0 .. n - 1 /\ 0 + 1 = 1
    BY <1>1
  <2> QED
    BY <1>5, <2>1
<1>7. After(t, 0) = {Head(t)} \cup After(t, 1)
  <2>1. \A j : j \in 0 + 1 .. n <=> j = 1 \/ j \in 1 + 1 .. n
    BY <1>1
  <2>2. After(t, 0) = {t[j] : j \in 0 + 1 .. n} /\ After(t, 1) = {t[j] : j \in 1 + 1 .. n}
    BY DEF After, n
  <2> QED
    BY <1>2, <2>1, <2>2
<1>8. \A i \in 1 .. n - 1 : i \in 0 .. n - 1
  BY <1>1
<1> QED
  BY <1>1, <1>2, <1>3, <1>4, <1>5, <1>6, <1>7, <1>8 DEF n, u

\* The order of the rest, and that its last step is that of the whole.
LEMMA TailOrdered ==
  ASSUME NEW t, NEW b, t # <<>>, Ordered(t, b)
  PROVE  Ordered(Tail(t), b) /\ (Tail(t) = <<>> <=> Head(t) \in Ends)
<1> DEFINE u == Tail(t)
           n == Len(t)
<1>1. t \in Seq(Steps)
  BY DEF Ordered
<1>2. /\ u \in Seq(Steps) /\ n \in Nat \ {0} /\ Len(u) = n - 1
      /\ DOMAIN t = 1 .. n /\ DOMAIN u = 1 .. n - 1
      /\ Head(t) = t[1]
      /\ \A i \in 1 .. n - 1 : i + 1 \in 1 .. n /\ u[i] = t[i + 1]
      /\ \A i \in 1 .. n - 1 : After(u, i) = After(t, i + 1)
  BY <1>1, TailFacts
<1> HIDE DEF u, n
<1>3. u = <<>> <=> n = 1
  BY <1>2, EmptySeq
<1>4. u # <<>> => u[Len(u)] \in Ends
  <2>1. u # <<>> => n - 1 \in 1 .. n - 1 /\ n - 1 + 1 = n
    BY <1>2, <1>3
  <2> QED
    BY <1>2, <2>1 DEF Ordered, n
<1>5. ASSUME NEW i \in 1 .. n - 1
      PROVE  u[i] \in Ends => i = n - 1
  <2>1. u[i] \in Ends => i + 1 = n
    BY <1>2 DEF Ordered, n
  <2> QED
    BY <1>2, <2>1
<1>6. ASSUME NEW i \in 1 .. n - 1
      PROVE  /\ u[i][1] = "probe" => u[i] \in Ends
             /\ u[i][1] = "resolve" => u[i][2] \in Tools
             /\ u[i][1] = "command" => u[i][2] \in Tools \cup {"cargo"}
             /\ u[i][1] \in {"render", "nonempty"} => u[i][2] = "flamegraph"
             /\ u[i][1] = "finalize" => \A s \in After(u, i) : s[1] # "finalize"
             /\ u[i][1] = "prepare" => \A a \in Required(b) : \E s \in After(u, i) : Provides(s, a)
             /\ u[i][1] = "record" =>
                  /\ After(u, i) \subseteq Late
                  /\ b = "bpftrace" => \E s \in After(u, i) : s[1] = "outcome"
  <2>1. i + 1 \in DOMAIN t /\ u[i] = t[i + 1] /\ After(u, i) = After(t, i + 1)
    BY <1>2
  <2> QED
    BY <2>1 DEF Ordered
<1>7. t[1] \in Ends <=> n = 1
  <2>1. 1 \in DOMAIN t
    BY <1>2
  <2> QED
    BY <2>1 DEF Ordered, n
<1>8. Ordered(u, b)
  BY <1>2, <1>4, <1>5, <1>6 DEF Ordered
<1> QED
  BY <1>2, <1>3, <1>7, <1>8 DEF u

\* A tool that has been found stays in the cache.
LEMMA TailTools ==
  ASSUME NEW t \in Seq(Steps), t # <<>>, NEW c, NEW d, c \subseteq d, ToolsFound(t, c),
         Head(t)[1] = "resolve" => Head(t)[2] \in d
  PROVE  ToolsFound(Tail(t), d)
<1> DEFINE u == Tail(t)
           n == Len(t)
<1>1. /\ n \in Nat \ {0} /\ DOMAIN t = 1 .. n /\ DOMAIN u = 1 .. n - 1
      /\ Head(t) = t[1]
      /\ \A i \in 1 .. n - 1 : i + 1 \in 1 .. n /\ u[i] = t[i + 1]
  BY TailFacts
<1> HIDE DEF u, n
<1> SUFFICES ASSUME NEW j \in 1 .. n - 1, NEW k \in 1 .. n - 1, k < j,
                    u[k][1] = "record", u[j][1] = "command"
             PROVE  u[j][2] \in d \/ \E i \in 1 .. k - 1 : u[i] = <<"resolve", u[j][2]>>
  BY <1>1 DEF ToolsFound, u
<1>2. /\ u[j] = t[j + 1] /\ u[k] = t[k + 1]
      /\ j + 1 \in DOMAIN t /\ k + 1 \in DOMAIN t /\ k + 1 < j + 1
  BY <1>1
<1>3. u[j][2] \in c \/ \E i \in 1 .. k + 1 - 1 : t[i] = <<"resolve", u[j][2]>>
  <2> DEFINE x == j + 1
             y == k + 1
  <2>1. x \in DOMAIN t /\ y \in DOMAIN t /\ y < x /\ u[j] = t[x] /\ u[k] = t[y]
    BY <1>2
  <2> HIDE DEF x, y
  <2>2. t[x][2] \in c \/ \E i \in 1 .. y - 1 : t[i] = <<"resolve", t[x][2]>>
    BY <2>1, Zenon DEF ToolsFound
  <2> QED
    BY <2>1, <2>2 DEF y
<1>4. ASSUME NEW i \in 1 .. k + 1 - 1, t[i] = <<"resolve", u[j][2]>>
      PROVE  u[j][2] \in d \/ \E x \in 1 .. k - 1 : u[x] = <<"resolve", u[j][2]>>
  <2>1. CASE i = 1
    BY <1>1, <1>4, <2>1
  <2>2. CASE i # 1
    <3>1. i - 1 \in 1 .. k - 1 /\ i - 1 \in 1 .. n - 1 /\ i - 1 + 1 = i
      BY <1>1, <2>2
    <3>2. u[i - 1] = t[i]
      BY <1>1, <3>1
    <3> QED
      BY <1>4, <3>1, <3>2
  <2> QED
    BY <2>1, <2>2
<1> QED
  BY <1>3, <1>4

\* The finalization scope stays entered.
LEMMA TailScoped ==
  ASSUME NEW t \in Seq(Steps), t # <<>>, NEW d \in Nat, NEW e \in Nat, Scoped(t, d),
         e = IF Head(t)[1] = "finalize" THEN d + 1 ELSE d,
         Head(t)[1] = "finalize" => \A s \in After(t, 1) : s[1] # "finalize"
  PROVE  Scoped(Tail(t), e)
<1> DEFINE u == Tail(t)
           n == Len(t)
<1>1. /\ n \in Nat \ {0} /\ DOMAIN t = 1 .. n /\ DOMAIN u = 1 .. n - 1
      /\ Head(t) = t[1]
      /\ \A i \in 1 .. n - 1 : i + 1 \in 1 .. n /\ u[i] = t[i + 1]
      /\ After(u, 0) = After(t, 1) /\ After(t, 1) \subseteq After(t, 0)
  BY TailFacts
<1> HIDE DEF u, n
<1>2. e > 0 => \A s \in After(u, 0) : s[1] # "finalize"
  BY <1>1 DEF Scoped
<1>3. ASSUME NEW j \in 1 .. n - 1, u[j] = <<"command", "inferno">>, ~(e > 0)
      PROVE  \E i \in 1 .. j - 1 : u[i][1] = "finalize"
  <2>1. t[j + 1] = <<"command", "inferno">> /\ j + 1 \in DOMAIN t /\ ~(d > 0)
    BY <1>1, <1>3
  <2>2. PICK i \in 1 .. j + 1 - 1 : t[i][1] = "finalize"
    BY <2>1 DEF Scoped
  <2>3. i # 1
    BY <1>1, <1>3, <2>2
  <2>4. i - 1 \in 1 .. j - 1 /\ i - 1 \in 1 .. n - 1 /\ i - 1 + 1 = i
    BY <1>1, <2>3
  <2>5. u[i - 1] = t[i]
    BY <1>1, <2>4
  <2> QED
    BY <2>2, <2>4, <2>5
<1>4. Scoped(u, e)
  BY <1>1, <1>2, <1>3 DEF Scoped
<1> QED
  BY <1>4 DEF u

-----------------------------------------------------------------------------
(* What a step does to the invariant, by how it ends.                        *)

\* The first step of a plan in order, and what comes after it.
LEMMA TodoFacts ==
  ASSUME RunInv, todo # <<>>
  PROVE  /\ todo \in Seq(Steps) /\ Head(todo) \in Steps
         /\ Ordered(Tail(todo), backend)
         /\ Tail(todo) = <<>> <=> Head(todo) \in Ends
         /\ After(Tail(todo), 0) = After(todo, 1)
         /\ After(todo, 0) = {Head(todo)} \cup After(Tail(todo), 0)
         /\ Head(todo)[1] = "probe" => Head(todo) \in Ends
         /\ Head(todo)[1] = "resolve" => Head(todo)[2] \in Tools
         /\ Head(todo)[1] = "command" => Head(todo)[2] \in Tools \cup {"cargo"}
         /\ Head(todo)[1] \in {"render", "nonempty"} => Head(todo)[2] = "flamegraph"
         /\ Head(todo)[1] = "finalize" => \A s \in After(Tail(todo), 0) : s[1] # "finalize"
         /\ Head(todo)[1] = "prepare" =>
              \A a \in Required(backend) : \E s \in After(Tail(todo), 0) : Provides(s, a)
         /\ Head(todo)[1] = "record" =>
              /\ After(Tail(todo), 0) \subseteq Late
              /\ backend = "bpftrace" => \E s \in After(Tail(todo), 0) : s[1] = "outcome"
         /\ Head(todo) = <<"command", "inferno">> => depth > 0
<1>1. Ordered(todo, backend) /\ todo \in Seq(Steps) /\ Scoped(todo, depth)
  BY DEF RunInv, OrderInv, Ordered
<1>2. /\ Head(todo) \in Steps /\ Head(todo) = todo[1] /\ 1 \in DOMAIN todo
      /\ After(Tail(todo), 0) = After(todo, 1)
      /\ After(todo, 0) = {Head(todo)} \cup After(Tail(todo), 0)
  <2>1. Len(todo) \in Nat \ {0} => 1 \in 1 .. Len(todo)
    OBVIOUS
  <2> QED
    BY <1>1, <2>1, TailFacts
<1>3. Ordered(Tail(todo), backend) /\ (Tail(todo) = <<>> <=> Head(todo) \in Ends)
  BY <1>1, TailOrdered
<1>4. Head(todo) = <<"command", "inferno">> => depth > 0
  <2>1. 1 .. 1 - 1 = {}
    OBVIOUS
  <2> QED
    BY <1>1, <1>2, <2>1 DEF Scoped
<1>5. /\ todo[1][1] = "probe" => todo[1] \in Ends
      /\ todo[1][1] = "resolve" => todo[1][2] \in Tools
      /\ todo[1][1] = "command" => todo[1][2] \in Tools \cup {"cargo"}
      /\ todo[1][1] \in {"render", "nonempty"} => todo[1][2] = "flamegraph"
      /\ todo[1][1] = "finalize" => \A s \in After(todo, 1) : s[1] # "finalize"
      /\ todo[1][1] = "prepare" =>
           \A a \in Required(backend) : \E s \in After(todo, 1) : Provides(s, a)
      /\ todo[1][1] = "record" =>
           /\ After(todo, 1) \subseteq Late
           /\ backend = "bpftrace" => \E s \in After(todo, 1) : s[1] = "outcome"
  BY <1>1, <1>2, Zenon DEF Ordered
<1> QED
  BY <1>1, <1>2, <1>3, <1>4, <1>5

\* Nothing is left of a run that has ended.
LEMMA EmptyOrdered ==
  ASSUME NEW b, NEW c
  PROVE  Ordered(<<>>, b) /\ ToolsFound(<<>>, c) /\ Scoped(<<>>, 0) /\ After(<<>>, 0) = {}
<1>1. <<>> \in Seq(Steps) /\ DOMAIN <<>> = {} /\ Len(<<>>) = 0
  OBVIOUS
<1>2. After(<<>>, 0) = {}
  BY DEF After
<1> QED
  BY <1>1, <1>2 DEF Ordered, ToolsFound, Scoped

\* A run that fails hides what it has left.
LEMMA FailKeeps ==
  ASSUME RunInv, result = "none", Fail, live' = "none",
         UNCHANGED <<req, backend, first, signals, cause, rec, snapshot, evidence>>,
         cached' \subseteq Tools, shield' \in BOOLEAN,
         files' \in [Artifacts -> {"none", "old", "new", "cut", "error"}], files'["run"] # "new",
         fault' \in {"none", "prepare", "other"},
         fault' # "prepare" => \A a \in Artifacts : files'[a] # "old",
         cause = "recording" /\ signals = 1 => fault' # "none",
         evidence.status = "cut" => fault' # "none"
  PROVE  RunInv'
<1>1. result' = "err" /\ depth' = 0 /\ todo' = <<>> /\ code' = IF first = 0 THEN 1 ELSE 128 + first
  BY DEF Fail
<1>2. OrderInv' /\ RunningInv'
  BY <1>1, EmptyOrdered DEF OrderInv, RunningInv
<1>3. code' \in 0 .. 255 /\ code' # 0
  BY <1>1 DEF RunInv, FilesInv, ArtifactsTruthful, TypeOK, SIGINT, SIGTERM
<1>4. TypeOK'
  <2>1. todo' \in Seq(Steps)
    BY <1>1, EmptyOrdered DEF Ordered
  <2> QED
    BY <1>1, <1>3, <2>1 DEF RunInv, FilesInv, ArtifactsTruthful, TypeOK
<1>5. FilesInv'
  BY <1>1, <1>4 DEF FilesInv, ArtifactsTruthful, ManifestTruthful, FailureHidden
<1>6. CauseInv'
  BY <1>1, <1>3 DEF RunInv, CauseInv, Finalized, ExitHonest
<1> QED
  BY <1>2, <1>5, <1>6 DEF RunInv

\* A step that succeeds leaves what it provides.
LEMMA ProvidedKeeps ==
  ASSUME RunInv, result = "none", todo # <<>>,
         \A a \in Artifacts : files[a] = "new" => files'[a] = "new",
         \A a \in Required(backend) : Provides(Head(todo), a) => files'[a] = "new"
  PROVE  \A a \in Required(backend) :
           files'[a] = "new" \/ \E s \in After(Tail(todo), 0) : Provides(s, a)
<1>1. Required(backend) \subseteq Artifacts
  BY DEF Required, Artifacts
<1>2. \A a \in Required(backend) : files[a] = "new" \/ \E s \in After(todo, 0) : Provides(s, a)
  BY DEF RunInv, FilesInv
<1>3. After(todo, 0) = {Head(todo)} \cup After(Tail(todo), 0)
  BY TodoFacts
<1> QED
  BY <1>1, <1>2, <1>3

\* A run that goes on is as it should be before its next step.
LEMMA ProceedKeeps ==
  ASSUME RunInv, result = "none", todo # <<>>, todo' = Tail(todo), live' = "none",
         UNCHANGED <<req, backend, first, signals, cause, result, code>>,
         Head(todo)[1] # "probe",
         depth' = IF Head(todo)[1] = "finalize" THEN depth + 1 ELSE depth,
         cached \subseteq cached', cached' \subseteq Tools,
         Head(todo)[1] = "resolve" => Head(todo)[2] \in cached',
         files' \in [Artifacts -> {"none", "new"}],
         files'["run"] = "new" <=> Head(todo) = <<"write", "run">>,
         \A a \in Required(backend) :
           files'[a] = "new" \/ \E s \in After(Tail(todo), 0) : Provides(s, a),
         rec' \in Statuses, snapshot' \in {0, SIGINT, SIGTERM}, evidence' \in Evidence,
         shield' \in BOOLEAN, fault' \in {"none", "prepare", "other"}
  PROVE  OrderInv' /\ RunningInv' /\ FilesInv'
<1>1. OrderInv'
  <2>1. Ordered(todo', backend')
    BY TodoFacts
  <2>2. ToolsFound(todo', cached')
    BY TodoFacts, TailTools DEF RunInv, OrderInv
  <2>3. Scoped(todo', depth')
    <3>1. depth \in Nat /\ depth' \in Nat
      BY DEF RunInv, FilesInv, ArtifactsTruthful, TypeOK
    <3>2. Scoped(todo, depth)
      BY DEF RunInv, OrderInv
    <3>3. /\ todo \in Seq(Steps)
          /\ Head(todo)[1] = "finalize" => \A s \in After(todo, 1) : s[1] # "finalize"
      BY TodoFacts
    <3> QED
      BY <3>1, <3>2, <3>3, TailScoped
  <2> QED
    BY <2>1, <2>2, <2>3 DEF OrderInv
<1>2. RunningInv'
  BY DEF RunningInv
<1>3. TypeOK'
  <2>1. depth' \in 0 .. 1
    <3>1. depth \in 0 .. 1
      BY DEF RunInv, FilesInv, ArtifactsTruthful, TypeOK
    <3>2. Head(todo)[1] = "finalize" => ~(depth > 0)
      BY TodoFacts DEF RunInv, OrderInv, Scoped
    <3> QED
      BY <3>1, <3>2
  <2>2. todo' \in Seq(Steps)
    BY TodoFacts DEF Ordered
  <2>3. files' \in [Artifacts -> {"none", "old", "new", "cut", "error"}]
    OBVIOUS
  <2> QED
    BY <2>1, <2>2, <2>3 DEF RunInv, FilesInv, ArtifactsTruthful, TypeOK
<1>4. files'["run"] = "new" <=> todo' = <<>>
  BY TodoFacts DEF Ends
<1>5. \A a \in Required(backend') : files'[a] = "new" \/ \E s \in After(todo', 0) : Provides(s, a)
  OBVIOUS
<1>6. ManifestTruthful'
  <2> SUFFICES ASSUME files'["run"] = "new", NEW a \in Listed' PROVE files'[a] = "new"
    BY DEF ManifestTruthful
  <2>1. After(todo', 0) = {}
    BY <1>4, EmptyOrdered
  <2>2. a \in Required(backend) \/ a = "run" \/ (a = "flamegraph" /\ files'["flamegraph"] # "none")
    BY DEF Listed, Required
  <2>3. "flamegraph" \in Artifacts
    BY DEF Artifacts
  <2> QED
    BY <1>5, <2>1, <2>2, <2>3
<1>7. FilesInv'
  BY <1>3, <1>4, <1>5, <1>6 DEF FilesInv, ArtifactsTruthful, FailureHidden
<1> QED
  BY <1>1, <1>2, <1>7

\* What is known of the recorder's end does not change after it.
LEMMA CauseKeeps ==
  ASSUME RunInv, result = "none", todo # <<>>, todo' = Tail(todo),
         live # "recorder", live' = "none",
         UNCHANGED <<backend, first, signals, cause, result, rec, snapshot, evidence, fault>>,
         Head(todo)[1] = "outcome" => evidence.status # "cut"
  PROVE  CauseInv'
<1>1. After(todo, 0) = {Head(todo)} \cup After(todo', 0)
  BY TodoFacts
<1>2. Orderly(backend, rec) => Orderly(backend, rec)'
  BY DEF Orderly
<1> QED
  BY <1>1, <1>2 DEF RunInv, CauseInv, Finalized, ExitHonest

-----------------------------------------------------------------------------
(* Every step keeps the invariant.                                           *)

\* Where a run is when it takes its next step.
LEMMA AtFacts ==
  ASSUME RunInv, NEW op, At(op)
  PROVE  /\ result = "none" /\ live = "none" /\ todo # <<>> /\ Head(todo)[1] = op
         /\ files["run"] # "new"
         /\ op # "prepare" => files \in [Artifacts -> {"none", "new"}]
         /\ cause = "recording" => Head(todo) \in Late
         /\ evidence.status = "cut" => fault # "none"
<1>1. result = "none" /\ live = "none" /\ todo # <<>> /\ Head(todo)[1] = op
  BY DEF At
<1>2. files["run"] # "new"
  BY <1>1 DEF RunInv, FilesInv
<1>3. op # "prepare" => files \in [Artifacts -> {"none", "new"}]
  <2> SUFFICES ASSUME op # "prepare" PROVE files \in [Artifacts -> {"none", "new"}]
    OBVIOUS
  <2>1. \A a \in Artifacts : files[a] \in {"none", "new"}
    BY <1>1 DEF RunInv, FilesInv
  <2>2. files \in [Artifacts -> {"none", "old", "new", "cut", "error"}]
    BY DEF RunInv, FilesInv, ArtifactsTruthful, TypeOK
  <2> QED
    BY <2>1, <2>2
<1>4. cause = "recording" => Head(todo) \in Late
  BY <1>1, TodoFacts DEF RunInv, CauseInv
<1> QED
  BY <1>1, <1>2, <1>3, <1>4 DEF RunInv, CauseInv

\* The types that steps need.
LEMMA Types ==
  ASSUME RunInv
  PROVE  /\ files \in [Artifacts -> {"none", "old", "new", "cut", "error"}]
         /\ cached \subseteq Tools /\ shield \in BOOLEAN
         /\ first \in {0, 2, 15} /\ signals \in 0 .. MaxSignals /\ depth \in 0 .. 1
         /\ rec \in Statuses /\ snapshot \in {0, SIGINT, SIGTERM} /\ evidence \in Evidence
         /\ fault \in {"none", "prepare", "other"}
         /\ {"run", "raw", "xml", "logs", "errors"} \subseteq Artifacts
         /\ Required(backend) \subseteq Artifacts
  BY DEF RunInv, FilesInv, ArtifactsTruthful, TypeOK, Artifacts, Required, SIGINT, SIGTERM

\* A signal, whatever runs.
LEMMA SignalKeeps ==
  ASSUME RequestsAssumption, SignalsAssumption, RunInv, Signal
  PROVE  RunInv'
<1>1. /\ signals < MaxSignals /\ result = "none" /\ signals' = signals + 1
      /\ first' \in {2, 15} /\ (first # 0 => first' = first)
      /\ cause' = IF first # 0 THEN cause
                  ELSE IF live = "recorder" THEN "recording" ELSE "elsewhere"
      /\ UNCHANGED <<req, backend, todo, depth, cached, files, live, shield, rec, snapshot,
                     evidence, result, code, fault>>
  <2>1. first' \in {2, 15} /\ (first # 0 => first' = first)
    <3>1. first \in {0, 2, 15}
      BY Types
    <3>2. PICK s \in {2, 15} : first' = IF first = 0 THEN s ELSE first
      BY DEF Signal, SIGINT, SIGTERM
    <3> QED
      BY <3>1, <3>2
  <2> QED
    BY <2>1 DEF Signal, chosen, recorded, outcome
<1>2. signals \in 0 .. MaxSignals /\ first \in {0, 2, 15}
  BY Types
<1>3. OrderInv' /\ RunningInv'
  BY <1>1 DEF RunInv, OrderInv, RunningInv
<1>4. FilesInv'
  <2>1. TypeOK'
    <3>1. signals' \in 0 .. MaxSignals
      BY <1>1, <1>2 DEF SignalsAssumption
    <3>2. cause' \in {"none", "recording", "elsewhere"}
      BY <1>1 DEF RunInv, FilesInv, ArtifactsTruthful, TypeOK
    <3> QED
      BY <1>1, <3>1, <3>2 DEF RunInv, FilesInv, ArtifactsTruthful, TypeOK, SIGINT, SIGTERM
  <2>2. ManifestTruthful' /\ FailureHidden'
    BY <1>1 DEF RunInv, FilesInv, ArtifactsTruthful, ManifestTruthful, Listed, FailureHidden
  <2> QED
    BY <1>1, <2>1, <2>2 DEF RunInv, FilesInv, ArtifactsTruthful
<1>5. CauseInv'
  <2>1. first' # 0 /\ signals' # 0
    BY <1>1, <1>2
  <2>2. snapshot # 0 => snapshot = first'
    BY <1>1 DEF RunInv, CauseInv
  <2>3. CASE first = 0
    <3>1. cause' = "recording" => live' = "recorder"
      BY <1>1, <2>3
    <3>2. evidence'.status = "cut" =>
            /\ fault' # "none"
            /\ result' = "none" =>
                 backend' = "bpftrace" /\ \E s \in After(todo', 0) : s[1] = "outcome"
      BY <1>1 DEF RunInv, CauseInv
    <3> QED
      BY <1>1, <2>1, <2>2, <3>1, <3>2 DEF CauseInv, Finalized, ExitHonest
  <2>4. CASE first # 0
    <3>1. first' = first /\ cause' = cause /\ signals # 0 /\ signals' # 1
      BY <1>1, <1>2, <2>4 DEF RunInv, CauseInv
    <3>2. Orderly(backend, rec) => Orderly(backend, rec)'
      BY <1>1, <3>1 DEF Orderly
    <3> QED
      BY <1>1, <2>1, <2>2, <3>1, <3>2 DEF RunInv, CauseInv, Finalized, ExitHonest
  <2> QED
    BY <2>3, <2>4
<1> QED
  BY <1>3, <1>4, <1>5 DEF RunInv

\* The directory is cleared, or the run ends half-way.
LEMMA PrepareKeeps ==
  ASSUME RunInv, Prepare
  PROVE  RunInv'
<1> USE DEF chosen, cancel, recorded, outcome
<1>1. At("prepare") /\ UNCHANGED <<req, backend, first, signals, cause, cached, live, shield,
                                   rec, snapshot, evidence>>
  BY DEF Prepare
<1>2. CASE Proceed /\ files' = [a \in Artifacts |-> "none"] /\ UNCHANGED fault
  <2>1. todo' = Tail(todo) /\ UNCHANGED <<result, code, depth>>
    BY <1>2 DEF Proceed
  <2>2. \A a \in Required(backend) : \E s \in After(Tail(todo), 0) : Provides(s, a)
    BY <1>1, AtFacts, TodoFacts
  <2>3. files' \in [Artifacts -> {"none", "new"}] /\ files'["run"] # "new"
    BY <1>2, Types
  <2>4. OrderInv' /\ RunningInv' /\ FilesInv'
    BY <1>1, <1>2, <2>1, <2>2, <2>3, AtFacts, Types, ProceedKeeps
  <2>5. CauseInv'
    BY <1>1, <1>2, <2>1, AtFacts, CauseKeeps
  <2> QED
    BY <2>4, <2>5 DEF RunInv
<1>3. CASE /\ Fail /\ fault' = "prepare"
           /\ \E gone \in SUBSET {"run", "summary"} :
                files' = [a \in Artifacts |-> IF a \in gone THEN "none" ELSE files[a]]
  <2>1. files' \in [Artifacts -> {"none", "old", "new", "cut", "error"}] /\ files'["run"] # "new"
    BY <1>1, <1>3, AtFacts, Types
  <2> QED
    BY <1>1, <1>3, <2>1, AtFacts, Types, FailKeeps
<1> QED
  BY <1>2, <1>3 DEF Prepare

\* Steps that look at the request, the recorder's status or its evidence.
LEMMA LookKeeps ==
  ASSUME RunInv, Accept \/ Try \/ Check \/ Outcome
  PROVE  RunInv'
<1> USE DEF chosen, cancel, recorded, outcome
<1>1. PICK op \in {"accept", "try", "check", "outcome"} : At(op)
  BY DEF Accept, Try, Check, Outcome
<1>2. UNCHANGED <<req, backend, first, signals, cause, cached, live, shield, rec, snapshot,
                  evidence>>
  BY DEF Accept, Try, Check, Outcome
<1>3. CASE Proceed
  <2>1. /\ todo' = Tail(todo) /\ UNCHANGED <<result, code, depth>>
    BY <1>3 DEF Proceed
  <2>2. todo # <<>> /\ result = "none" /\ Head(todo)[1] = op
    BY <1>1, AtFacts
  <2>3. UNCHANGED <<files, fault>>
    <3>1. todo' # <<>> \/ result' = "none"
      BY <2>1, <2>2
    <3> QED
      BY <2>1, <2>2 DEF Accept, Try, Check, Outcome, Fail, FailLogged
  <2>4. \A a : ~Provides(Head(todo), a)
    BY <2>2 DEF Provides
  <2>5. files' \in [Artifacts -> {"none", "new"}] /\ files'["run"] # "new"
    BY <1>1, <2>3, AtFacts
  <2>6. \A a \in Required(backend) :
          files'[a] = "new" \/ \E s \in After(Tail(todo), 0) : Provides(s, a)
    BY <2>2, <2>3, <2>4, ProvidedKeeps
  <2>7. OrderInv' /\ RunningInv' /\ FilesInv'
    BY <1>1, <1>2, <2>1, <2>2, <2>3, <2>5, <2>6, AtFacts, Types, ProceedKeeps
  <2>8. Head(todo)[1] = "outcome" => evidence.status # "cut"
    <3>1. Head(todo)[1] = "outcome" => Outcome
      BY <1>1, <2>2 DEF Accept, Try, Check, At
    <3>2. Outcome => WorkloadOutcome # "invalid"
      BY <2>1, <2>2 DEF Outcome, FailLogged, Fail
    <3>3. evidence.status = "cut" => backend = "bpftrace"
      BY <2>2 DEF RunInv, CauseInv
    <3> QED
      BY <3>1, <3>2, <3>3 DEF WorkloadOutcome
  <2>9. CauseInv'
    BY <1>1, <1>2, <2>1, <2>3, <2>8, AtFacts, CauseKeeps
  <2> QED
    BY <2>7, <2>9 DEF RunInv
<1>4. CASE ~Proceed
  <2>1. Fail /\ result = "none" /\ Head(todo)[1] = op
    BY <1>1, <1>4, AtFacts DEF Accept, Try, Check, Outcome, FailLogged
  <2>2. /\ fault' \in {"none", "prepare", "other"}
        /\ fault # "none" => fault' # "none"
    BY <1>4, Types DEF Accept, Try, Check, Outcome, FailLogged
  <2>3. files' \in [Artifacts -> {"none", "new", "error"}] /\ files'["run"] # "new"
    <3>1. files \in [Artifacts -> {"none", "new"}] /\ files["run"] # "new"
      BY <1>1, AtFacts
    <3>2. files' = files \/ files' = [files EXCEPT !["logs"] = "new", !["errors"] = "error"]
      BY <1>4 DEF Accept, Try, Check, Outcome, FailLogged
    <3> QED
      BY <3>1, <3>2 DEF Artifacts
  <2>4. files' \in [Artifacts -> {"none", "old", "new", "cut", "error"}]
        /\ \A a \in Artifacts : files'[a] # "old"
    BY <2>3
  <2>5. cause = "recording" /\ signals = 1 => fault' # "none"
    <3> SUFFICES ASSUME cause = "recording", signals = 1, fault' = "none" PROVE FALSE
      OBVIOUS
    <3>1. Head(todo) \in Late /\ live = "none"
      BY <1>1, AtFacts
    <3>2. fault = "none"
      BY <2>2, Types
    <3>3. first # 0 /\ snapshot = first /\ Orderly(backend, rec)
      BY <2>1, <3>1, <3>2 DEF RunInv, CauseInv
    <3>4. ~Accept
      BY <1>1, <2>1, <3>1 DEF Late, Accept, At
    <3>5. ~Try
      BY <1>4 DEF Try
    <3>6. Acceptable
      BY <3>3, Types DEF Orderly, Acceptable, SucceededOrInterrupted, MatchingCancellation,
                         SIGINT, SIGTERM
    <3>7. ~Check
      BY <1>4, <3>6 DEF Check
    <3>8. evidence.status # "cut"
      BY <3>2 DEF RunInv, CauseInv
    <3>9. WorkloadOutcome # "invalid"
      BY <3>8 DEF WorkloadOutcome
    <3> QED
      BY <1>4, <3>4, <3>5, <3>7, <3>9 DEF Outcome
  <2>6. evidence.status = "cut" => fault' # "none"
    BY <2>2 DEF RunInv, CauseInv
  <2> QED
    BY <1>1, <1>2, <2>1, <2>2, <2>3, <2>4, <2>5, <2>6, AtFacts, Types, FailKeeps
<1> QED
  BY <1>3, <1>4

\* A step that provides what it is there for, or ends the run.
LEMMA ProduceKeeps ==
  ASSUME RunInv, NEW op \in {"read", "write", "render", "nonempty"}, At(op),
         UNCHANGED <<req, backend, first, signals, cause, cached, live, shield, rec, snapshot,
                     evidence>>,
         files' \in [Artifacts -> {"none", "new", "cut", "error"}],
         \/ /\ Proceed /\ UNCHANGED fault
            /\ files' \in [Artifacts -> {"none", "new"}]
            /\ files'["run"] = "new" <=> Head(todo) = <<"write", "run">>
            /\ \A a \in Artifacts : files[a] = "new" => files'[a] = "new"
            /\ \A a \in Required(backend) : Provides(Head(todo), a) => files'[a] = "new"
         \/ Fail /\ fault' = "other" /\ files'["run"] # "new"
  PROVE  RunInv'
<1>1. CASE /\ Proceed /\ UNCHANGED fault
           /\ files' \in [Artifacts -> {"none", "new"}]
           /\ files'["run"] = "new" <=> Head(todo) = <<"write", "run">>
           /\ \A a \in Artifacts : files[a] = "new" => files'[a] = "new"
           /\ \A a \in Required(backend) : Provides(Head(todo), a) => files'[a] = "new"
  <2>1. /\ todo' = Tail(todo) /\ UNCHANGED <<result, code, depth>>
        /\ todo # <<>> /\ result = "none" /\ live = "none" /\ Head(todo)[1] = op
    BY <1>1, AtFacts DEF Proceed, outcome
  <2>2. \A a \in Required(backend) :
          files'[a] = "new" \/ \E s \in After(Tail(todo), 0) : Provides(s, a)
    BY <1>1, <2>1, ProvidedKeeps
  <2>3. OrderInv' /\ RunningInv' /\ FilesInv'
    BY <1>1, <2>1, <2>2, Types, ProceedKeeps
  <2>4. CauseInv'
    BY <1>1, <2>1, CauseKeeps
  <2> QED
    BY <2>3, <2>4 DEF RunInv
<1>2. CASE Fail /\ fault' = "other" /\ files'["run"] # "new"
  <2>1. files' \in [Artifacts -> {"none", "old", "new", "cut", "error"}]
        /\ \A a \in Artifacts : files'[a] # "old"
    OBVIOUS
  <2>2. result = "none" /\ live = "none"
    BY AtFacts
  <2> QED
    BY <1>2, <2>1, <2>2, Types, FailKeeps
<1> QED
  BY <1>1, <1>2

\* Files are read and written.
LEMMA FileKeeps ==
  ASSUME RunInv, Read \/ WriteArtifact \/ Render \/ RenderNonempty
  PROVE  RunInv'
<1> USE DEF chosen, cancel, recorded
<1>1. PICK op \in {"read", "write", "render", "nonempty"} :
        /\ At(op)
        /\ op = "read" => Read
        /\ op = "write" => WriteArtifact
        /\ op = "render" => Render
        /\ op = "nonempty" => RenderNonempty
  BY DEF Read, WriteArtifact, Render, RenderNonempty
<1>2. UNCHANGED <<req, backend, first, signals, cause, cached, live, shield, rec, snapshot,
                  evidence>>
  BY DEF Read, WriteArtifact, Render, RenderNonempty
<1>3. /\ files \in [Artifacts -> {"none", "new"}] /\ files["run"] # "new"
      /\ Head(todo)[1] = op /\ Head(todo) \in Steps /\ "run" \in Artifacts /\ "errors" \in Artifacts
      /\ Head(todo) = <<op, Arg>>
  <2>1. Head(todo)[1] = op /\ Head(todo) \in Steps
    BY <1>1, AtFacts, TodoFacts
  <2>2. Head(todo) = <<op, Arg>>
    BY <2>1 DEF Steps, Arg
  <2> QED
    BY <1>1, <2>1, <2>2, AtFacts, Types
<1>4. CASE op = "read"
  <2>1. files' = files /\ \/ files[Arg] \in {"new", "old"} /\ Proceed /\ UNCHANGED fault
                          \/ Fail /\ fault' = "other"
    BY <1>1, <1>4 DEF Read
  <2>2. \A a : Provides(Head(todo), a) => a = "raw" /\ Arg = "raw"
    BY <1>3, <1>4 DEF Provides
  <2>3. files["raw"] # "old"
    BY <1>3, Types
  <2>4. files[Arg] \in {"new", "old"} =>
          \A a \in Required(backend) : Provides(Head(todo), a) => files'[a] = "new"
    BY <2>1, <2>2, <2>3
  <2>5. files' \in [Artifacts -> {"none", "new", "cut", "error"}]
    BY <1>3, <2>1
  <2>6. Head(todo) # <<"write", "run">>
    BY <1>3, <1>4
  <2> QED
    BY <1>1, <1>2, <1>3, <2>1, <2>4, <2>5, <2>6, ProduceKeeps
<1>5. CASE op \in {"write", "render"}
  <2>1. \/ files' = [files EXCEPT ![Arg] = "new"] /\ Proceed /\ UNCHANGED fault
        \/ /\ \/ files' = [files EXCEPT ![Arg] = "cut"]
              \/ files' = [files EXCEPT !["errors"] = "error"]
           /\ Fail /\ fault' = "other"
    BY <1>1, <1>5 DEF WriteArtifact, Render
  <2>2. \A a : Provides(Head(todo), a) => a = Arg
    BY <1>3, <1>5 DEF Provides
  <2>3. files' \in [Artifacts -> {"none", "new", "cut", "error"}]
    BY <1>3, <2>1
  <2>4. CASE files' = [files EXCEPT ![Arg] = "new"] /\ Proceed /\ UNCHANGED fault
    <3>1. files' \in [Artifacts -> {"none", "new"}]
          /\ \A a \in Artifacts : files[a] = "new" => files'[a] = "new"
      BY <1>3, <2>4
    <3>2. \A a \in Required(backend) : Provides(Head(todo), a) => files'[a] = "new"
      BY <1>3, <2>2, <2>4, Types
    <3>3. op = "render" => Arg # "run"
      <4>1. op = "render" => Arg = "flamegraph"
        BY <1>1, <1>3, AtFacts, TodoFacts DEF Arg
      <4> QED
        BY <4>1
    <3>4. files'["run"] = "new" <=> Head(todo) = <<"write", "run">>
      BY <1>3, <1>5, <2>4, <3>3
    <3> QED
      BY <1>1, <1>2, <2>3, <2>4, <3>1, <3>2, <3>4, ProduceKeeps
  <2>5. CASE /\ \/ files' = [files EXCEPT ![Arg] = "cut"]
                \/ files' = [files EXCEPT !["errors"] = "error"]
             /\ Fail /\ fault' = "other"
    <3>1. files'["run"] # "new"
      BY <1>3, <2>5
    <3> QED
      BY <1>1, <1>2, <2>3, <2>5, <3>1, ProduceKeeps
  <2> QED
    BY <2>1, <2>4, <2>5
<1>6. CASE op = "nonempty"
  <2>1. \/ /\ files' = IF evidence.stacks THEN [files EXCEPT ![Arg] = "new"] ELSE files
           /\ Proceed /\ UNCHANGED fault
        \/ Fail /\ fault' = "other" /\ UNCHANGED files
    BY <1>1, <1>6 DEF RenderNonempty
  <2>2. \A a : ~Provides(Head(todo), a)
    BY <1>3, <1>6 DEF Provides
  <2>3. Arg = "flamegraph"
    BY <1>1, <1>3, <1>6, AtFacts, TodoFacts DEF Arg
  <2>4. /\ files' \in [Artifacts -> {"none", "new"}] /\ files'["run"] # "new"
        /\ \A a \in Artifacts : files[a] = "new" => files'[a] = "new"
    BY <1>3, <2>1, <2>3
  <2>5. files' \in [Artifacts -> {"none", "new", "cut", "error"}]
    BY <2>4
  <2>6. Head(todo) # <<"write", "run">>
    BY <1>3, <1>6
  <2> QED
    BY <1>1, <1>2, <2>1, <2>2, <2>4, <2>5, <2>6, ProduceKeeps
<1> QED
  BY <1>4, <1>5, <1>6


\* A tool is in the cache or looked for.
LEMMA ResolveKeeps ==
  ASSUME RunInv, ResolveTool
  PROVE  RunInv'
<1> USE DEF chosen, cancel, recorded, outcome
<1>1. /\ At("resolve") /\ result = "none" /\ live = "none" /\ todo # <<>>
      /\ Head(todo)[1] = "resolve" /\ Head(todo)[2] = Arg /\ Arg \in Tools
      /\ UNCHANGED <<req, backend, first, signals, cause, files, live, shield, rec, snapshot,
                     evidence>>
  <2>1. At("resolve") /\ UNCHANGED <<req, backend, first, signals, cause, files, live, shield,
                                     rec, snapshot, evidence>>
    BY DEF ResolveTool
  <2> QED
    BY <2>1, AtFacts, TodoFacts DEF Arg
<1>2. files' \in [Artifacts -> {"none", "new"}] /\ files'["run"] # "new"
  BY <1>1, AtFacts
<1>3. CASE cached' = cached \cup {Arg} /\ Proceed /\ UNCHANGED fault
  <2>1. todo' = Tail(todo) /\ UNCHANGED <<result, code, depth>>
    BY <1>3 DEF Proceed
  <2>2. \A a : ~Provides(Head(todo), a)
    BY <1>1 DEF Provides
  <2>3. \A a \in Required(backend) :
          files'[a] = "new" \/ \E s \in After(Tail(todo), 0) : Provides(s, a)
    BY <1>1, <2>2, ProvidedKeeps
  <2>4. cached \subseteq cached' /\ cached' \subseteq Tools
    BY <1>1, <1>3, Types
  <2>5. OrderInv' /\ RunningInv' /\ FilesInv'
    BY <1>1, <1>2, <1>3, <2>1, <2>3, <2>4, Types, ProceedKeeps
  <2>6. CauseInv'
    BY <1>1, <1>3, <2>1, CauseKeeps
  <2> QED
    BY <2>5, <2>6 DEF RunInv
<1>4. CASE Fail /\ fault' = "other" /\ UNCHANGED cached
  <2>1. files' \in [Artifacts -> {"none", "old", "new", "cut", "error"}]
        /\ \A a \in Artifacts : files'[a] # "old"
    BY <1>2
  <2> QED
    BY <1>1, <1>2, <1>4, <2>1, Types, FailKeeps
<1> QED
  BY <1>3, <1>4 DEF ResolveTool

\* The scope of a finalization is entered.
LEMMA FinalizeKeeps ==
  ASSUME RunInv, Finalize
  PROVE  RunInv'
<1> USE DEF chosen, cancel, recorded, outcome
<1>1. /\ At("finalize") /\ depth' = depth + 1 /\ todo' = Tail(todo)
      /\ UNCHANGED <<req, backend, first, signals, cause, cached, files, live, shield, rec,
                     snapshot, evidence, result, code, fault>>
  BY DEF Finalize
<1>2. /\ result = "none" /\ live = "none" /\ todo # <<>> /\ Head(todo)[1] = "finalize"
      /\ files' \in [Artifacts -> {"none", "new"}] /\ files'["run"] # "new"
  BY <1>1, AtFacts
<1>3. \A a : ~Provides(Head(todo), a)
  BY <1>2 DEF Provides
<1>4. \A a \in Required(backend) :
        files'[a] = "new" \/ \E s \in After(Tail(todo), 0) : Provides(s, a)
  BY <1>1, <1>2, <1>3, ProvidedKeeps
<1>5. OrderInv' /\ RunningInv' /\ FilesInv'
  BY <1>1, <1>2, <1>4, Types, ProceedKeeps
<1>6. CauseInv'
  BY <1>1, <1>2, CauseKeeps
<1> QED
  BY <1>5, <1>6 DEF RunInv

\* The plans that follow a search open no finalization scope.
LEMMA ProbedPlans ==
  ASSUME NEW b \in {"sched", "bpftrace"}, NEW d
  PROVE  Scoped(PlanOf(b, FALSE), d)
<1>1. CASE b = "sched"
  <2> DEFINE t == SchedPlan
  <2>1. \A i \in 1 .. 12 : t[i] # <<"command", "inferno">> /\ t[i][1] # "finalize"
    BY DEF SchedPlan, Step, Resolve, Write
  <2>2. DOMAIN t = 1 .. 12 /\ Len(t) = 12
    BY DEF SchedPlan
  <2>3. PlanOf(b, FALSE) = t
    BY <1>1 DEF PlanOf
  <2> HIDE DEF t
  <2>4. After(t, 0) = {t[i] : i \in 1 .. 12}
    BY <2>2 DEF After
  <2>5. Scoped(t, d)
    BY <2>1, <2>2, <2>4 DEF Scoped
  <2> QED
    BY <2>3, <2>5
<1>2. CASE b = "bpftrace"
  <2> DEFINE t == BpftracePlan
  <2>1. \A i \in 1 .. 17 : t[i] # <<"command", "inferno">> /\ t[i][1] # "finalize"
    BY DEF BpftracePlan, Step, Resolve, Write
  <2>2. DOMAIN t = 1 .. 17 /\ Len(t) = 17
    BY DEF BpftracePlan
  <2>3. PlanOf(b, FALSE) = t
    BY <1>2 DEF PlanOf
  <2> HIDE DEF t
  <2>4. After(t, 0) = {t[i] : i \in 1 .. 17}
    BY <2>2 DEF After
  <2>5. Scoped(t, d)
    BY <2>1, <2>2, <2>4 DEF Scoped
  <2> QED
    BY <2>3, <2>5
<1> QED
  BY <1>1, <1>2

\* A recorder is found, looked for elsewhere, or there is none.
LEMMA ProbeKeeps ==
  ASSUME RunInv, Probe
  PROVE  RunInv'
<1> USE DEF chosen, cancel, recorded, outcome
<1>1. /\ At("probe")
      /\ UNCHANGED <<req, first, signals, cause, files, live, shield, rec, snapshot, evidence>>
  BY DEF Probe
<1>2. /\ result = "none" /\ live = "none" /\ todo # <<>> /\ Head(todo)[1] = "probe"
      /\ files' \in [Artifacts -> {"none", "new"}] /\ files'["run"] # "new"
      /\ cause # "recording"
  BY <1>1, AtFacts DEF Late
<1>3. /\ Tail(todo) = <<>> /\ After(todo, 0) = {Head(todo)} /\ Arg \in {"perf", "bpftrace"}
      /\ evidence.status # "cut"
  <2>1. Head(todo) \in Ends
    BY <1>2, TodoFacts
  <2>2. Tail(todo) = <<>> /\ After(Tail(todo), 0) = {}
    BY <1>2, <2>1, TodoFacts, EmptyOrdered
  <2>3. After(todo, 0) = {Head(todo)}
    BY <1>2, <2>2, TodoFacts
  <2>4. evidence.status # "cut"
    BY <1>2, <2>3 DEF RunInv, CauseInv
  <2> QED
    BY <1>2, <2>1, <2>2, <2>3, <2>4 DEF Ends, Arg
<1>4. ASSUME NEW t, PlanInv(t, backend'), Scoped(t, depth), todo' = t,
             backend' \in Backends \cup {"none"}, cached' \subseteq Tools,
             UNCHANGED <<result, code, depth, fault>>
      PROVE  RunInv'
  <2>1. OrderInv'
    <3>1. ToolsFound(t, cached')
      BY <1>4 DEF PlanInv, ToolsFound
    <3> QED
      BY <1>4, <3>1 DEF OrderInv, PlanInv
  <2>2. RunningInv'
    BY <1>1, <1>2, <1>4 DEF RunningInv
  <2>3. FilesInv'
    <3>1. TypeOK'
      <4>1. t \in Seq(Steps)
        BY <1>4 DEF PlanInv, Ordered
      <4>2. files' \in [Artifacts -> {"none", "old", "new", "cut", "error"}]
        BY <1>2
      <4> QED
        BY <1>1, <1>4, <4>1, <4>2 DEF RunInv, FilesInv, ArtifactsTruthful, TypeOK
    <3>2. t # <<>> /\ \A a \in Required(backend') : \E s \in After(t, 0) : Provides(s, a)
      BY <1>4 DEF PlanInv
    <3> QED
      BY <1>1, <1>2, <1>4, <3>1, <3>2
      DEF FilesInv, ArtifactsTruthful, ManifestTruthful, FailureHidden
  <2>4. CauseInv'
    BY <1>1, <1>2, <1>3, <1>4 DEF RunInv, CauseInv, Finalized, ExitHonest
  <2> QED
    BY <2>1, <2>2, <2>3, <2>4 DEF RunInv
<1>5. ASSUME NEW b \in {"sched", "bpftrace"}, backend' = b, todo' = Tail(todo) \o PlanOf(b, FALSE),
             cached' = cached \cup {Arg}, UNCHANGED <<result, code, depth, fault>>
      PROVE  RunInv'
  <2>1. b \in Backends /\ FALSE \in BOOLEAN
    BY DEF Backends
  <2>2. PlanInv(PlanOf(b, FALSE), b)
    BY <2>1, PlansOrdered
  <2>3. todo' = PlanOf(b, FALSE)
    <3>1. PlanOf(b, FALSE) \in Seq(Steps)
      BY <2>2 DEF PlanInv, Ordered
    <3> QED
      BY <1>3, <1>5, <3>1, ConcatEmptySeq
  <2>4. cached' \subseteq Tools
    BY <1>3, <1>5, Types DEF Tools
  <2> QED
    BY <1>4, <1>5, <2>1, <2>2, <2>3, <2>4, ProbedPlans
<1>6. CASE /\ todo' = <<<<"probe", "bpftrace">>>> /\ cached' \in {cached, cached \cup {"perf"}}
           /\ UNCHANGED <<backend, result, code, depth, fault>>
  <2>1. PlanInv(<<<<"probe", "bpftrace">>>>, backend)
    BY ProbeOrdered
  <2>2. Scoped(<<<<"probe", "bpftrace">>>>, depth)
    <3> DEFINE t == <<<<"probe", "bpftrace">>>>
    <3>1. DOMAIN t = 1 .. 1 /\ Len(t) = 1 /\ t[1] = <<"probe", "bpftrace">>
      OBVIOUS
    <3> QED
      BY <3>1 DEF Scoped, After
  <2>3. cached' \subseteq Tools /\ backend' \in Backends \cup {"none"}
    BY <1>6, Types DEF Tools, RunInv, FilesInv, ArtifactsTruthful, TypeOK
  <2> QED
    BY <1>4, <1>6, <2>1, <2>2, <2>3
<1>7. CASE Fail /\ fault' = "other" /\ UNCHANGED <<backend, cached>>
  <2>1. files' \in [Artifacts -> {"none", "old", "new", "cut", "error"}]
        /\ \A a \in Artifacts : files'[a] # "old"
    BY <1>2
  <2> QED
    BY <1>1, <1>2, <1>7, <2>1, Types, FailKeeps
<1> QED
  BY <1>5, <1>6, <1>7 DEF Probe

\* The recording starts, unless a signal came before it.
LEMMA RecordKeeps ==
  ASSUME RunInv, Record
  PROVE  RunInv'
<1> USE DEF chosen, cancel, recorded, outcome
<1>1. /\ At("record")
      /\ UNCHANGED <<req, backend, first, signals, cause, cached, files, rec, snapshot, evidence>>
  BY DEF Record
<1>2. /\ result = "none" /\ live = "none" /\ todo # <<>> /\ Head(todo)[1] = "record"
      /\ files \in [Artifacts -> {"none", "new"}] /\ files["run"] # "new"
      /\ cause # "recording"
  BY <1>1, AtFacts DEF Late
<1>3. CASE /\ ~Refused("recording") /\ live' = "recorder" /\ shield' = FALSE
           /\ UNCHANGED <<todo, result, code, depth, fault>>
  <2>1. OrderInv' /\ RunningInv'
    BY <1>1, <1>2, <1>3 DEF RunInv, OrderInv, RunningInv
  <2>2. FilesInv'
    <3>1. TypeOK'
      BY <1>1, <1>3 DEF RunInv, FilesInv, ArtifactsTruthful, TypeOK
    <3>2. \A a \in Artifacts : files[a] \in {"none", "new"}
      BY <1>2
    <3> QED
      BY <1>1, <1>2, <1>3, <3>1, <3>2
      DEF RunInv, FilesInv, ArtifactsTruthful, ManifestTruthful, FailureHidden
  <2>3. CauseInv'
    BY <1>1, <1>2, <1>3 DEF RunInv, CauseInv, Finalized, ExitHonest
  <2> QED
    BY <2>1, <2>2, <2>3 DEF RunInv
<1>4. CASE Fail /\ fault' \in {fault, "other"} /\ UNCHANGED <<live, shield>>
  <2>1. files' \in [Artifacts -> {"none", "old", "new", "cut", "error"}]
        /\ files'["run"] # "new" /\ \A a \in Artifacts : files'[a] # "old"
    BY <1>1, <1>2
  <2>2. evidence.status = "cut" => fault' # "none"
    BY <1>4 DEF RunInv, CauseInv
  <2> QED
    BY <1>1, <1>2, <1>4, <2>1, <2>2, Types, FailKeeps
<1> QED
  BY <1>3, <1>4 DEF Record

\* The recorder ends, on its own or by a signal.
LEMMA RecorderEndsKeeps ==
  ASSUME RunInv, RecorderEnds
  PROVE  RunInv'
<1> USE DEF chosen, cancel, recorded, outcome
<1>1. /\ live = "recorder" /\ live' = "none" /\ snapshot' = first /\ todo' = Tail(todo)
      /\ UNCHANGED <<req, backend, first, signals, cause, cached, shield, result, code, depth>>
  BY DEF RecorderEnds, Proceed
<1>2. PICK s \in Statuses, made \in SUBSET Produced(backend), e \in Evidence :
        /\ backend # "bpftrace" => e = NoEvidence
        /\ rec' = s
        /\ evidence' = e
        /\ files' = [a \in Artifacts |-> IF a \in made THEN "new" ELSE files[a]]
        /\ fault' = IF Orderly(backend, s) /\ made = Produced(backend) /\ e.status # "cut"
                    THEN fault ELSE "other"
  BY DEF RecorderEnds
<1>3. result = "none" /\ todo # <<>> /\ Head(todo)[1] = "record"
  BY <1>1 DEF RunInv, RunningInv
<1>4. files \in [Artifacts -> {"none", "new"}] /\ files["run"] # "new"
  <2>1. \A a \in Artifacts : files[a] \in {"none", "new"}
    BY <1>1, <1>3 DEF RunInv, FilesInv
  <2>2. files["run"] # "new"
    BY <1>3 DEF RunInv, FilesInv
  <2> QED
    BY <2>1, <2>2, Types
<1>5. /\ files' \in [Artifacts -> {"none", "new"}] /\ files'["run"] # "new"
      /\ \A a \in Artifacts : files[a] = "new" => files'[a] = "new"
  <2>1. "run" \notin made /\ "run" \in Artifacts
    BY <1>2, Types DEF Produced
  <2> QED
    BY <1>2, <1>4, <2>1
<1>6. \A a : ~Provides(Head(todo), a)
  BY <1>3 DEF Provides
<1>7. \A a \in Required(backend) :
        files'[a] = "new" \/ \E x \in After(Tail(todo), 0) : Provides(x, a)
  BY <1>3, <1>5, <1>6, ProvidedKeeps
<1>8. fault' \in {"none", "prepare", "other"} /\ snapshot' \in {0, SIGINT, SIGTERM}
  <2>1. fault' \in {fault, "other"}
    BY <1>2
  <2> QED
    BY <1>1, <2>1, Types DEF SIGINT, SIGTERM
<1>9. OrderInv' /\ RunningInv' /\ FilesInv'
  <2>1. rec' \in Statuses /\ evidence' \in Evidence /\ shield' \in BOOLEAN
    BY <1>1, <1>2, Types
  <2>2. Head(todo) # <<"write", "run">>
    BY <1>3
  <2>3. cached \subseteq cached' /\ cached' \subseteq Tools
    BY <1>1, Types
  <2> QED
    BY <1>1, <1>3, <1>5, <1>7, <1>8, <2>1, <2>2, <2>3, ProceedKeeps
<1>10. CauseInv'
  <2>1. fault' = "none" => Orderly(backend, s) /\ fault = "none" /\ e.status # "cut"
    BY <1>2
  <2>2. Orderly(backend, s) => Orderly(backend, rec)'
    BY <1>1, <1>2 DEF Orderly
  <2>3. After(todo', 0) \subseteq Late
        /\ (backend = "bpftrace" => \E x \in After(todo', 0) : x[1] = "outcome")
    BY <1>1, <1>3, TodoFacts
  <2>4. evidence'.status = "cut" => backend = "bpftrace" /\ fault' # "none"
    BY <1>2, <2>1 DEF NoEvidence
  <2>5. (first = 0 <=> signals = 0) /\ (first = 0 => cause = "none")
    BY DEF RunInv, CauseInv
  <2> QED
    BY <1>1, <1>3, <2>1, <2>2, <2>3, <2>4, <2>5 DEF CauseInv, Finalized, ExitHonest
<1> QED
  BY <1>9, <1>10 DEF RunInv

\* What a command is allowed once the recording has been stopped.
LEMMA LatePermitted ==
  ASSUME RunInv, At("command"), cause = "recording"
  PROVE  Arg # "cargo" /\ PermitsFinalization(PurposeOf(Arg))
<1>1. todo # <<>> /\ Head(todo) \in Steps /\ Head(todo) \in Late /\ Head(todo)[1] = "command"
  BY AtFacts, TodoFacts
<1>2. Head(todo) = <<"command", Arg>>
  BY <1>1 DEF Steps, Arg
<1>3. Arg # "cargo"
  BY <1>1, <1>2 DEF Late
<1>4. Arg = "inferno" => depth > 0
  BY <1>1, <1>2, TodoFacts
<1>5. CASE Arg = "inferno"
  BY <1>4, <1>5 DEF PurposeOf, PermitsFinalization
<1>6. CASE Arg # "inferno"
  BY <1>3, <1>6 DEF PurposeOf, PermitsFinalization
<1> QED
  BY <1>3, <1>5, <1>6

\* A tool starts, unless a cancellation refuses it.
LEMMA CommandStartsKeeps ==
  ASSUME RunInv, CommandStarts
  PROVE  RunInv'
<1> USE DEF chosen, cancel, recorded, outcome
<1>1. /\ At("command")
      /\ UNCHANGED <<req, backend, first, signals, cause, cached, files, rec, snapshot, evidence,
                     fault>>
  BY DEF CommandStarts
<1>2. /\ result = "none" /\ live = "none" /\ todo # <<>> /\ Head(todo)[1] = "command"
      /\ files \in [Artifacts -> {"none", "new"}] /\ files["run"] # "new"
  BY <1>1, AtFacts
<1>3. Head(todo) = <<"command", Arg>> /\ Arg \in Tools \cup {"cargo"}
  <2>1. Head(todo) \in Steps /\ Head(todo)[2] \in Tools \cup {"cargo"}
    BY <1>2, TodoFacts
  <2> QED
    BY <1>2, <2>1 DEF Steps, Arg
<1>4. CASE /\ live' = Arg /\ shield' = (PermitsFinalization(PurposeOf(Arg)) /\ first # 0)
           /\ UNCHANGED <<todo, result, code, depth>>
  <2>1. live' \notin {"none", "recorder"}
    BY <1>3, <1>4 DEF Tools
  <2>2. OrderInv' /\ RunningInv'
    BY <1>1, <1>2, <1>3, <1>4, <2>1 DEF RunInv, OrderInv, RunningInv
  <2>3. FilesInv'
    <3>1. shield' \in BOOLEAN
      BY <1>4
    <3>2. TypeOK'
      BY <1>1, <1>3, <1>4, <3>1 DEF RunInv, FilesInv, ArtifactsTruthful, TypeOK
    <3>3. \A a \in Artifacts : files[a] \in {"none", "new"}
      BY <1>2
    <3> QED
      BY <1>1, <1>2, <1>4, <3>2, <3>3
      DEF RunInv, FilesInv, ArtifactsTruthful, ManifestTruthful, FailureHidden
  <2>4. CauseInv'
    <3>1. Orderly(backend, rec) => Orderly(backend, rec)'
      BY <1>1 DEF Orderly
    <3>2. cause = "recording" => first # 0
      BY DEF RunInv, CauseInv
    <3>3. cause = "recording" => live' # "cargo" /\ shield'
      BY <1>1, <1>4, <3>2, LatePermitted
    <3> QED
      BY <1>1, <1>2, <1>4, <3>1, <3>3 DEF RunInv, CauseInv, Finalized, ExitHonest
  <2> QED
    BY <2>2, <2>3, <2>4 DEF RunInv
<1>5. CASE Refused(PurposeOf(Arg)) /\ Fail /\ UNCHANGED <<live, shield>>
  <2>1. files' \in [Artifacts -> {"none", "old", "new", "cut", "error"}]
        /\ files'["run"] # "new" /\ \A a \in Artifacts : files'[a] # "old"
    BY <1>1, <1>2
  <2>2. ~(cause = "recording" /\ signals = 1)
    BY <1>1, <1>5, LatePermitted DEF Refused
  <2>3. evidence.status = "cut" => fault' # "none"
    BY <1>1 DEF RunInv, CauseInv
  <2> QED
    BY <1>1, <1>2, <1>5, <2>1, <2>2, <2>3, Types, FailKeeps
<1> QED
  BY <1>4, <1>5 DEF CommandStarts

\* A tool ends, with what it was run for or without.
LEMMA CommandEndsKeeps ==
  ASSUME RunInv, CommandEnds
  PROVE  RunInv'
<1> USE DEF chosen, cancel, recorded, outcome
<1>1. /\ live \notin {"none", "recorder"} /\ live' = "none"
      /\ UNCHANGED <<req, backend, first, signals, cause, cached, shield, rec, snapshot, evidence>>
  BY DEF CommandEnds
<1>2. result = "none" /\ todo # <<>> /\ Head(todo) = <<"command", live>>
  BY <1>1 DEF RunInv, RunningInv
<1>3. files \in [Artifacts -> {"none", "new"}] /\ files["run"] # "new"
  <2>1. \A a \in Artifacts : files[a] \in {"none", "new"}
    BY <1>1, <1>2 DEF RunInv, FilesInv
  <2>2. files["run"] # "new"
    BY <1>2 DEF RunInv, FilesInv
  <2> QED
    BY <2>1, <2>2, Types
<1>4. CASE /\ live \in {"heaptrack_print", "perf", "xctrace"} => files["raw"] = "new"
           /\ files' = IF live = "xctrace" THEN [files EXCEPT !["xml"] = "new"] ELSE files
           /\ Proceed /\ UNCHANGED fault
  <2>1. todo' = Tail(todo) /\ UNCHANGED <<result, code, depth>>
    BY <1>4 DEF Proceed
  <2>2. /\ files' \in [Artifacts -> {"none", "new"}] /\ files'["run"] # "new"
        /\ \A a \in Artifacts : files[a] = "new" => files'[a] = "new"
        /\ live = "xctrace" => files'["xml"] = "new"
    BY <1>3, <1>4, Types
  <2>3. \A a \in Required(backend) : Provides(Head(todo), a) => files'[a] = "new"
    <3> SUFFICES ASSUME NEW a \in Required(backend), Provides(Head(todo), a)
                 PROVE  files'[a] = "new"
      OBVIOUS
    <3>1. \/ a = "raw" /\ live \in {"heaptrack_print", "perf", "xctrace"}
          \/ a = "xml" /\ live = "xctrace"
      BY <1>2 DEF Provides
    <3> QED
      BY <1>4, <2>2, <3>1, Types
  <2>4. \A a \in Required(backend) :
          files'[a] = "new" \/ \E s \in After(Tail(todo), 0) : Provides(s, a)
    BY <1>2, <2>2, <2>3, ProvidedKeeps
  <2>5. Head(todo)[1] = "command" /\ Head(todo) # <<"write", "run">>
    BY <1>2
  <2>6. OrderInv' /\ RunningInv' /\ FilesInv'
    <3>1. /\ cached \subseteq cached' /\ cached' \subseteq Tools /\ rec' \in Statuses
          /\ evidence' \in Evidence /\ shield' \in BOOLEAN
          /\ snapshot' \in {0, SIGINT, SIGTERM} /\ fault' \in {"none", "prepare", "other"}
      BY <1>1, <1>4, Types
    <3> QED
      BY <1>1, <1>2, <2>1, <2>2, <2>4, <2>5, <3>1, ProceedKeeps
  <2>7. CauseInv'
    BY <1>1, <1>2, <1>4, <2>1, <2>5, CauseKeeps
  <2> QED
    BY <2>6, <2>7 DEF RunInv
<1>5. CASE /\ CASE live = "cargo" -> Fail /\ UNCHANGED files
                [] live = "inferno" -> files' = [files EXCEPT !["errors"] = "error"] /\ Fail
                [] OTHER -> FailLogged
           /\ fault' = IF (first # 0 /\ ~shield) \/ signals > 1 THEN fault ELSE "other"
  <2>1. /\ Fail
        /\ \/ UNCHANGED files
           \/ files' = [files EXCEPT !["errors"] = "error"]
           \/ files' = [files EXCEPT !["logs"] = "new", !["errors"] = "error"]
    BY <1>5 DEF FailLogged
  <2>2. files' \in [Artifacts -> {"none", "new", "error"}] /\ files'["run"] # "new"
    BY <1>3, <2>1 DEF Artifacts
  <2>3. files' \in [Artifacts -> {"none", "old", "new", "cut", "error"}]
        /\ \A a \in Artifacts : files'[a] # "old"
    BY <2>2
  <2>4. fault' \in {fault, "other"}
    BY <1>5
  <2>5. cause = "recording" /\ signals = 1 => fault' # "none"
    <3> SUFFICES ASSUME cause = "recording", signals = 1 PROVE fault' # "none"
      OBVIOUS
    <3>1. shield
      BY <1>1, <1>2 DEF RunInv, CauseInv
    <3> QED
      BY <1>5, <3>1
  <2>6. evidence.status = "cut" => fault' # "none"
    BY <2>4 DEF RunInv, CauseInv
  <2> QED
    BY <1>1, <1>2, <2>1, <2>2, <2>3, <2>4, <2>5, <2>6, Types, FailKeeps
<1> QED
  BY <1>4, <1>5 DEF CommandEnds

\* The run has been taken to its end.
LEMMA FinishKeeps ==
  ASSUME RunInv, Finish
  PROVE  RunInv'
<1> USE DEF chosen, cancel, recorded, outcome
<1>1. /\ result = "none" /\ live = "none" /\ todo = <<>> /\ result' = "ok" /\ depth' = 0
      /\ code' = IF first = 0 THEN CompletionCode ELSE 128 + first
      /\ UNCHANGED <<req, backend, todo, first, signals, cause, cached, files, live, shield, rec,
                     snapshot, evidence, fault>>
  BY DEF Finish
<1>2. files["run"] = "new" /\ evidence.status # "cut"
  <2>1. evidence.status = "cut" => \E s \in After(<<>>, 0) : s[1] = "outcome"
    BY <1>1 DEF RunInv, CauseInv
  <2>2. After(<<>>, 0) = {}
    BY EmptyOrdered
  <2>3. files["run"] = "new"
    BY <1>1 DEF RunInv, FilesInv
  <2> QED
    BY <2>1, <2>2, <2>3
<1>3. OrderInv' /\ RunningInv'
  BY <1>1, EmptyOrdered DEF OrderInv, RunningInv
<1>4. StatusCode(rec) \in 0 .. 255 /\ (StatusCode(rec) = 0 => rec = 0)
  BY Types DEF StatusCode, Statuses, SIGINT, SIGTERM, SIGKILL
<1>5. /\ code' \in 0 .. 255
      /\ code' = 0 =>
           IF backend = "bpftrace" THEN evidence.status = "exit0" \/ evidence.limited ELSE rec = 0
  <2>1. CASE first # 0
    BY <1>1, <2>1, Types
  <2>2. CASE first = 0
    <3>1. code' = CompletionCode /\ snapshot = 0
      BY <1>1, <2>2 DEF RunInv, CauseInv
    <3>2. CompletionCode =
            CASE WorkloadOutcome = "exit0" -> 0
              [] WorkloadOutcome = "exit1" -> 1
              [] WorkloadOutcome = "interrupted" -> IF rec < 0 THEN StatusCode(rec) ELSE 130
              [] WorkloadOutcome = "duration_limited" -> 0
              [] WorkloadOutcome = "incomplete" -> 1
              [] OTHER -> StatusCode(rec)
      BY <2>2, <3>1 DEF CompletionCode
    <3>3. CASE backend # "bpftrace"
      <4>1. WorkloadOutcome = "unobserved"
        BY <3>3 DEF WorkloadOutcome
      <4> QED
        BY <1>4, <3>1, <3>2, <3>3, <4>1
    <3>4. CASE backend = "bpftrace"
      <4>1. evidence.status \in {"none", "stopped", "exit0", "exit1"}
        BY <1>2, Types DEF Evidence
      <4>2. \/ WorkloadOutcome = "duration_limited" /\ evidence.limited
            \/ WorkloadOutcome = "exit0" /\ evidence.status = "exit0"
            \/ WorkloadOutcome \in {"interrupted", "incomplete", "exit1"}
        BY <3>4, <4>1 DEF WorkloadOutcome
      <4>3. rec < 0 => StatusCode(rec) # 0
        BY <1>4
      <4> QED
        BY <1>4, <3>1, <3>2, <3>4, <4>2, <4>3
    <3> QED
      BY <3>3, <3>4
  <2> QED
    BY <2>1, <2>2
<1>6. FilesInv'
  <2>1. TypeOK'
    BY <1>1, <1>5 DEF RunInv, FilesInv, ArtifactsTruthful, TypeOK
  <2>2. ManifestTruthful'
    BY <1>1 DEF RunInv, FilesInv, ArtifactsTruthful, ManifestTruthful, Listed
  <2> QED
    BY <1>1, <1>2, <2>1, <2>2 DEF FilesInv, ArtifactsTruthful, FailureHidden
<1>7. CauseInv'
  BY <1>1, <1>2, <1>5 DEF RunInv, CauseInv, Finalized, ExitHonest
<1> QED
  BY <1>3, <1>6, <1>7 DEF RunInv

-----------------------------------------------------------------------------
(* The theorems.                                                             *)

\* An invocation starts in order, whatever an earlier run has left.
LEMMA RunInit == RequestsAssumption /\ SignalsAssumption /\ Init => RunInv
<1> SUFFICES ASSUME RequestsAssumption, SignalsAssumption, Init PROVE RunInv
  OBVIOUS
<1>1. req \in AllRequests
  BY DEF Init, RequestsAssumption
<1>2. PlanInv(todo, backend) /\ todo[1][1] = "prepare"
  BY <1>1, InvocationOrdered DEF Init
<1>3. todo \in Seq(Steps) /\ todo # <<>> /\ Head(todo)[1] = "prepare"
  <2>1. todo \in Seq(Steps) /\ todo # <<>>
    BY <1>2 DEF PlanInv, Ordered
  <2> QED
    BY <1>2, <2>1, HeadTailProperties
<1>4. OrderInv /\ RunningInv
  BY <1>2 DEF Init, PlanInv, OrderInv, RunningInv
<1>5. files \in [Artifacts -> {"none", "old"}] /\ files["run"] # "new"
  BY DEF Init, Artifacts
<1>6. FilesInv
  <2>1. TypeOK
    <3>1. backend \in Backends \cup {"none"}
      BY <1>1 DEF Init, AllRequests
    <3>2. evidence \in Evidence
      BY DEF Init, Evidence, NoEvidence
    <3>3. files \in [Artifacts -> {"none", "old", "new", "cut", "error"}]
      BY <1>5
    <3>4. todo \in Seq(Steps) /\ cached \subseteq Tools /\ req \in Requests
      BY <1>3 DEF Init
    <3>5. signals \in 0 .. MaxSignals /\ rec \in Statuses
      BY DEF Init, SignalsAssumption, Statuses
    <3>6. /\ live = "none" /\ shield = FALSE /\ first = 0 /\ cause = "none" /\ depth = 0
          /\ snapshot = 0 /\ result = "none" /\ code = 0 /\ fault = "none"
      BY DEF Init
    <3>7. shield \in BOOLEAN
      BY <3>6
    <3> QED
      BY <3>1, <3>2, <3>3, <3>4, <3>5, <3>6, <3>7 DEF TypeOK
  <2>2. \A a \in Required(backend) : \E s \in After(todo, 0) : Provides(s, a)
    BY <1>2 DEF PlanInv
  <2> QED
    BY <1>3, <1>5, <2>1, <2>2
    DEF Init, FilesInv, ArtifactsTruthful, ManifestTruthful, FailureHidden
<1>7. CauseInv
  BY DEF Init, CauseInv, NoEvidence, Finalized, ExitHonest
<1> QED
  BY <1>4, <1>6, <1>7 DEF RunInv

\* Every step of a run, and every signal.
LEMMA RunNext ==
  RequestsAssumption /\ SignalsAssumption /\ RunInv /\ [Next]_vars => RunInv'
<1> SUFFICES ASSUME RequestsAssumption, SignalsAssumption, RunInv, [Next]_vars PROVE RunInv'
  OBVIOUS
<1>1. CASE UNCHANGED vars
  <2>1. UNCHANGED <<req, backend, todo, first, signals, depth, cached, files, live, shield, rec,
                    snapshot, evidence, result, code, cause, fault>>
    BY <1>1 DEF vars
  <2>2. OrderInv' /\ RunningInv'
    BY <2>1 DEF RunInv, OrderInv, RunningInv
  <2>3. ArtifactsTruthful' /\ Finalized' /\ ExitHonest'
    BY <2>1 DEF RunInv, FilesInv, CauseInv, ArtifactsTruthful, TypeOK, ManifestTruthful, Listed,
                FailureHidden, Finalized, ExitHonest
  <2>4. FilesInv'
    BY <2>1, <2>3 DEF RunInv, FilesInv
  <2>5. CauseInv'
    <3>1. Orderly(backend, rec) => Orderly(backend, rec)'
      BY <2>1 DEF Orderly
    <3> QED
      BY <2>1, <2>3, <3>1 DEF RunInv, CauseInv
  <2> QED
    BY <2>2, <2>4, <2>5 DEF RunInv
<1> QED
  BY <1>1, SignalKeeps, PrepareKeeps, LookKeeps, ResolveKeeps, ProbeKeeps, RecordKeeps,
     RecorderEndsKeeps, FinalizeKeeps, CommandStartsKeeps, CommandEndsKeeps, FileKeeps,
     FinishKeeps
  DEF Next

\* When the recorder starts, what its recording needs has been found.
LEMMA RunPrepared == RunInv => RecordingPrepared
<1> SUFFICES ASSUME RunInv, live = "recorder" PROVE RecordingPrepared
  BY DEF RecordingPrepared
<1>1. result = "none" /\ todo # <<>> /\ Head(todo)[1] = "record"
  BY DEF RunInv, RunningInv
<1>2. \A a \in Artifacts : files[a] # "old"
  BY <1>1 DEF RunInv, FilesInv
<1>3. /\ todo \in Seq(Steps) /\ DOMAIN todo = 1 .. Len(todo) /\ Len(todo) \in Nat \ {0}
      /\ todo[1][1] = "record"
  BY <1>1, TodoFacts, TailFacts
<1>4. ASSUME NEW j \in 1 .. Len(todo), todo[j][1] = "command"
      PROVE  todo[j][2] \in cached
  <2>1. 1 \in DOMAIN todo /\ j \in DOMAIN todo /\ 1 < j
    BY <1>3, <1>4
  <2>2. 1 .. 1 - 1 = {}
    OBVIOUS
  <2>3. ToolsFound(todo, cached)
    BY DEF RunInv, OrderInv
  <2>4. todo[j][2] \in cached \/ \E i \in 1 .. 1 - 1 : todo[i] = <<"resolve", todo[j][2]>>
    BY <1>3, <1>4, <2>1, <2>3, Zenon DEF ToolsFound
  <2> QED
    BY <2>2, <2>4
<1>5. ToolsNeeded \subseteq cached
  BY <1>4 DEF ToolsNeeded
<1> QED
  BY <1>2, <1>5 DEF RecordingPrepared

\* What a run leaves in its directory is true, however it ends: the manifest
\* names only complete files of this run, and nothing of an earlier run passes for
\* the result of a failed one.
THEOREM ArtifactsAreTrue ==
  ASSUME RequestsAssumption, SignalsAssumption
  PROVE  Spec => []ArtifactsTruthful
<1>1. Init => RunInv
  BY RunInit
<1>2. RunInv /\ [Next]_vars => RunInv'
  BY RunNext
<1>3. RunInv => ArtifactsTruthful
  BY DEF RunInv, FilesInv
<1> QED
  BY <1>1, <1>2, <1>3, PTL DEF Spec

\* When the workload starts, the directory is clear and the tools that finalize
\* the recording have been found.
THEOREM RecordingIsPrepared ==
  ASSUME RequestsAssumption, SignalsAssumption
  PROVE  Spec => []RecordingPrepared
<1>1. Init => RunInv
  BY RunInit
<1>2. RunInv /\ [Next]_vars => RunInv'
  BY RunNext
<1> QED
  BY <1>1, <1>2, RunPrepared, PTL DEF Spec

\* One signal that stops the recorder does not cost the recording.
THEOREM StoppedIsFinalized ==
  ASSUME RequestsAssumption, SignalsAssumption
  PROVE  Spec => []Finalized
<1>1. Init => RunInv
  BY RunInit
<1>2. RunInv /\ [Next]_vars => RunInv'
  BY RunNext
<1>3. RunInv => Finalized
  BY DEF RunInv, CauseInv
<1> QED
  BY <1>1, <1>2, <1>3, PTL DEF Spec

\* Exit code 0 means a manifest, and evidence that the workload succeeded or was
\* meant to be stopped.
THEOREM ExitIsHonest ==
  ASSUME RequestsAssumption, SignalsAssumption
  PROVE  Spec => []ExitHonest
<1>1. Init => RunInv
  BY RunInit
<1>2. RunInv /\ [Next]_vars => RunInv'
  BY RunNext
<1>3. RunInv => ExitHonest
  BY DEF RunInv, CauseInv
<1> QED
  BY <1>1, <1>2, <1>3, PTL DEF Spec
============================================================================
