---------------------------- MODULE ProfileRun ----------------------------
(***************************************************************************)
(* One profile run (lib.rs run_profile_invocation and the backends'        *)
(* `profile` functions): clear the output directory, choose a recorder,    *)
(* resolve the tools, record, finalize, write the artifacts, run.json      *)
(* last.  Every backend is a sequence of steps (PlanOf); a step may fail   *)
(* and every `?` ends the run.  Signals arrive between any two steps and   *)
(* while a command runs.  What a command does inside is ProcessRunner's    *)
(* subject; here it starts, unless it is refused, and ends with a status.  *)
(***************************************************************************)
EXTENDS Integers, Sequences, FiniteSets

CONSTANTS
    Requests,    \* what the command line may ask for, a subset of AllRequests
    MaxSignals   \* how many signals the user sends

Backends == {"perf", "heaptrack", "strace", "sched", "bpftrace", "xctrace"}

\* `misfit`: an attach target or an off-CPU method that the profiler does not
\* take; `inferno`: the renderer that runs a tool (flamegraph.rs:71).
AllRequests == [backend : Backends \cup {"auto"}, misfit : BOOLEAN,
                cargo : BOOLEAN, inferno : BOOLEAN]

RequestsAssumption == Requests \subseteq AllRequests
SignalsAssumption == MaxSignals \in Nat

SIGINT == 2
SIGTERM == 15
SIGKILL == 9

\* Exit statuses as CommandOutput reports them: -n for death by signal n.
Statuses == {0, 1, 130, 143, -SIGINT, -SIGTERM, -SIGKILL}

\* The files of an output directory.  "logs" stands for stdout.log and
\* stderr.log, "summary" for summary.txt and summary.json.
Artifacts == {"raw", "xml", "pid", "command", "logs", "stacks", "flamegraph",
              "summary", "errors", "run"}

\* What a profile may look for, and the steps it is made of: <<op, arg>>.
Tools == {"perf", "inferno", "heaptrack", "heaptrack_print", "strace", "bpftrace", "xctrace"}
Ops == {"prepare", "accept", "try", "resolve", "probe", "record", "check", "finalize",
        "command", "read", "write", "render", "nonempty", "outcome"}
Steps == Ops \X ({"-", "cargo"} \cup Tools \cup Artifacts)

VARIABLES
    req,       \* the request
    backend,   \* the backend chosen for it, "none" before
    todo,      \* the steps left
    first,     \* State.first: the first signal, 0 for none
    signals,   \* State.signals
    depth,     \* FINALIZING
    cached,    \* tools in the resolver's cache
    files,     \* content of each artifact
    live,      \* the command that runs: "none", "recorder" or a tool
    shield,    \* finalizing_after_cancellation of the command that runs
    rec,       \* status of the recorder
    snapshot,  \* the cancellation seen when the recorder returned
    evidence,  \* what bpftrace's supervisor and data file say
    result,    \* "none", "ok" or "err"
    code,      \* exit code of the process
    cause,     \* history: when the first signal came
    fault      \* history: what outside the program went wrong

vars == <<req, backend, todo, first, signals, depth, cached, files, live, shield,
          rec, snapshot, evidence, result, code, cause, fault>>

cancel == <<first, signals, cause>>
chosen == <<req, backend>>
recorded == <<rec, snapshot, evidence>>
outcome == <<result, code>>

\* The status file of the supervisor: absent, "stopped", cut off by a kill
\* between its creation and its content, or an exit code.
NoEvidence == [status |-> "none", limited |-> FALSE, stacks |-> FALSE]
Evidence == [status : {"none", "stopped", "cut", "exit0", "exit1"},
             limited : BOOLEAN, stacks : BOOLEAN]

----------------------------------------------------------------------------
(* The steps of each backend, in the order of its `profile` function.       *)

Step(op) == <<op, "-">>
Resolve(tool) == <<"resolve", tool>>
Write(artifact) == <<"write", artifact>>

PerfPlan ==
    <<Step("prepare"), Resolve("perf"), Step("try"), Step("record"), Step("check"),
      Step("finalize"), <<"read", "raw">>, Write("stacks"), <<"render", "flamegraph">>,
      Write("logs"), Write("command"), Write("summary"), Write("errors"), Write("run")>>

\* With the renderer that runs a tool.
InfernoPlan ==
    <<Step("prepare"), Resolve("perf"), Resolve("inferno"), Step("try"), Step("record"),
      Step("check"), Step("finalize"), <<"read", "raw">>, Write("stacks"),
      <<"command", "inferno">>, <<"render", "flamegraph">>,
      Write("logs"), Write("command"), Write("summary"), Write("errors"), Write("run")>>

\* Mutant: the tool that prints the recording is looked for when it is needed.
HeaptrackLate ==
    <<Step("try"), Step("prepare"), Resolve("heaptrack"), Step("record"), Write("logs"),
      Write("command"), Step("check"), <<"command", "heaptrack_print">>,
      Write("summary"), Write("errors"), Write("run")>>

HeaptrackPlan ==
    <<Step("try"), Step("prepare"), Resolve("heaptrack"), Resolve("heaptrack_print"),
      Step("record"), Write("logs"), Write("command"), Step("check"),
      <<"command", "heaptrack_print">>, Write("summary"), Write("errors"), Write("run")>>

\* Mutant: the manifest is written once the recording is known to be good.
StraceManifestFirst ==
    <<Step("try"), Step("prepare"), Resolve("strace"), Step("record"), Write("logs"),
      Write("command"), Step("check"), <<"read", "raw">>,
      Write("run"), Write("summary"), Write("errors")>>

StracePlan ==
    <<Step("try"), Step("prepare"), Resolve("strace"), Step("record"), Write("logs"),
      Write("command"), Step("check"), <<"read", "raw">>,
      Write("summary"), Write("errors"), Write("run")>>

SchedPlan ==
    <<Step("try"), Step("prepare"), Resolve("perf"), Write("command"), Step("record"),
      Step("check"), <<"read", "pid">>, <<"command", "perf">>,
      Write("logs"), Write("summary"), Write("errors"), Write("run")>>

BpftracePlan ==
    <<Step("try"), Step("prepare"), Resolve("bpftrace"), Write("command"), Step("try"),
      Step("record"), Step("check"), Write("logs"), Step("try"), Write("raw"),
      Step("outcome"), Write("logs"), Write("summary"), Write("stacks"),
      <<"nonempty", "flamegraph">>, Write("errors"), Write("run")>>

XctracePlan ==
    <<Step("prepare"), Step("try"), Resolve("xctrace"), Step("record"), Write("logs"),
      Write("command"), Step("check"), <<"command", "xctrace">>, <<"read", "pid">>,
      <<"read", "xml">>, Write("summary"), Write("errors"), Write("run")>>

PlanOf(b, inferno) ==
    CASE b = "perf" -> IF inferno THEN InfernoPlan ELSE PerfPlan
      [] b = "heaptrack" -> HeaptrackPlan
      [] b = "strace" -> StracePlan
      [] b = "sched" -> SchedPlan
      [] b = "bpftrace" -> BpftracePlan
      [] b = "xctrace" -> XctracePlan

\* The Cargo wrapper clears the directory before it builds the target.
CargoPlan == <<Step("prepare"), Step("try"), <<"command", "cargo">>>>

InvocationPlan(r) ==
    (IF r.cargo THEN CargoPlan ELSE <<>>)
    \o <<Step("prepare"), Step("accept")>>
    \o (IF r.backend = "auto" THEN <<<<"probe", "perf">>>>
        ELSE PlanOf(r.backend, r.inferno))

----------------------------------------------------------------------------
(* Cancellation.                                                            *)

\* Recording is never permitted after a cancellation, preparation only inside
\* a FinalizationScope, finalization always.
PermitsFinalization(purpose) ==
    CASE purpose = "recording" -> FALSE
      [] purpose = "preparation" -> depth > 0
      [] purpose = "finalization" -> TRUE

\* check_cancellation refuses to start the command.
Refused(purpose) ==
    first # 0 /\ (~PermitsFinalization(purpose) \/ signals > 1)

PurposeOf(tool) ==
    IF tool \in {"cargo", "inferno"} THEN "preparation" ELSE "finalization"

----------------------------------------------------------------------------
Init ==
    /\ req \in Requests
    /\ backend = IF req.backend = "auto" THEN "none" ELSE req.backend
    /\ todo = InvocationPlan(req)
    /\ first = 0 /\ signals = 0 /\ cause = "none"
    /\ depth = 0
    /\ cached = {}
    /\ files \in {[a \in Artifacts |-> "none"], [a \in Artifacts |-> "old"]}
    /\ live = "none" /\ shield = FALSE
    /\ rec = 0 /\ snapshot = 0 /\ evidence = NoEvidence
    /\ result = "none" /\ code = 0
    /\ fault = "none"

\* The next step of the run is <<op, arg>>, and nothing runs meanwhile.
At(op) == result = "none" /\ live = "none" /\ todo # <<>> /\ Head(todo)[1] = op
Arg == Head(todo)[2]

Proceed == todo' = Tail(todo) /\ UNCHANGED <<outcome, depth>>

\* `?`: scopes are dropped, main reports the error.
Fail ==
    /\ result' = "err"
    /\ code' = IF first = 0 THEN 1 ELSE 128 + first
    /\ depth' = 0
    /\ todo' = <<>>

\* The handler: first keeps the first signal, every signal is counted.
Signal ==
    /\ signals < MaxSignals /\ result = "none"
    /\ \E s \in {SIGINT, SIGTERM} : first' = IF first = 0 THEN s ELSE first
    /\ signals' = signals + 1
    /\ cause' = IF first # 0 THEN cause
                ELSE IF live = "recorder" THEN "recording" ELSE "elsewhere"
    /\ UNCHANGED <<chosen, todo, depth, cached, files, live, shield, recorded, outcome, fault>>

\* ArtifactLayout::prepare, which may stop half-way at a file it cannot remove.
Prepare ==
    /\ At("prepare")
    /\ \/ /\ files' = [a \in Artifacts |-> "none"]
          /\ Proceed /\ UNCHANGED fault
       \/ /\ \E gone \in SUBSET {"run", "summary"} :
                 files' = [a \in Artifacts |-> IF a \in gone THEN "none" ELSE files[a]]
          /\ fault' = "prepare"
          /\ Fail
    /\ UNCHANGED <<chosen, cancel, cached, live, shield, recorded>>

\* run_profile_invocation rejects what the profiler does not take.
Accept ==
    /\ At("accept")
    /\ IF req.misfit THEN Fail ELSE Proceed
    /\ UNCHANGED <<chosen, cancel, cached, files, live, shield, recorded, fault>>

\* A check of the request or a local operation that fails or does not: the
\* thread list, the supported controls, the target of the Cargo package.
Try ==
    /\ At("try")
    /\ \/ Proceed /\ UNCHANGED fault
       \/ Fail /\ fault' = "other"
    /\ UNCHANGED <<chosen, cancel, cached, files, live, shield, recorded>>

\* A tool in the cache is not probed again; a probe is a preparation command.
ResolveTool ==
    /\ At("resolve")
    /\ \/ /\ Arg \in cached \/ ~Refused("preparation")
          /\ cached' = cached \cup {Arg}
          /\ Proceed /\ UNCHANGED fault
       \/ /\ Arg \notin cached
          /\ Fail /\ fault' = "other" /\ UNCHANGED cached
    /\ UNCHANGED <<chosen, cancel, files, live, shield, recorded>>

\* probe_perf_sched, then probe_bpftrace_offcpu when that fails.
Probe ==
    /\ At("probe")
    /\ \/ /\ ~Refused("preparation")
          /\ LET b == IF Arg = "perf" THEN "sched" ELSE "bpftrace"
             IN /\ backend' = b
                /\ todo' = Tail(todo) \o PlanOf(b, FALSE)
          /\ cached' = cached \cup {Arg}
          /\ UNCHANGED <<outcome, depth, fault>>
       \/ /\ Arg = "perf"
          /\ todo' = <<<<"probe", "bpftrace">>>>
          /\ cached' \in {cached, cached \cup {"perf"}}
          /\ UNCHANGED <<backend, outcome, depth, fault>>
       \/ /\ Arg = "bpftrace"
          /\ Fail /\ fault' = "other"
          /\ UNCHANGED <<backend, cached>>
    /\ UNCHANGED <<req, cancel, files, live, shield, recorded>>

\* runner.run of the recording command.
Record ==
    /\ At("record")
    /\ \/ /\ ~Refused("recording")
          /\ live' = "recorder" /\ shield' = FALSE
          /\ UNCHANGED <<todo, outcome, depth, fault>>
       \/ /\ Refused("recording")
          /\ Fail
          /\ UNCHANGED <<live, shield, fault>>
       \/ /\ Fail /\ fault' = "other"   \* it cannot be spawned
          /\ UNCHANGED <<live, shield>>
    /\ UNCHANGED <<chosen, cancel, cached, files, recorded>>

\* How a recorder that honours the forwarded signal ends: perf and strace die
\* of it, heaptrack's script reports 128 + n, bpftrace and xctrace stop.
Orderly(b, s) ==
    \/ s = 0
    \/ first # 0 /\ b \in {"perf", "strace", "sched"} /\ s = -first
    \/ first # 0 /\ b = "heaptrack" /\ s = 128 + first

\* What the recorder leaves: bpftrace's raw profile is written by the backend,
\* the PID file by the launched shell.
Produced(b) ==
    IF b = "bpftrace" THEN {} ELSE {"raw"} \cup (IF b \in {"sched", "xctrace"} THEN {"pid"} ELSE {})

RecorderEnds ==
    /\ live = "recorder"
    /\ \E s \in Statuses, made \in SUBSET Produced(backend), e \in Evidence :
          /\ backend # "bpftrace" => e = NoEvidence
          /\ rec' = s
          /\ evidence' = e
          /\ files' = [a \in Artifacts |-> IF a \in made THEN "new" ELSE files[a]]
          /\ fault' = IF Orderly(backend, s) /\ made = Produced(backend) /\ e.status # "cut"
                      THEN fault ELSE "other"
    /\ snapshot' = first
    /\ live' = "none"
    /\ Proceed
    /\ UNCHANGED <<chosen, cancel, cached, shield>>

SucceededOrInterrupted(s) == s \in {0, -SIGINT, -SIGTERM}

\* matching_parent_cancellation of the heaptrack backend.
MatchingCancellation == snapshot # 0 /\ rec = 128 + snapshot

\* Whether the backend goes on after its recorder's status.
Acceptable ==
    CASE backend = "heaptrack" -> SucceededOrInterrupted(rec) \/ MatchingCancellation
      [] backend = "bpftrace" -> SucceededOrInterrupted(rec) \/ snapshot # 0
      [] backend = "xctrace" -> rec = 0
      [] OTHER -> SucceededOrInterrupted(rec)

\* The logs and the reason are written before the error is returned.
FailLogged ==
    /\ files' = [files EXCEPT !["logs"] = "new", !["errors"] = "error"]
    /\ Fail

Check ==
    /\ At("check")
    /\ IF Acceptable THEN Proceed /\ UNCHANGED files ELSE FailLogged
    /\ UNCHANGED <<chosen, cancel, cached, live, shield, recorded, fault>>

\* FinalizationScope::enter; dropped when `profile` returns.
Finalize ==
    /\ At("finalize")
    /\ depth' = depth + 1
    /\ todo' = Tail(todo)
    /\ UNCHANGED <<chosen, cancel, cached, files, live, shield, recorded, outcome, fault>>

\* Mutant: every cancellation is forwarded.
CommandUnshielded ==
    /\ At("command")
    /\ IF Refused(PurposeOf(Arg))
       THEN Fail /\ UNCHANGED <<live, shield>>
       ELSE /\ live' = Arg /\ shield' = FALSE
            /\ UNCHANGED <<todo, outcome, depth>>
    /\ UNCHANGED <<chosen, cancel, cached, files, recorded, fault>>

\* A post-processing tool or the Cargo build starts.  A cancellation that is
\* older than the command is not forwarded to it.
CommandStarts ==
    /\ At("command")
    /\ IF Refused(PurposeOf(Arg))
       THEN Fail /\ UNCHANGED <<live, shield>>
       ELSE /\ live' = Arg
            /\ shield' = (PermitsFinalization(PurposeOf(Arg)) /\ first # 0)
            /\ UNCHANGED <<todo, outcome, depth>>
    /\ UNCHANGED <<chosen, cancel, cached, files, recorded, fault>>

\* It needs the recording, and it dies of a signal forwarded to it, or fails.
CommandEnds ==
    /\ live \notin {"none", "recorder"}
    /\ \/ /\ live \in {"heaptrack_print", "perf", "xctrace"} => files["raw"] = "new"
          /\ files' = IF live = "xctrace" THEN [files EXCEPT !["xml"] = "new"] ELSE files
          /\ Proceed /\ UNCHANGED fault
       \/ /\ CASE live = "cargo" -> Fail /\ UNCHANGED files
               [] live = "inferno" -> files' = [files EXCEPT !["errors"] = "error"] /\ Fail
               [] OTHER -> FailLogged
          /\ fault' = IF (first # 0 /\ ~shield) \/ signals > 1 THEN fault ELSE "other"
    /\ live' = "none"
    /\ UNCHANGED <<chosen, cancel, cached, shield, recorded>>

\* Reading the recording, the PID file or the export.
Read ==
    /\ At("read")
    /\ \/ files[Arg] \in {"new", "old"} /\ Proceed /\ UNCHANGED fault
       \/ Fail /\ fault' = "other"
    /\ UNCHANGED <<chosen, cancel, cached, files, live, shield, recorded>>

\* std::fs::write; a failed one leaves a cut file.
WriteArtifact ==
    /\ At("write")
    /\ \/ files' = [files EXCEPT ![Arg] = "new"] /\ Proceed /\ UNCHANGED fault
       \/ files' = [files EXCEPT ![Arg] = "cut"] /\ Fail /\ fault' = "other"
    /\ UNCHANGED <<chosen, cancel, cached, live, shield, recorded>>

\* The flamegraph of a CPU profile; an error is noted in tool-errors.log.
Render ==
    /\ At("render")
    /\ \/ files' = [files EXCEPT ![Arg] = "new"] /\ Proceed /\ UNCHANGED fault
       \/ files' = [files EXCEPT !["errors"] = "error"] /\ Fail /\ fault' = "other"
    /\ UNCHANGED <<chosen, cancel, cached, live, shield, recorded>>

\* The flamegraph of blocked time, only when there are stacks.
RenderNonempty ==
    /\ At("nonempty")
    /\ \/ /\ files' = IF evidence.stacks THEN [files EXCEPT ![Arg] = "new"] ELSE files
          /\ Proceed /\ UNCHANGED fault
       \/ evidence.stacks /\ Fail /\ fault' = "other" /\ UNCHANGED files
    /\ UNCHANGED <<chosen, cancel, cached, live, shield, recorded>>

\* Mutant: without a status file the recorder's status stands for the workload's.
OutcomeInferred ==
    IF backend = "bpftrace" /\ evidence.status = "none" THEN "unobserved"
    ELSE IF evidence.status = "stopped" THEN "interrupted"
    ELSE IF evidence.status = "cut" THEN "invalid" ELSE evidence.status

\* profile_with_bpftrace: WorkloadOutcome from the status file, the data and
\* the cancellation; backends without a supervisor leave it unobserved.
WorkloadOutcome ==
    IF backend # "bpftrace" THEN "unobserved"
    ELSE CASE evidence.status = "stopped" ->
                IF evidence.limited /\ snapshot = 0 THEN "duration_limited" ELSE "interrupted"
           [] evidence.status \in {"exit0", "exit1"} -> evidence.status
           [] evidence.status = "cut" -> "invalid"
           [] OTHER ->
                IF snapshot # 0 THEN "interrupted"
                ELSE IF evidence.limited THEN "duration_limited"
                ELSE IF rec \in {-SIGINT, -SIGTERM} THEN "interrupted" ELSE "incomplete"

Outcome ==
    /\ At("outcome")
    /\ IF WorkloadOutcome = "invalid" THEN FailLogged ELSE Proceed /\ UNCHANGED files
    /\ UNCHANGED <<chosen, cancel, cached, live, shield, recorded, fault>>

StatusCode(s) == IF s < 0 THEN 128 - s ELSE s

\* ProfileCompletion::exit_code; bpftrace's completion holds the snapshot.
CompletionCode ==
    LET signal == IF backend = "bpftrace" THEN snapshot ELSE first
    IN IF signal # 0 THEN 128 + signal
       ELSE CASE WorkloadOutcome = "exit0" -> 0
              [] WorkloadOutcome = "exit1" -> 1
              [] WorkloadOutcome = "interrupted" -> IF rec < 0 THEN StatusCode(rec) ELSE 130
              [] WorkloadOutcome = "duration_limited" -> 0
              [] WorkloadOutcome = "incomplete" -> 1
              [] OTHER -> StatusCode(rec)

\* `profile` returns; run_parsed_cli and main let the cancellation decide.
Finish ==
    /\ result = "none" /\ live = "none" /\ todo = <<>>
    /\ result' = "ok"
    /\ code' = IF first = 0 THEN CompletionCode ELSE 128 + first
    /\ depth' = 0
    /\ UNCHANGED <<chosen, todo, cancel, cached, files, live, shield, recorded, fault>>

Next ==
    \/ Signal \/ Prepare \/ Accept \/ Try \/ ResolveTool \/ Probe \/ Record
    \/ RecorderEnds \/ Check \/ Finalize \/ CommandStarts \/ CommandEnds
    \/ Read \/ WriteArtifact \/ Render \/ RenderNonempty \/ Outcome \/ Finish

Spec == Init /\ [][Next]_vars

----------------------------------------------------------------------------
(* Properties.                                                              *)

\* Type invariant; exit codes fit the u8 the code converts them to.
TypeOK ==
    /\ req \in Requests
    /\ backend \in Backends \cup {"none"}
    /\ todo \in Seq(Steps) /\ cached \subseteq Tools
    /\ live \in {"none", "recorder", "cargo"} \cup Tools /\ shield \in BOOLEAN
    /\ first \in {0, SIGINT, SIGTERM} /\ signals \in 0..MaxSignals
    /\ cause \in {"none", "recording", "elsewhere"}
    /\ depth \in 0..1
    /\ files \in [Artifacts -> {"none", "old", "new", "cut", "error"}]
    /\ rec \in Statuses /\ snapshot \in {0, SIGINT, SIGTERM} /\ evidence \in Evidence
    /\ result \in {"none", "ok", "err"} /\ code \in 0..255
    /\ fault \in {"none", "prepare", "other"}

\* The artifacts run.json names (standard_manifest_artifacts and the backend's own).
Listed ==
    {"run", "logs", "command", "summary", "errors", "raw"}
    \cup (IF backend = "perf" THEN {"stacks", "flamegraph"} ELSE {})
    \cup (IF backend = "xctrace" THEN {"xml"} ELSE {})
    \cup (IF backend = "bpftrace" THEN {"stacks"} ELSE {})
    \cup (IF backend = "bpftrace" /\ files["flamegraph"] # "none" THEN {"flamegraph"} ELSE {})

\* A run.json of this run names only complete files of this run, whatever was in
\* the directory before and wherever the run failed: it is written last, and a
\* flamegraph is named when a file of that name exists.
ManifestTruthful == files["run"] = "new" => \A a \in Listed : files[a] = "new"

\* A failed run leaves no manifest, and nothing of an earlier run can be taken
\* for its result, also when it fails before its backend starts.
FailureHidden ==
    result = "err" /\ fault # "prepare" =>
        files["run"] # "new" /\ \A a \in Artifacts : files[a] # "old"

\* What a run leaves in its directory is true, however it ends; and the variables
\* keep their types.
ArtifactsTruthful == TypeOK /\ ManifestTruthful /\ FailureHidden

ToolsNeeded == {todo[i][2] : i \in {j \in 1..Len(todo) : todo[j][1] = "command"}}

\* When the workload starts the directory is clear, so that no stale PID file or
\* recording can be read back, and every tool that finalizes the recording has
\* been found: a missing tool is not noticed only after the workload has run.
RecordingPrepared ==
    live = "recorder" =>
        ToolsNeeded \subseteq cached /\ \A a \in Artifacts : files[a] # "old"

\* One signal that stops the recorder does not cost the recording: if the
\* recorder ends as it does on that signal and nothing else fails, the run is
\* finalized and its manifest written.
Finalized ==
    result # "none" /\ cause = "recording" /\ signals = 1 /\ fault = "none" =>
        result = "ok" /\ files["run"] = "new"

\* Exit code 0 means there is a manifest, and evidence that the workload
\* succeeded or was meant to be stopped: never a missing or an unclear status.
ExitHonest ==
    result # "none" /\ code = 0 =>
        /\ files["run"] = "new"
        /\ IF backend = "bpftrace" THEN evidence.status = "exit0" \/ evidence.limited
           ELSE rec = 0

============================================================================
