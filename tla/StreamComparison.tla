--------------------------- MODULE StreamComparison ---------------------------
(***************************************************************************)
(* The streaming comparison of src/benchmarks.rs.  A thread folds          *)
(* perf.data with Pyroclast, another has inferno-collapse-perf fold the    *)
(* script that a third one exports to it; each line goes through a bounded *)
(* channel to the comparing thread and through a pipe to a flamegraph      *)
(* process, whose picture a reader hashes.                                 *)
(*                                                                         *)
(* What flows is a side's folded output, two tokens a line: its text and   *)
(* its line feed.  Chunks end anywhere.  Queues and pipes hold what their  *)
(* two ends have not both counted.  Any thread or process may fail.        *)
(* inferno-collapse-perf and inferno-flamegraph read all of their input    *)
(* before they write.  stderr, read by a thread of its own like the        *)
(* pictures, is left out.                                                  *)
(***************************************************************************)
EXTENDS Integers, Sequences, FiniteSets

CONSTANTS
  Outputs,      \* what the two sides may output: the entries of their lines
  Malformed,    \* the entry of a line without a count
  ChannelCap,   \* lines in a channel (64)
  PipeCap,      \* tokens in a pipe, and in the BufWriter before it
  Script,       \* tokens of the exported script
  Picture,      \* tokens of a picture
  MaxReported,  \* MAX_REPORTED_DIFFERENCES
  MaxFailures   \* bound on what fails

Sides == {"pyro", "inferno"}

\* Lines come sorted by stack, each stack once.
ASSUME ComparisonAssumption ==
  /\ \A n \in {ChannelCap, PipeCap, Picture} : n \in Nat \ {0}
  /\ {Script, MaxReported, MaxFailures} \subseteq Nat
  /\ Outputs \subseteq [Sides -> Seq([stack : Int, count : Int])]
  /\ \A o \in UNION {{p[s] : s \in Sides} : p \in Outputs} : \A i, j \in DOMAIN o :
       i < j /\ Malformed \notin {o[i], o[j]} => o[i].stack < o[j].stack

VARIABLES
  output,              \* of each side
  piped_script,        \* whether the script is exported through a pipe
  pc, result,          \* of each producing thread; what each returned
  given, emitted, passed,  \* tokens taken, lines sent, tokens passed to the flamegraph
  closed, stdin_open,  \* whether the sender and the flamegraph's stdin were dropped
  flamegraph, drawn, drew, hashed,  \* the processes: state, tokens read and written,
                                    \* and read by the reader
  export, exported,    \* the export thread: state, tokens written
  collapse, consumed, folded,       \* inferno-collapse-perf: state, tokens read, written
  collapse_open,       \* whether its stdout has a reader
  wants, entry, received,  \* the comparison: sides to receive from, entries at hand
  only, matches, verdict,
  failures             \* what has failed of itself

inputVars == <<output, piped_script, failures>>
sideVars == <<pc, result, given, emitted, passed, closed, stdin_open>>
pictureVars == <<flamegraph, drawn, drew, hashed>>
collapseVars == <<export, exported, collapse, consumed, folded, collapse_open>>
compareVars == <<wants, entry, received, only, matches, verdict>>
vars == <<inputVars, sideVars, pictureVars, collapseVars, compareVars>>

Length(s) == 2 * Len(output[s])

\* Mutant: the receivers outlive the comparison.
AlwaysListening == TRUE

\* The receivers live until the comparison returns.
Listening == verdict = "none"

-----------------------------------------------------------------------------
(* A producing thread: run_pyroclast_stream, run_inferno_stream.            *)

\* It returns: its locals are dropped, the sender and the pipes among them.
Returns(s, r) ==
  /\ result' = [result EXCEPT ![s] = r]
  /\ pc' = [pc EXCEPT ![s] = "done"]
  /\ closed' = [closed EXCEPT ![s] = TRUE]
  /\ stdin_open' = [stdin_open EXCEPT ![s] = FALSE]
  /\ collapse_open' = (collapse_open /\ s # "inferno")
  /\ UNCHANGED <<output, piped_script, given, emitted, passed, pictureVars,
                 export, exported, collapse, consumed, folded, compareVars>>

Return(s, r) == Returns(s, r) /\ UNCHANGED failures
MayFail == failures < MaxFailures /\ failures' = failures + 1

\* Inside thread::scope the export thread is joined first.
Fail(s) ==
  IF s = "inferno" /\ export = "writing"
  THEN /\ pc' = [pc EXCEPT ![s] = "unwind"]
       /\ UNCHANGED <<inputVars, result, given, emitted, passed, closed,
                      stdin_open, pictureVars, collapseVars, compareVars>>
  ELSE Return(s, "error")

Unwind(s) == pc[s] = "unwind" /\ export # "writing" /\ Return(s, "error")

\* The tools are resolved and started; any of it may fail.
Start(s) ==
  /\ pc[s] = "start"
  /\ \/ MayFail /\ Returns(s, "error")
     \/ /\ pc' = [pc EXCEPT ![s] = "stream"]
        /\ flamegraph' = [flamegraph EXCEPT ![s] = "reading"]
        /\ IF s = "inferno"
           THEN /\ export' = IF piped_script THEN "writing" ELSE "ok"
                /\ collapse' = "reading" /\ collapse_open' = TRUE
           ELSE UNCHANGED <<export, collapse, collapse_open>>
        /\ UNCHANGED <<inputVars, result, given, emitted, passed, closed,
                       stdin_open, drawn, drew, hashed, exported, consumed, folded,
                       compareVars>>

Progress(s) == UNCHANGED <<inputVars, result, closed, stdin_open, pictureVars,
                           collapseVars, compareVars>>
Rested(s) == emitted[s] = given[s] \div 2 /\ passed[s] = given[s]

\* The next chunk: written by the fold, or copied from collapse's stdout.
Take(s) ==
  /\ pc[s] = "stream" /\ Rested(s)
  /\ \E n \in 1 .. 3 :
       /\ given[s] + n <= IF s = "pyro" THEN Length(s) ELSE folded
       /\ given' = [given EXCEPT ![s] = @ + n]
  /\ UNCHANGED <<pc, emitted, passed>> /\ Progress(s)

\* The fold fails.
FoldFails ==
  pc["pyro"] = "stream" /\ Rested("pyro") /\ MayFail /\ Returns("pyro", "error")

\* LineChannelWriter::emit_complete_lines: the lines whose line feed has come.
Send(s) ==
  /\ pc[s] = "stream" /\ emitted[s] < given[s] \div 2
  /\ \/ ~Listening /\ Fail(s)
     \/ /\ Listening /\ emitted[s] - received[s] < ChannelCap
        /\ emitted' = [emitted EXCEPT ![s] = @ + 1]
        /\ UNCHANGED <<pc, given, passed>> /\ Progress(s)

Gone(s) == flamegraph[s] \in {"ok", "failed"}

\* TeeWriter: the chunk goes to the flamegraph after its lines were sent.
Pass(s) ==
  /\ pc[s] = "stream" /\ emitted[s] = given[s] \div 2 /\ passed[s] < given[s]
  /\ \/ Gone(s) /\ Fail(s)
     \/ /\ ~Gone(s) /\ passed[s] - drawn[s] < PipeCap
        /\ passed' = [passed EXCEPT ![s] = @ + 1]
        /\ UNCHANGED <<pc, given, emitted>> /\ Progress(s)

AtEnd(s) ==
  IF s = "pyro" THEN given[s] = Length(s)
  ELSE collapse \in {"ok", "failed"} /\ given[s] = folded

\* Mutant: collapse's exit status is not looked at.
CloseUnchecked(s) ==
  /\ pc[s] = "stream" /\ Rested(s) /\ AtEnd(s)
  /\ pc' = [pc EXCEPT ![s] = "wait"]
  /\ closed' = [closed EXCEPT ![s] = TRUE]
  /\ stdin_open' = [stdin_open EXCEPT ![s] = FALSE]
  /\ UNCHANGED <<inputVars, result, given, emitted, passed, pictureVars, collapseVars,
                 compareVars>>

\* All is flushed.  The inferno side joins the export thread and waits for
\* collapse; then the tee is dropped, and with it the sender and the flamegraph's
\* stdin.
Close(s) ==
  /\ pc[s] = "stream" /\ Rested(s) /\ AtEnd(s)
  /\ s = "inferno" => export # "writing" /\ collapse \in {"ok", "failed"}
  /\ IF s = "inferno" /\ "failed" \in {export, collapse} THEN Fail(s)
     ELSE /\ pc' = [pc EXCEPT ![s] = "wait"]
          /\ closed' = [closed EXCEPT ![s] = TRUE]
          /\ stdin_open' = [stdin_open EXCEPT ![s] = FALSE]
          /\ UNCHANGED <<inputVars, result, given, emitted, passed,
                         pictureVars, collapseVars, compareVars>>

\* finish_hashed_child: wait for the process, then join its reader.
Finish(s) ==
  /\ pc[s] = "wait" /\ Gone(s) /\ hashed[s] = drew[s]
  /\ Return(s, IF flamegraph[s] = "ok" THEN "ok" ELSE "error")

Produce(s) ==
  \/ Start(s) \/ Take(s) \/ Send(s) \/ Pass(s) \/ Close(s)
  \/ Finish(s) \/ Unwind(s)

-----------------------------------------------------------------------------
(* The processes and their helper threads.                                  *)

\* inferno-flamegraph: reads to the end of its input, draws, exits.
Draw(s) ==
  /\ \/ /\ flamegraph[s] = "reading" /\ drawn[s] < passed[s]
        /\ drawn' = [drawn EXCEPT ![s] = @ + 1] /\ UNCHANGED <<flamegraph, drew>>
     \/ /\ flamegraph[s] = "reading" /\ drawn[s] = passed[s] /\ ~stdin_open[s]
        /\ flamegraph' = [flamegraph EXCEPT ![s] = "drawing"] /\ UNCHANGED <<drawn, drew>>
     \/ /\ flamegraph[s] = "drawing" /\ drew[s] < Picture /\ drew[s] - hashed[s] < PipeCap
        /\ drew' = [drew EXCEPT ![s] = @ + 1] /\ UNCHANGED <<flamegraph, drawn>>
     \/ /\ flamegraph[s] = "drawing" /\ drew[s] = Picture
        /\ flamegraph' = [flamegraph EXCEPT ![s] = "ok"] /\ UNCHANGED <<drawn, drew>>
  /\ UNCHANGED <<inputVars, sideVars, hashed, collapseVars, compareVars>>

FlamegraphFails(s) ==
  /\ MayFail
  /\ flamegraph[s] \in {"reading", "drawing"}
  /\ flamegraph' = [flamegraph EXCEPT ![s] = "failed"]
  /\ UNCHANGED <<output, piped_script, sideVars, drawn, drew, hashed, collapseVars, compareVars>>

\* hash_reader, in its thread.
Hash(s) ==
  /\ hashed[s] < drew[s]
  /\ hashed' = [hashed EXCEPT ![s] = @ + 1]
  /\ UNCHANGED <<inputVars, sideVars, flamegraph, drawn, drew, collapseVars, compareVars>>

\* The export thread writes the script to collapse's stdin and drops it.
Export ==
  /\ export = "writing"
  /\ \/ /\ exported < Script /\ collapse = "reading" /\ exported - consumed < PipeCap
        /\ exported' = exported + 1 /\ UNCHANGED export
     \/ /\ exported < Script /\ collapse # "reading"
        /\ export' = "failed" /\ UNCHANGED exported
     \/ exported = Script /\ export' = "ok" /\ UNCHANGED exported
  /\ UNCHANGED <<inputVars, sideVars, pictureVars, collapse, consumed, folded,
                 collapse_open, compareVars>>

ExportFails ==
  /\ MayFail
  /\ export = "writing" /\ export' = "failed"
  /\ UNCHANGED <<output, piped_script, sideVars, pictureVars, exported, collapse, consumed, folded,
                 collapse_open, compareVars>>

\* inferno-collapse-perf.
Collapse ==
  /\ \/ /\ collapse = "reading" /\ consumed < exported
        /\ consumed' = consumed + 1 /\ UNCHANGED <<collapse, folded>>
     \/ /\ collapse = "reading" /\ consumed = exported /\ export # "writing"
        /\ collapse' = "folding" /\ UNCHANGED <<consumed, folded>>
     \/ /\ collapse = "folding" /\ folded < Length("inferno") /\ collapse_open
        /\ folded - given["inferno"] < PipeCap
        /\ folded' = folded + 1 /\ UNCHANGED <<collapse, consumed>>
     \/ /\ collapse = "folding" /\ folded < Length("inferno") /\ ~collapse_open
        /\ collapse' = "failed" /\ UNCHANGED <<consumed, folded>>
     \/ /\ collapse = "folding" /\ folded = Length("inferno")
        /\ collapse' = "ok" /\ UNCHANGED <<consumed, folded>>
  /\ UNCHANGED <<inputVars, sideVars, pictureVars, export, exported, collapse_open,
                 compareVars>>

CollapseFails ==
  /\ MayFail
  /\ collapse \in {"reading", "folding"} /\ collapse' = "failed"
  /\ UNCHANGED <<output, piped_script, sideVars, pictureVars, export, exported, consumed, folded,
                 collapse_open, compareVars>>

-----------------------------------------------------------------------------
(* compare_folded_line_receivers, then the join of both threads.            *)

Compares(step) ==
  step /\ UNCHANGED <<inputVars, sideVars, pictureVars, collapseVars>>

\* next_folded_entry: 0 is the end of the channel.
Receive ==
  /\ verdict = "none" /\ wants # <<>>
  /\ LET s == Head(wants) IN
       /\ \/ /\ received[s] < emitted[s]
             /\ received' = [received EXCEPT ![s] = @ + 1]
             /\ entry' = [entry EXCEPT ![s] = received'[s]]
             /\ verdict' = IF output[s][received'[s]] = Malformed THEN "error" ELSE "none"
          \/ /\ received[s] = emitted[s] /\ closed[s]
             /\ entry' = [entry EXCEPT ![s] = 0]
             /\ UNCHANGED <<received, verdict>>
       /\ wants' = Tail(wants)
  /\ UNCHANGED <<only, matches>>

Entry(s) == output[s][entry[s]]

\* record_difference
Recorded(sides) == [s \in Sides |->
  IF s \in sides /\ Cardinality(only[s]) < MaxReported THEN only[s] \cup {entry[s]} ELSE only[s]]

\* The sides whose entries the comparison is done with.
Passed ==
  LET here == {s \in Sides : entry[s] # 0}
  IN {s \in here : \A o \in here : Entry(s).stack <= Entry(o).stack}

Decide ==
  /\ verdict = "none" /\ wants = <<>> /\ \E s \in Sides : entry[s] # 0
  /\ LET differ == Passed # Sides \/ Entry("pyro").count # Entry("inferno").count
     IN /\ only' = IF differ THEN Recorded(Passed) ELSE only
        /\ matches' = (matches /\ ~differ)
  /\ wants' = IF Passed = Sides THEN <<"pyro", "inferno">>
              ELSE IF "pyro" \in Passed THEN <<"pyro">> ELSE <<"inferno">>
  /\ UNCHANGED <<entry, received, verdict>>

\* Both channels have ended: the threads are joined, and their pictures compared.
Join ==
  /\ verdict = "none" /\ wants = <<>> /\ \A s \in Sides : entry[s] = 0
  /\ \/ result["pyro"] = "error" /\ verdict' = "error" /\ UNCHANGED matches
     \/ result["pyro"] = "ok" /\ result["inferno"] = "error" /\ verdict' = "error"
        /\ UNCHANGED matches
     \/ /\ \A s \in Sides : result[s] = "ok"
        /\ verdict' = "ok"
        /\ matches' = (matches /\
             SubSeq(output["pyro"], 1, drawn["pyro"] \div 2)
               = SubSeq(output["inferno"], 1, drawn["inferno"] \div 2))
  /\ UNCHANGED <<wants, entry, received, only>>

Compare == Compares(Receive \/ Decide \/ Join)

Init ==
  /\ output \in Outputs /\ failures = 0 /\ piped_script \in BOOLEAN
  /\ pc = [s \in Sides |-> "start"] /\ result = [s \in Sides |-> "none"]
  /\ given = [s \in Sides |-> 0] /\ emitted = given /\ passed = given
  /\ closed = [s \in Sides |-> FALSE] /\ stdin_open = [s \in Sides |-> TRUE]
  /\ flamegraph = [s \in Sides |-> "none"] /\ drawn = given /\ drew = given /\ hashed = given
  /\ export = "none" /\ exported = 0 /\ collapse = "none" /\ consumed = 0 /\ folded = 0
  /\ collapse_open = FALSE
  /\ wants = <<"pyro", "inferno">> /\ entry = given /\ received = given
  /\ only = [s \in Sides |-> {}] /\ matches = TRUE /\ verdict = "none"

Fails ==
  FoldFails \/ ExportFails \/ CollapseFails \/ \E s \in Sides : FlamegraphFails(s)

Next ==
  \/ \E s \in Sides : Produce(s) \/ Draw(s) \/ Hash(s)
  \/ Export \/ Collapse \/ Compare \/ Fails

Fairness ==
  /\ \A s \in Sides : WF_vars(Produce(s)) /\ WF_vars(Draw(s)) /\ WF_vars(Hash(s))
  /\ WF_vars(Export) /\ WF_vars(Collapse) /\ WF_vars(Compare)

Spec == Init /\ [][Next]_vars /\ Fairness

-----------------------------------------------------------------------------
TypeOK ==
  /\ \A s \in Sides :
       /\ 0 <= drawn[s] /\ drawn[s] <= passed[s]
       /\ passed[s] <= given[s] /\ given[s] <= Length(s)
       /\ received[s] <= emitted[s] /\ hashed[s] <= drew[s]
       /\ result[s] \in {"none", "ok", "error"} /\ entry[s] \in 0 .. Len(output[s])
  /\ given["inferno"] <= folded /\ consumed <= exported
  /\ verdict \in {"none", "ok", "error"}

Differing(s) ==
  LET other == CHOOSE o \in Sides : o # s
  IN {i \in DOMAIN output[s] : \A j \in DOMAIN output[other] : output[other][j] # output[s][i]}

\* run_streaming_comparison_with_symbols: a report is returned only if everything
\* succeeded that it rests on, and it says the truth about the whole outputs, both
\* of their pictures drawn from all of it; an error is returned only if something
\* failed or a line was malformed.
VerdictExact ==
  /\ verdict = "ok" =>
       /\ \A s \in Sides :
            /\ received[s] = Len(output[s]) /\ drawn[s] = Length(s) /\ hashed[s] = Picture
            /\ flamegraph[s] = "ok"
            /\ Cardinality(only[s]) <= MaxReported
            /\ only[s] \subseteq Differing(s)
            /\ Cardinality(Differing(s)) <= MaxReported => only[s] = Differing(s)
       /\ matches = (output["pyro"] = output["inferno"])
       /\ export = "ok" /\ collapse = "ok"
  /\ verdict = "error" =>
       \/ \E s \in Sides : result[s] = "error"
       \/ \E s \in Sides : received[s] > 0 /\ output[s][received[s]] = Malformed

ComparisonExact == TypeOK /\ VerdictExact

\* Whatever fails, and however small the pipes are, the comparison returns and
\* both producing threads end, so that the scope of the threads can be left.
ComparisonEnds == <>(verdict # "none" /\ \A s \in Sides : result[s] # "none")
=============================================================================
