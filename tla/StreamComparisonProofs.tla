----------------------- MODULE StreamComparisonProofs -----------------------
(***************************************************************************)
(* ComparisonExact of StreamComparison, for any outputs, any capacities of *)
(* the channels and pipes, any script and picture, and any failures.       *)
(*                                                                         *)
(* Pipe follows what flows: nothing is counted at an end before it was     *)
(* counted at the other, and a thread that has dropped its sender without  *)
(* an error has passed on all of its side.  Merge is the loop invariant of *)
(* the comparison: what it is done with of either side is below all that   *)
(* it is not done with of the other, so that a difference which is         *)
(* recorded is one of the whole outputs.  Merge is claimed only while no   *)
(* thread has failed: the channel of a thread that fails ends early, and   *)
(* what the comparison makes of that is never reported.                    *)
(***************************************************************************)
EXTENDS StreamComparison, FiniteSetTheorems, SequenceTheorems, TLAPS

\* The values the variables take; the counts are bounded by what follows.
Types ==
  /\ output \in Outputs
  /\ pc \in [Sides -> {"start", "stream", "unwind", "wait", "done"}]
  /\ result \in [Sides -> {"none", "ok", "error"}]
  /\ given \in [Sides -> Nat] /\ emitted \in [Sides -> Nat] /\ passed \in [Sides -> Nat]
  /\ closed \in [Sides -> BOOLEAN] /\ stdin_open \in [Sides -> BOOLEAN]
  /\ flamegraph \in [Sides -> {"none", "reading", "drawing", "ok", "failed"}]
  /\ drawn \in [Sides -> Nat] /\ drew \in [Sides -> Nat] /\ hashed \in [Sides -> Nat]
  /\ export \in {"none", "writing", "ok", "failed"}
  /\ collapse \in {"none", "reading", "folding", "ok", "failed"}
  /\ exported \in Nat /\ consumed \in Nat /\ folded \in Nat
  /\ collapse_open \in BOOLEAN

\* What an end has counted, the other end has counted before.
Counted(s) ==
  /\ drawn[s] <= passed[s] /\ passed[s] <= given[s] /\ given[s] <= Length(s)
  /\ emitted[s] + emitted[s] <= given[s]
  /\ hashed[s] <= drew[s] /\ drew[s] <= Picture

\* The entries that inferno-collapse has written were in the script.
Folded ==
  given["inferno"] <= folded /\ folded <= Length("inferno") /\ consumed <= exported

Flow == Folded /\ \A s \in Sides : Counted(s)

\* All of a side has been passed on, and what made it has not failed.
Whole(s) ==
  /\ given[s] = Length(s) /\ passed[s] = Length(s) /\ emitted[s] = Len(output[s])
  /\ s = "inferno" => export = "ok" /\ collapse = "ok"

\* How far a thread and its flamegraph have come, and what that means.
Stage(s) ==
  /\ pc[s] = "done" <=> result[s] # "none"
  /\ closed[s] <=> pc[s] \in {"wait", "done"}
  /\ stdin_open[s] <=> pc[s] \notin {"wait", "done"}
  /\ pc[s] = "start" => flamegraph[s] = "none"
  /\ flamegraph[s] \in {"drawing", "ok"} => drawn[s] = passed[s] /\ closed[s]
  /\ flamegraph[s] = "ok" => drew[s] = Picture
  /\ pc[s] = "wait" \/ result[s] = "ok" => Whole(s)
  /\ result[s] = "ok" => flamegraph[s] = "ok" /\ hashed[s] = drew[s]

Stages ==
  /\ \A s \in Sides : Stage(s)
  /\ pc["inferno"] \in {"stream", "unwind"} => export # "none"
  /\ collapse = "ok" => folded = Length("inferno")

Pipe == Types /\ Flow /\ Stages

-----------------------------------------------------------------------------
(* The threads, the pipes and the processes.                                *)

\* The outputs are sequences of entries, in the order of their stacks.
LEMMA OutputTypes ==
  ASSUME output \in Outputs, NEW s \in Sides
  PROVE  /\ output[s] \in Seq([stack : Int, count : Int])
         /\ Len(output[s]) \in Nat /\ DOMAIN output[s] = 1 .. Len(output[s])
         /\ \A i \in 1 .. Len(output[s]) : output[s][i] \in [stack : Int, count : Int]
         /\ \A i, j \in 1 .. Len(output[s]) :
              i < j /\ Malformed \notin {output[s][i], output[s][j]}
                => output[s][i].stack < output[s][j].stack
<1>1. output \in [Sides -> Seq([stack : Int, count : Int])]
  BY ComparisonAssumption
<1>2. output[s] \in Seq([stack : Int, count : Int])
  BY <1>1
<1>3. /\ Len(output[s]) \in Nat /\ DOMAIN output[s] = 1 .. Len(output[s])
      /\ \A i \in 1 .. Len(output[s]) : output[s][i] \in [stack : Int, count : Int]
  BY <1>2, LenProperties, ElementOfSeq
<1>4. output[s] \in UNION {{p[q] : q \in Sides} : p \in Outputs}
  BY <1>1
<1>5. \A i, j \in DOMAIN output[s] :
        i < j /\ Malformed \notin {output[s][i], output[s][j]}
          => output[s][i].stack < output[s][j].stack
  BY <1>4, ComparisonAssumption
<1> QED
  BY <1>2, <1>3, <1>5

\* What the comparison counts are natural numbers.
LEMMA Numbers ==
  ASSUME Types
  PROVE  /\ Picture \in Nat /\ Script \in Nat
         /\ "pyro" \in Sides /\ "inferno" \in Sides
         /\ \A s \in Sides : /\ Len(output[s]) \in Nat /\ Length(s) \in Nat
                            /\ given[s] \in Nat /\ emitted[s] \in Nat /\ passed[s] \in Nat
                            /\ drawn[s] \in Nat /\ drew[s] \in Nat /\ hashed[s] \in Nat
<1>1. Picture \in Nat /\ Script \in Nat
  BY ComparisonAssumption
<1>2. \A s \in Sides : Len(output[s]) \in Nat
  BY OutputTypes DEF Types
<1> QED
  BY <1>1, <1>2 DEF Types, Length, Sides

\* Nothing is miscounted as long as each count keeps its place.
LEMMA FlowStep ==
  ASSUME Types, Flow, Types', output' = output,
         \A s \in Sides :
           /\ drawn'[s] <= passed'[s] /\ passed'[s] <= given'[s]
           /\ given'[s] <= IF s = "pyro" THEN Length(s) ELSE folded'
           /\ given[s] <= given'[s]
           /\ emitted'[s] = emitted[s] \/ emitted'[s] + emitted'[s] <= given[s]
           /\ hashed'[s] <= drew'[s] /\ drew'[s] <= Picture,
         folded' <= Length("inferno"), consumed' <= exported'
  PROVE  Flow'
<1>1. \A s \in Sides : Length(s)' = Length(s)
  BY DEF Length
<1>2. /\ folded' \in Nat /\ Length("inferno") \in Nat
  BY Numbers DEF Types
<1>3. ASSUME NEW s \in Sides PROVE Counted(s)'
  <2>1. /\ given[s] \in Nat /\ given'[s] \in Nat /\ emitted[s] \in Nat /\ emitted'[s] \in Nat
        /\ emitted[s] + emitted[s] <= given[s]
    BY Numbers DEF Types, Flow, Counted
  <2>2. emitted'[s] + emitted'[s] <= given'[s]
    BY <2>1
  <2>3. given'[s] <= Length(s)
    BY <1>2, <2>1 DEF Sides
  <2> QED
    BY <1>1, <2>2, <2>3 DEF Counted
<1>4. Folded'
  BY <1>1, <1>2 DEF Folded, Sides
<1> QED
  BY <1>3, <1>4 DEF Flow

\* A step that counts nothing.
Still ==
  /\ output' = output /\ given' = given /\ emitted' = emitted /\ passed' = passed
  /\ drawn' = drawn /\ drew' = drew /\ hashed' = hashed
  /\ exported' = exported /\ consumed' = consumed /\ folded' = folded

LEMMA StillFlow ==
  ASSUME Flow, Still
  PROVE  Flow'
BY DEF Flow, Still, Counted, Folded, Length

\* A thread that returns leaves the pipes in order; it returns no error only after
\* its process has drawn all of its side.
LEMMA ReturnsPipe ==
  ASSUME Pipe, NEW s \in Sides, NEW r \in {"ok", "error"}, Returns(s, r),
         r = "ok" => pc[s] = "wait" /\ flamegraph[s] = "ok" /\ hashed[s] = drew[s]
  PROVE  Pipe'
<1> USE DEF Pipe, Returns, pictureVars
<1>1. Types'
  BY DEF Types
<1>2. Flow'
  BY StillFlow DEF Still
<1>3. Stages'
  BY DEF Types, Stages, Stage, Whole, Length
<1> QED
  BY <1>1, <1>2, <1>3

\* A thread that fails returns the error, once the script is exported.
LEMMA FailPipe ==
  ASSUME Pipe, NEW s \in Sides, Fail(s), pc[s] = "stream"
  PROVE  Pipe'
<1>1. CASE s = "inferno" /\ export = "writing"
  <2> USE <1>1 DEF Pipe, Fail, inputVars, pictureVars, collapseVars
  <2>1. Types'
    BY DEF Types
  <2>2. Flow'
    BY StillFlow DEF Still
  <2>3. Stages'
    BY DEF Types, Stages, Stage, Whole, Length
  <2> QED
    BY <2>1, <2>2, <2>3
<1>2. CASE ~(s = "inferno" /\ export = "writing")
  BY <1>2, ReturnsPipe DEF Fail, Return
<1> QED
  BY <1>1, <1>2

\* A thread starts with nothing taken.
LEMMA StartPipe ==
  ASSUME Pipe, NEW s \in Sides, Start(s)
  PROVE  Pipe'
<1>1. CASE Returns(s, "error")
  BY <1>1, ReturnsPipe
<1>2. CASE ~Returns(s, "error")
  <2>0. Types /\ Flow /\ Stages
    BY DEF Pipe
  <2>1. /\ pc[s] = "start" /\ pc' = [pc EXCEPT ![s] = "stream"]
        /\ flamegraph' = [flamegraph EXCEPT ![s] = "reading"]
        /\ IF s = "inferno"
           THEN /\ export' = IF piped_script THEN "writing" ELSE "ok"
                /\ collapse' = "reading" /\ collapse_open' = TRUE
           ELSE UNCHANGED <<export, collapse, collapse_open>>
        /\ UNCHANGED <<result, closed, stdin_open>> /\ Still
    BY <1>2 DEF Start, inputVars, Still
  <2>2. Types'
    BY <2>0, <2>1 DEF Types, Still
  <2>3. Flow'
    BY <2>0, <2>1, StillFlow
  <2>4. Stages'
    BY <2>0, <2>1 DEF Types, Stages, Stage, Whole, Length, Still
  <2> QED
    BY <2>2, <2>3, <2>4 DEF Pipe
<1> QED
  BY <1>1, <1>2

\* Only what has come is handed on.
LEMMA TakePipe ==
  ASSUME Pipe, NEW s \in Sides, Take(s)
  PROVE  Pipe'
<1>1. Types /\ Flow /\ Stages
  BY DEF Pipe
<1>2. PICK n \in 1 .. 3 :
        /\ given[s] + n <= IF s = "pyro" THEN Length(s) ELSE folded
        /\ given' = [given EXCEPT ![s] = @ + n]
  BY DEF Take
<1>3. /\ pc[s] = "stream" /\ UNCHANGED <<pc, emitted, passed>>
      /\ UNCHANGED <<inputVars, result, closed, stdin_open, pictureVars, collapseVars>>
  BY DEF Take, Progress
<1> HIDE DEF Take
<1> USE <1>3 DEF inputVars, pictureVars, collapseVars
<1>4. Types'
  BY <1>1, <1>2 DEF Types
<1>5. Flow'
  <2>1. \A q \in Sides : given'[q] = IF q = s THEN given[q] + n ELSE given[q]
    BY <1>1, <1>2 DEF Types
  <2>2. ASSUME NEW q \in Sides
        PROVE  /\ passed[q] <= given'[q] /\ given[q] <= given'[q]
               /\ given'[q] <= IF q = "pyro" THEN Length(q) ELSE folded
    <3>1. /\ passed[q] <= given[q] /\ given[q] <= IF q = "pyro" THEN Length(q) ELSE folded
          /\ passed[q] \in Nat /\ given[q] \in Nat /\ n \in Nat
      BY <1>1, Numbers DEF Flow, Counted, Folded, Sides
    <3>2. CASE q = s
      BY <1>2, <2>1, <3>1, <3>2
    <3>3. CASE q # s
      BY <2>1, <3>1, <3>3
    <3> QED
      BY <3>2, <3>3
  <2> QED
    BY <1>1, <1>4, <2>2, FlowStep DEF Flow, Counted, Folded
<1>6. Stages'
  BY <1>1, <1>2, Numbers DEF Types, Flow, Counted, Stages, Stage, Whole, Length
<1> QED
  BY <1>4, <1>5, <1>6 DEF Pipe

\* A line is sent once both its tokens were taken.
LEMMA SendPipe ==
  ASSUME Pipe, NEW s \in Sides, Send(s)
  PROVE  Pipe'
<1>1. Types /\ Flow /\ Stages
  BY DEF Pipe
<1>2. CASE Fail(s)
  BY <1>2, FailPipe DEF Send
<1>3. CASE /\ emitted' = [emitted EXCEPT ![s] = @ + 1]
           /\ UNCHANGED <<pc, given, passed>> /\ Progress(s)
  <2>1. pc[s] = "stream" /\ emitted[s] < given[s] \div 2
    BY DEF Send
  <2>2. \A q \in Sides : emitted'[q] = emitted[q] \/ emitted'[q] + emitted'[q] <= given[q]
    BY <1>1, <1>3, <2>1, Numbers DEF Types
  <2> USE <1>1, <1>3, <2>1 DEF Progress, inputVars, pictureVars, collapseVars
  <2>3. Types'
    BY DEF Types
  <2>4. Flow'
    <3>1. \A q \in Sides : given[q] <= IF q = "pyro" THEN Length(q) ELSE folded
      BY DEF Flow, Counted, Folded, Sides
    <3> QED
      BY <2>2, <2>3, <3>1, Numbers, FlowStep DEF Flow, Counted, Folded
  <2>5. Stages'
    BY DEF Types, Stages, Stage, Whole, Length
  <2> QED
    BY <2>3, <2>4, <2>5 DEF Pipe
<1> QED
  BY <1>2, <1>3 DEF Send

\* A token is passed on once it was taken.
LEMMA PassPipe ==
  ASSUME Pipe, NEW s \in Sides, Pass(s)
  PROVE  Pipe'
<1>1. Types /\ Flow /\ Stages
  BY DEF Pipe
<1>2. CASE Fail(s)
  BY <1>2, FailPipe DEF Pass
<1>3. CASE /\ passed' = [passed EXCEPT ![s] = @ + 1]
           /\ UNCHANGED <<pc, given, emitted>> /\ Progress(s)
  <2>1. pc[s] = "stream" /\ passed[s] < given[s]
    BY DEF Pass
  <2> USE <1>1, <1>3, <2>1 DEF Progress, inputVars, pictureVars, collapseVars
  <2>2. Types'
    BY DEF Types
  <2>3. Flow'
    <3>1. \A q \in Sides : /\ given[q] <= IF q = "pyro" THEN Length(q) ELSE folded
                           /\ drawn[q] <= passed'[q] /\ passed'[q] <= given[q]
      <4> SUFFICES ASSUME NEW q \in Sides
                   PROVE  /\ given[q] <= IF q = "pyro" THEN Length(q) ELSE folded
                          /\ drawn[q] <= passed'[q] /\ passed'[q] <= given[q]
        OBVIOUS
      <4>1. /\ drawn[q] <= passed[q] /\ passed[q] <= given[q]
            /\ given[q] <= IF q = "pyro" THEN Length(q) ELSE folded
            /\ passed[q] \in Nat /\ given[q] \in Nat /\ drawn[q] \in Nat
        BY Numbers DEF Flow, Counted, Folded, Sides
      <4>2. passed'[q] = IF q = s THEN passed[q] + 1 ELSE passed[q]
        BY DEF Types
      <4>3. passed'[q] <= given[q] /\ drawn[q] <= passed'[q]
        BY <4>1, <4>2
      <4> QED
        BY <4>1, <4>3
    <3> QED
      BY <2>2, <3>1, Numbers, FlowStep DEF Flow, Counted, Folded
  <2>4. Stages'
    BY DEF Types, Stages, Stage, Whole, Length
  <2> QED
    BY <2>2, <2>3, <2>4 DEF Pipe
<1> QED
  BY <1>2, <1>3 DEF Pass

\* A thread drops its sender and the flamegraph's stdin when all has been passed on.
LEMMA ClosePipe ==
  ASSUME Pipe, NEW s \in Sides, Close(s)
  PROVE  Pipe'
<1>1. CASE s = "inferno" /\ "failed" \in {export, collapse}
  BY <1>1, FailPipe DEF Close
<1>2. CASE ~(s = "inferno" /\ "failed" \in {export, collapse})
  <2>1. Types /\ Flow /\ Stages
    BY DEF Pipe
  <2>2. Whole(s)
    <3>1. given[s] = Length(s) /\ (s = "inferno" => export = "ok" /\ collapse = "ok")
      BY <1>2, <2>1 DEF Close, AtEnd, Types, Stages, Sides
    <3>2. emitted[s] = given[s] \div 2 /\ passed[s] = given[s]
      BY DEF Close, Rested
    <3>3. emitted[s] = Len(output[s])
      <4>1. \A n \in Nat : (2 * n) \div 2 = n
        OBVIOUS
      <4> QED
        BY <2>1, <3>1, <3>2, <4>1, Numbers DEF Length
    <3> QED
      BY <3>1, <3>2, <3>3 DEF Whole
  <2>0. /\ pc[s] = "stream" /\ pc' = [pc EXCEPT ![s] = "wait"]
        /\ closed' = [closed EXCEPT ![s] = TRUE]
        /\ stdin_open' = [stdin_open EXCEPT ![s] = FALSE]
        /\ UNCHANGED <<result, flamegraph, export, collapse, collapse_open>> /\ Still
    BY <1>2 DEF Close, inputVars, pictureVars, collapseVars, Still
  <2>3. Types'
    BY <2>0, <2>1 DEF Types, Still
  <2>4. Flow'
    BY <2>0, <2>1, StillFlow
  <2>5. Stages'
    <3>1. \A q \in Sides : Whole(q) => Whole(q)'
      BY <2>0 DEF Whole, Length, Still
    <3>2. ASSUME NEW q \in Sides PROVE Stage(q)'
      BY <2>0, <2>1, <2>2, <3>1 DEF Types, Stages, Stage, Still
    <3> QED
      BY <2>0, <2>1, <3>2 DEF Types, Stages, Length, Still
  <2> QED
    BY <2>3, <2>4, <2>5 DEF Pipe
<1> QED
  BY <1>1, <1>2

\* A thread returns no error only when its picture has been read.
LEMMA FinishPipe ==
  ASSUME Pipe, NEW s \in Sides, Finish(s) \/ Unwind(s) \/ (s = "pyro" /\ FoldFails)
  PROVE  Pipe'
<1>1. CASE Finish(s)
  BY <1>1, ReturnsPipe DEF Finish, Return
<1>2. CASE Unwind(s)
  BY <1>2, ReturnsPipe DEF Unwind, Return
<1>3. CASE s = "pyro" /\ FoldFails
  BY <1>3, ReturnsPipe DEF FoldFails
<1> QED
  BY <1>1, <1>2, <1>3

\* The flamegraph draws what was passed and the reader hashes what was drawn.
LEMMA PicturePipe ==
  ASSUME Pipe, NEW s \in Sides, Draw(s) \/ FlamegraphFails(s) \/ Hash(s)
  PROVE  Pipe'
<1>1. /\ Types /\ Flow /\ Stages /\ Counted(s)
      /\ drawn[s] \in Nat /\ drew[s] \in Nat /\ hashed[s] \in Nat /\ passed[s] \in Nat
      /\ Picture \in Nat
  BY Numbers DEF Pipe, Flow
<1>2. \/ UNCHANGED <<inputVars, sideVars, collapseVars>>
      \/ UNCHANGED <<output, sideVars, collapseVars>>
  BY DEF Draw, FlamegraphFails, Hash
<1>3. /\ UNCHANGED <<output, pc, result, given, emitted, passed, closed, stdin_open>>
      /\ UNCHANGED <<export, exported, collapse, consumed, folded, collapse_open>>
  BY <1>2 DEF inputVars, sideVars, collapseVars
<1>4. /\ \/ flamegraph' = flamegraph
         \/ \E f \in {"drawing", "ok", "failed"} : flamegraph' = [flamegraph EXCEPT ![s] = f]
      /\ drawn' = drawn \/ (drawn' = [drawn EXCEPT ![s] = @ + 1] /\ drawn[s] < passed[s])
      /\ drew' = drew \/ (drew' = [drew EXCEPT ![s] = @ + 1] /\ drew[s] < Picture)
      /\ \/ hashed' = hashed
         \/ hashed' = [hashed EXCEPT ![s] = @ + 1] /\ hashed[s] < drew[s] /\ drew' = drew
  <2>1. CASE Draw(s)
    BY <2>1 DEF Draw
  <2>2. CASE FlamegraphFails(s)
    BY <2>2 DEF FlamegraphFails
  <2>3. CASE Hash(s)
    BY <2>3 DEF Hash
  <2> QED
    BY <2>1, <2>2, <2>3
<1>5. Types'
  BY <1>1, <1>3, <1>4 DEF Types
<1>6. Flow'
  <2>1. \A q \in Sides : /\ drawn'[q] <= passed[q] /\ hashed'[q] <= drew'[q] /\ drew'[q] <= Picture
    <3> SUFFICES ASSUME NEW q \in Sides
                 PROVE  drawn'[q] <= passed[q] /\ hashed'[q] <= drew'[q] /\ drew'[q] <= Picture
      OBVIOUS
    <3>1. /\ drawn[q] \in Nat /\ drew[q] \in Nat /\ hashed[q] \in Nat /\ passed[q] \in Nat
          /\ drawn[q] <= passed[q] /\ hashed[q] <= drew[q] /\ drew[q] <= Picture
      BY <1>1, Numbers DEF Flow, Counted
    <3>2. drawn'[q] <= passed[q]
      BY <1>1, <1>4, <3>1 DEF Types
    <3>3. drew'[q] <= Picture /\ hashed'[q] <= drew'[q]
      BY <1>1, <1>4, <3>1 DEF Types
    <3> QED
      BY <3>2, <3>3
  <2>2. \A q \in Sides : given[q] <= IF q = "pyro" THEN Length(q) ELSE folded
    BY <1>1 DEF Flow, Counted, Folded, Sides
  <2> QED
    BY <1>1, <1>3, <1>5, <2>1, <2>2, Numbers, FlowStep DEF Flow, Counted, Folded
<1>7. Stages'
  <2>1. CASE Draw(s)
    <3>a. \A q \in Sides : Whole(q) => Whole(q)'
      BY <1>3 DEF Whole, Length
    <3>b. /\ flamegraph[s] \in {"reading", "drawing"} /\ result[s] # "ok" /\ pc[s] # "start"
          /\ Stage(s) /\ UNCHANGED hashed
      BY <1>1, <2>1 DEF Draw, Stages, Stage
    <3>c. Stage(s)'
      <4>1. CASE flamegraph' = flamegraph /\ drew' = drew /\ flamegraph[s] = "reading"
        BY <1>3, <3>a, <3>b, <4>1 DEF Stage
      <4>2. CASE flamegraph[s] = "reading" /\ drawn[s] = passed[s] /\ ~stdin_open[s]
                 /\ flamegraph' = [flamegraph EXCEPT ![s] = "drawing"] /\ UNCHANGED <<drawn, drew>>
        BY <1>1, <1>3, <3>a, <3>b, <4>2 DEF Stage, Types
      <4>3. CASE flamegraph[s] = "drawing" /\ UNCHANGED <<flamegraph, drawn>>
        BY <1>3, <3>a, <3>b, <4>3 DEF Stage
      <4>4. CASE flamegraph[s] = "drawing" /\ drew[s] = Picture
                 /\ flamegraph' = [flamegraph EXCEPT ![s] = "ok"] /\ UNCHANGED <<drawn, drew>>
        BY <1>1, <1>3, <3>a, <3>b, <4>4 DEF Stage, Types
      <4> QED
        BY <2>1, <4>1, <4>2, <4>3, <4>4 DEF Draw
    <3>1. ASSUME NEW q \in Sides, q # s PROVE Stage(q)'
      <4>1. /\ flamegraph'[q] = flamegraph[q] /\ drawn'[q] = drawn[q] /\ drew'[q] = drew[q]
        BY <1>1, <1>4, <3>1 DEF Types
      <4> QED
        BY <1>1, <1>3, <3>a, <3>b, <4>1 DEF Stages, Stage
    <3> QED
      BY <1>1, <1>3, <3>c, <3>1 DEF Stages, Length
  <2>2. CASE FlamegraphFails(s)
    BY <1>1, <1>3, <2>2 DEF FlamegraphFails, Types, Stages, Stage, Whole, Length
  <2>3. CASE Hash(s)
    BY <1>1, <1>3, <2>3 DEF Hash, Types, Stages, Stage, Whole, Length
  <2> QED
    BY <2>1, <2>2, <2>3
<1> QED
  BY <1>5, <1>6, <1>7 DEF Pipe

\* What is folded was exported.
LEMMA CollapsePipe ==
  ASSUME Pipe, Export \/ ExportFails \/ Collapse \/ CollapseFails
  PROVE  Pipe'
<1>1. Types /\ Flow /\ Stages /\ Script \in Nat /\ Length("inferno") \in Nat
  BY Numbers DEF Pipe
<1>2. UNCHANGED <<output, sideVars, pictureVars>>
  BY DEF Export, ExportFails, Collapse, CollapseFails, inputVars
<1>3. /\ UNCHANGED <<output, pc, result, given, emitted, passed, closed, stdin_open>>
      /\ UNCHANGED <<flamegraph, drawn, drew, hashed>>
  BY <1>2 DEF sideVars, pictureVars
<1>4. Types'
  BY <1>1, <1>3 DEF Export, ExportFails, Collapse, CollapseFails, Types
<1>5. Flow'
  <2>1. folded <= folded' /\ folded' <= Length("inferno") /\ consumed' <= exported'
    BY <1>1 DEF Export, ExportFails, Collapse, CollapseFails, Types, Flow, Folded
  <2>2. \A q \in Sides : given[q] <= IF q = "pyro" THEN Length(q) ELSE folded'
    <3> SUFFICES ASSUME NEW q \in Sides
                 PROVE  given[q] <= IF q = "pyro" THEN Length(q) ELSE folded'
      OBVIOUS
    <3>1. given[q] \in Nat /\ folded \in Nat /\ folded' \in Nat /\ folded <= folded'
      BY <1>1, <1>4, <2>1, Numbers DEF Types
    <3>2. given[q] <= IF q = "pyro" THEN Length(q) ELSE folded
      BY <1>1 DEF Flow, Counted, Folded, Sides
    <3> QED
      BY <3>1, <3>2
  <2> QED
    BY <1>1, <1>3, <1>4, <2>1, <2>2, Numbers, FlowStep DEF Flow, Counted, Folded
<1>6. Stages'
  <2>1. /\ export = "ok" => export' = "ok"
        /\ export # "none" => export' # "none"
        /\ collapse = "ok" => collapse' = "ok"
        /\ collapse' = "ok" => folded' = Length("inferno")
    BY <1>1 DEF Export, ExportFails, Collapse, CollapseFails, Stages
  <2> QED
    BY <1>1, <1>3, <2>1 DEF Types, Stages, Stage, Whole, Length
<1> QED
  BY <1>4, <1>5, <1>6 DEF Pipe

\* Before the threads start every count is zero.
LEMMA PipeInit == Init => Pipe
<1> SUFFICES ASSUME Init PROVE Pipe
  OBVIOUS
<1>3. Types
  BY DEF Init, Types
<1>4. Flow
  BY <1>3, Numbers DEF Init, Flow, Counted, Folded
<1>5. Stages
  BY DEF Init, Stages, Stage, Sides
<1> QED
  BY <1>3, <1>4, <1>5 DEF Pipe

\* Every step keeps what flows in order.
LEMMA PipeStep == Pipe /\ [Next]_vars => Pipe'
<1> SUFFICES ASSUME Pipe, [Next]_vars PROVE Pipe'
  OBVIOUS
<1>1. ASSUME NEW s \in Sides, Produce(s) PROVE Pipe'
  BY <1>1, StartPipe, TakePipe, SendPipe, PassPipe, ClosePipe, FinishPipe DEF Produce
<1>2. ASSUME NEW s \in Sides, Draw(s) \/ Hash(s) PROVE Pipe'
  BY <1>2, PicturePipe
<1>3. CASE Compare
  BY <1>3 DEF Compare, Compares, Pipe, Types, Flow, Counted, Folded, Stages, Stage, Whole, Length,
              inputVars, sideVars, pictureVars, collapseVars
<1>4. CASE Fails
  BY <1>4, FinishPipe, CollapsePipe, PicturePipe DEF Fails, Sides
<1>5. CASE UNCHANGED vars
  BY <1>5 DEF vars, Pipe, Types, Flow, Counted, Folded, Stages, Stage, Whole, Length,
              inputVars, sideVars, pictureVars, collapseVars
<1> QED
  BY <1>1, <1>2, <1>3, <1>4, <1>5, CollapsePipe DEF Next

-----------------------------------------------------------------------------
(* The comparison.                                                          *)

\* The comparison is to receive from a side.
Waits(s) ==
  IF s = "pyro" THEN wants \in {<<"pyro", "inferno">>, <<"pyro">>}
  ELSE wants \in {<<"pyro", "inferno">>, <<"inferno">>}

Other(s) == IF s = "pyro" THEN "inferno" ELSE "pyro"

\* How many entries of a side the comparison is done with.
Done(s) == IF Waits(s) \/ entry[s] = 0 THEN received[s] ELSE received[s] - 1

\* Those of them that the other side does not have.
Found(s) == {i \in 1 .. Done(s) : i \in Differing(s)}

\* The values of the variables of the comparison.
CompareTypes ==
  /\ wants \in {<<"pyro", "inferno">>, <<"pyro">>, <<"inferno">>, <<>>}
  /\ entry \in [Sides -> Nat] /\ received \in [Sides -> Nat]
  /\ only \in [Sides -> SUBSET Nat] /\ matches \in BOOLEAN
  /\ verdict \in {"none", "ok", "error"}

\* Entries are received in their order, and none of them without a count.
Reading(s) ==
  /\ received[s] <= emitted[s]
  /\ entry[s] \in {0, received[s]}
  /\ ~Waits(s) /\ entry[s] = 0 => received[s] = emitted[s] /\ closed[s]
  /\ verdict # "error" => \A i \in 1 .. received[s] : output[s][i] # Malformed

\* The differences kept are among those found, and all of these up to MaxReported.
Keeps(s, found) ==
  /\ only[s] \subseteq found /\ Cardinality(only[s]) <= MaxReported
  /\ only[s] = found \/ Cardinality(only[s]) = MaxReported

\* All that the comparison is done with of a side is below all that it is not done
\* with of the other.
Below(s, o) ==
  \A i \in 1 .. Done(s), j \in Done(o) + 1 .. Len(output[o]) :
    output[o][j] # Malformed => output[s][i].stack < output[o][j].stack

\* The comparison goes on, and no thread has failed.
Sound == verdict = "none" /\ \A s \in Sides : result[s] # "error"

\* The loop invariant: what is done with is compared with the whole other side.
Merge ==
  Sound =>
    /\ \A s \in Sides : Below(s, Other(s)) /\ Keeps(s, Found(s))
    /\ matches = (\A s \in Sides : Found(s) = {})

\* A report is about the whole of both outputs.
Reported ==
  verdict = "ok" =>
    /\ \A s \in Sides :
         result[s] = "ok" /\ received[s] = Len(output[s]) /\ Keeps(s, Differing(s))
    /\ matches = (output["pyro"] = output["inferno"])

\* An error is that of a thread or of a line without a count.
ErrorExplained ==
  verdict = "error" =>
    \/ \E s \in Sides : result[s] = "error"
    \/ \E s \in Sides : received[s] > 0 /\ output[s][received[s]] = Malformed

Comparing ==
  CompareTypes /\ (\A s \in Sides : Reading(s)) /\ Merge /\ Reported /\ ErrorExplained

IInv == Pipe /\ Comparing

\* A side differs from its only other.
LEMMA DifferingOther ==
  ASSUME NEW s \in Sides
  PROVE  /\ Other(s) \in Sides /\ Other(s) # s /\ Other(Other(s)) = s
         /\ \A q \in Sides : q = s \/ q = Other(s)
         /\ Differing(s) = {i \in DOMAIN output[s] :
              \A j \in DOMAIN output[Other(s)] : output[Other(s)][j] # output[s][i]}
<1>1. /\ Other(s) \in Sides /\ Other(s) # s /\ Other(Other(s)) = s
      /\ \A q \in Sides : q = s \/ q = Other(s)
  BY DEF Other, Sides
<1>2. (CHOOSE o \in Sides : o # s) = Other(s)
  BY <1>1
<1> QED
  BY <1>1, <1>2 DEF Differing

\* What the threads and processes do to the comparison: they send more, and return
\* once.
Ahead ==
  /\ UNCHANGED <<output, wants, entry, received, only, matches, verdict>>
  /\ \A s \in Sides :
       /\ emitted[s] <= emitted'[s]
       /\ closed[s] => closed'[s] /\ emitted'[s] = emitted[s]
       /\ result[s] # "none" => result'[s] = result[s]

\* A producing thread only lets the comparison have more to receive.
LEMMA ProduceAhead ==
  ASSUME Pipe, NEW s \in Sides, Produce(s) \/ (s = "pyro" /\ FoldFails)
  PROVE  Ahead
<1>1. Types /\ Stages /\ \A q \in Sides : emitted[q] \in Nat
  BY Numbers DEF Pipe
<1>2. ASSUME NEW r, Returns(s, r), pc[s] # "done" PROVE Ahead
  BY <1>1, <1>2 DEF Returns, Ahead, compareVars, Types, Stages, Stage
<1>3. ASSUME Fail(s), pc[s] # "done" PROVE Ahead
  <2>1. CASE Return(s, "error")
    BY <1>2, <1>3, <2>1 DEF Return
  <2>2. CASE ~Return(s, "error")
    BY <1>1, <1>3, <2>2 DEF Fail, Ahead, compareVars, inputVars
  <2> QED
    BY <2>1, <2>2
<1>4. CASE Start(s)
  <2>1. CASE Returns(s, "error")
    BY <1>2, <1>4, <2>1 DEF Start
  <2>2. CASE ~Returns(s, "error")
    BY <1>1, <1>4, <2>2 DEF Start, Ahead, compareVars, inputVars
  <2> QED
    BY <2>1, <2>2
<1>5. CASE Take(s)
  BY <1>1, <1>5 DEF Take, Progress, Ahead, compareVars, inputVars
<1>6. CASE Send(s)
  <2>1. CASE Fail(s)
    BY <1>3, <1>6, <2>1 DEF Send
  <2>2. CASE /\ emitted' = [emitted EXCEPT ![s] = @ + 1]
             /\ UNCHANGED <<pc, given, passed>> /\ Progress(s)
    BY <1>1, <1>6, <2>2 DEF Send, Progress, Ahead, compareVars, inputVars, Types, Stages, Stage
  <2> QED
    BY <1>6, <2>1, <2>2 DEF Send
<1>7. CASE Pass(s)
  <2>1. CASE Fail(s)
    BY <1>3, <1>7, <2>1 DEF Pass
  <2>2. CASE UNCHANGED <<pc, given, emitted>> /\ Progress(s)
    BY <1>1, <2>2 DEF Progress, Ahead, compareVars, inputVars
  <2> QED
    BY <1>7, <2>1, <2>2 DEF Pass
<1>8. CASE Close(s)
  <2>1. CASE Fail(s)
    BY <1>3, <1>8, <2>1 DEF Close
  <2>2. CASE ~Fail(s)
    BY <1>1, <1>8, <2>2 DEF Close, Ahead, compareVars, inputVars, Types
  <2> QED
    BY <2>1, <2>2
<1>9. CASE Finish(s) \/ Unwind(s)
  BY <1>2, <1>9 DEF Finish, Unwind, Return
<1>10. CASE s = "pyro" /\ FoldFails
  BY <1>2, <1>10 DEF FoldFails
<1> QED
  BY <1>4, <1>5, <1>6, <1>7, <1>8, <1>9, <1>10 DEF Produce

\* So do the processes and pipes.
LEMMA OthersAhead ==
  ASSUME Pipe,
         \/ \E s \in Sides : Draw(s) \/ Hash(s) \/ FlamegraphFails(s)
         \/ Export \/ ExportFails \/ Collapse \/ CollapseFails
         \/ UNCHANGED vars
  PROVE  Ahead
<1>1. \A q \in Sides : emitted[q] \in Nat
  BY Numbers DEF Pipe
<1>2. UNCHANGED <<output, sideVars, compareVars>>
  BY DEF Draw, Hash, FlamegraphFails, Export, ExportFails, Collapse, CollapseFails, vars, inputVars
<1> QED
  BY <1>1, <1>2 DEF Ahead, sideVars, compareVars

\* What may be received later does not change what was compared.
LEMMA AheadStep ==
  ASSUME Pipe, Comparing, Ahead, Pipe'
  PROVE  Comparing'
<1>1. /\ Types /\ Types' /\ CompareTypes
      /\ \A q \in Sides : emitted[q] \in Nat /\ emitted'[q] \in Nat /\ received[q] \in Nat
  BY DEF Pipe, Types, Comparing, CompareTypes
<1>2. CompareTypes'
  BY <1>1 DEF Ahead, CompareTypes
<1>3. ASSUME NEW s \in Sides PROVE Reading(s)'
  <2>1. /\ Reading(s) /\ emitted[s] <= emitted'[s]
        /\ closed[s] => closed'[s] /\ emitted'[s] = emitted[s]
    BY DEF Comparing, Ahead
  <2>2. Waits(s)' = Waits(s)
    BY DEF Waits, Ahead
  <2> QED
    BY <1>1, <2>1, <2>2 DEF Reading, Ahead
<1>4. \A s \in Sides : Found(s)' = Found(s) /\ Differing(s)' = Differing(s) /\ Done(s)' = Done(s)
  BY DEF Found, Done, Waits, Differing, Ahead
<1>5. Merge'
  <2>1. Sound' => Sound
    BY DEF Sound, Ahead
  <2>2. \A s \in Sides : Below(s, Other(s))' <=> Below(s, Other(s))
    BY <1>4, DifferingOther DEF Below, Ahead
  <2>3. \A s \in Sides : Keeps(s, Found(s))' <=> Keeps(s, Found(s))
    BY <1>4 DEF Keeps, Ahead
  <2> QED
    BY <1>4, <2>1, <2>2, <2>3 DEF Merge, Comparing, Ahead
<1>6. Reported'
  BY <1>4 DEF Reported, Keeps, Comparing, Ahead
<1>7. ErrorExplained'
  BY DEF ErrorExplained, Comparing, Ahead
<1> QED
  BY <1>2, <1>3, <1>5, <1>6, <1>7 DEF Comparing

\* Before the first entry nothing is done with.
LEMMA ComparingInit == Init => Comparing
<1> SUFFICES ASSUME Init PROVE Comparing
  OBVIOUS
<1>1. MaxReported \in Nat
  BY ComparisonAssumption
<1>2. \A s \in Sides : Waits(s) /\ Done(s) = 0
  BY DEF Init, Waits, Done
<1>3. \A s \in Sides : Found(s) = {}
  BY <1>2 DEF Found
<1>4. Cardinality({}) = 0
  BY FS_EmptySet
<1>5. CompareTypes
  BY DEF Init, CompareTypes
<1>6. \A s \in Sides : Reading(s)
  BY <1>2 DEF Init, Reading
<1>7. Merge
  BY <1>1, <1>2, <1>3, <1>4 DEF Init, Merge, Below, Keeps
<1> QED
  BY <1>5, <1>6, <1>7 DEF Init, Comparing, Reported, ErrorExplained

\* What is received is neither done with nor forgotten.
LEMMA ReceiveStep ==
  ASSUME IInv, Receive, UNCHANGED <<inputVars, sideVars>>
  PROVE  Comparing'
<1>1. /\ CompareTypes /\ Merge /\ verdict = "none"
      /\ UNCHANGED <<output, result, emitted, closed, only, matches>>
      /\ \A s \in Sides : Reading(s) /\ received[s] \in Nat /\ emitted[s] \in Nat
  BY DEF IInv, Pipe, Types, Comparing, CompareTypes, Receive, inputVars, sideVars
<1>2. PICK s \in Sides :
        /\ \/ wants = <<"pyro", "inferno">> /\ s = "pyro" /\ wants' = <<"inferno">>
           \/ wants = <<s>> /\ wants' = <<>>
        /\ \/ /\ received[s] < emitted[s]
              /\ received' = [received EXCEPT ![s] = @ + 1]
              /\ entry' = [entry EXCEPT ![s] = received'[s]]
              /\ verdict' = IF output[s][received'[s]] = Malformed THEN "error" ELSE "none"
           \/ /\ received[s] = emitted[s] /\ closed[s]
              /\ entry' = [entry EXCEPT ![s] = 0]
              /\ UNCHANGED <<received, verdict>>
  <2>1. wants = <<"pyro", "inferno">> \/ \E s \in Sides : wants = <<s>>
    BY <1>1 DEF Receive, CompareTypes, Sides
  <2>2. /\ wants = <<"pyro", "inferno">> => Head(wants) = "pyro" /\ Tail(wants) = <<"inferno">>
        /\ \A s \in Sides : wants = <<s>> => Head(wants) = s /\ Tail(wants) = <<>>
    <3>1. wants = <<"pyro", "inferno">> => Head(wants) = "pyro" /\ Tail(wants) = <<"inferno">>
      OBVIOUS
    <3>2. ASSUME NEW s \in Sides, wants = <<s>> PROVE Head(wants) = s /\ Tail(wants) = <<>>
      BY <3>2
    <3> QED
      BY <3>1, <3>2
  <2>3. Head(wants) \in Sides
    BY <2>1, <2>2 DEF Sides
  <2>4. \/ wants = <<"pyro", "inferno">> /\ Head(wants) = "pyro" /\ wants' = <<"inferno">>
        \/ wants = <<Head(wants)>> /\ wants' = <<>>
    BY <2>1, <2>2 DEF Receive
  <2> QED
    BY <1>1, <2>3, <2>4 DEF Receive
<1>3. /\ Waits(s) /\ ~Waits(s)'
      /\ \A q \in Sides : q # s => Waits(q)' = Waits(q)
  <2>1. CASE wants = <<"pyro", "inferno">> /\ s = "pyro" /\ wants' = <<"inferno">>
    BY <2>1 DEF Waits, Sides
  <2>2. CASE wants = <<s>> /\ wants' = <<>>
    <3>1. CASE s = "pyro"
      BY <2>2, <3>1 DEF Waits, Sides
    <3>2. CASE s = "inferno"
      BY <2>2, <3>2 DEF Waits, Sides
    <3> QED
      BY <3>1, <3>2 DEF Sides
  <2> QED
    BY <1>2, <2>1, <2>2
<1>4. CompareTypes'
  BY <1>1, <1>2 DEF CompareTypes, Sides
<1>5. ASSUME NEW q \in Sides PROVE Reading(q)'
  <2>1. CASE q # s
    BY <1>1, <1>2, <1>3, <2>1 DEF CompareTypes, Reading
  <2>2. CASE q = s /\ received' = received
    BY <1>1, <1>2, <1>3, <2>2 DEF CompareTypes, Reading
  <2>3. CASE q = s /\ received' # received
    <3>1. /\ received[s] < emitted[s] /\ received'[s] = received[s] + 1
          /\ entry'[s] = received'[s]
          /\ verdict' = IF output[s][received'[s]] = Malformed THEN "error" ELSE "none"
      BY <1>1, <1>2, <2>3 DEF CompareTypes
    <3>2. verdict' # "error" => \A i \in 1 .. received'[s] : output[s][i] # Malformed
      BY <1>1, <3>1 DEF Reading
    <3> QED
      BY <1>1, <1>3, <2>3, <3>1, <3>2 DEF Reading
  <2> QED
    BY <2>1, <2>2, <2>3
<1>6. \A q \in Sides : Done(q)' = Done(q)
  BY <1>1, <1>2, <1>3 DEF CompareTypes, Done
<1>7. \A q \in Sides : Differing(q)' = Differing(q) /\ Found(q)' = Found(q)
  BY <1>1, <1>6 DEF Differing, Found
<1>8. Merge'
  <2>1. Sound' => Sound
    BY <1>1 DEF Sound
  <2>2. \A q \in Sides : Below(q, Other(q))' <=> Below(q, Other(q))
    BY <1>1, <1>6, DifferingOther DEF Below
  <2>3. \A q \in Sides : Keeps(q, Found(q))' <=> Keeps(q, Found(q))
    BY <1>1, <1>7 DEF Keeps
  <2> QED
    BY <1>1, <1>7, <2>1, <2>2, <2>3 DEF Merge
<1>9. Reported' /\ ErrorExplained'
  BY <1>1, <1>2 DEF CompareTypes, Reported, ErrorExplained
<1> QED
  BY <1>4, <1>5, <1>8, <1>9 DEF Comparing

\* What the entries at hand are, while no thread has failed.
LEMMA AtHand ==
  ASSUME IInv, Sound, NEW s \in Sides, ~Waits(s)
  PROVE  /\ Done(s) \in Nat /\ received[s] \in Nat
         /\ Done(s) <= Len(output[s]) /\ Len(output[s]) \in Nat
         /\ entry[s] = 0 => Done(s) = Len(output[s]) /\ received[s] = Done(s)
         /\ entry[s] # 0 => /\ entry[s] = Done(s) + 1 /\ received[s] = Done(s) + 1
                            /\ entry[s] \in 1 .. Len(output[s])
         /\ \A i \in 1 .. received[s] : output[s][i] # Malformed
<1>1. /\ received[s] \in Nat /\ emitted[s] \in Nat /\ Len(output[s]) \in Nat
      /\ Reading(s) /\ Stage(s) /\ entry[s] \in Nat /\ verdict = "none" /\ result[s] # "error"
  BY Numbers DEF IInv, Pipe, Types, Comparing, CompareTypes, Stages, Sound
<1>2. emitted[s] <= Len(output[s])
  <2>1. emitted[s] + emitted[s] <= given[s] /\ given[s] <= 2 * Len(output[s]) /\ given[s] \in Nat
    BY Numbers DEF IInv, Pipe, Flow, Counted, Length
  <2> QED
    BY <1>1, <2>1
<1>3. closed[s] => emitted[s] = Len(output[s])
  <2>1. pc[s] \in {"start", "stream", "unwind", "wait", "done"} /\ result[s] \in {"none", "ok"}
    BY <1>1 DEF IInv, Pipe, Types
  <2> QED
    BY <1>1, <2>1 DEF Stage, Whole
<1> QED
  BY <1>1, <1>2, <1>3 DEF Reading, Done

\* The entries that Decide is done with: below all that is to come on the other side.
LEMMA PassedFacts ==
  ASSUME IInv, Sound, \A s \in Sides : ~Waits(s), \E s \in Sides : entry[s] # 0
  PROVE  /\ Passed # {} /\ Passed \subseteq Sides /\ \A s \in Passed : entry[s] # 0
         /\ \A s \in Passed : \A j \in Done(Other(s)) + 1 .. Len(output[Other(s)]) :
              output[Other(s)][j] # Malformed =>
                /\ Entry(s).stack <= output[Other(s)][j].stack
                /\ Other(s) \notin Passed \/ j # entry[Other(s)]
                     => Entry(s).stack < output[Other(s)][j].stack
<1>1. output \in Outputs
  BY DEF IInv, Pipe, Types
<1>2. \A s \in Sides : entry[s] # 0 => Entry(s).stack \in Int
  BY <1>1, AtHand, OutputTypes DEF Entry
<1>3. /\ Passed \subseteq Sides /\ \A s \in Passed : entry[s] # 0
  BY DEF Passed
<1>4. Passed # {}
  BY <1>2 DEF Passed, Sides
<1>5. ASSUME NEW s \in Passed, NEW j \in Done(Other(s)) + 1 .. Len(output[Other(s)]),
             output[Other(s)][j] # Malformed
      PROVE  /\ Entry(s).stack <= output[Other(s)][j].stack
             /\ Other(s) \notin Passed \/ j # entry[Other(s)]
                  => Entry(s).stack < output[Other(s)][j].stack
  <2> DEFINE o == Other(s)
  <2>1. s \in Sides /\ o \in Sides /\ o # s /\ entry[s] # 0 /\ \A q \in Sides : q = s \/ q = o
    BY <1>3, <1>5, DifferingOther
  <2>2. /\ Done(o) \in Nat /\ Len(output[o]) \in Nat
        /\ entry[o] = 0 => Done(o) = Len(output[o])
        /\ entry[o] # 0 => entry[o] = Done(o) + 1 /\ entry[o] \in 1 .. Len(output[o])
                           /\ output[o][entry[o]] # Malformed
    BY <2>1, AtHand
  <2>3. j \in 1 .. Len(output[o]) /\ j >= Done(o) + 1 /\ entry[o] # 0
    BY <2>2
  <2>4. /\ Entry(s).stack \in Int /\ Entry(o).stack \in Int /\ Entry(s).stack <= Entry(o).stack
        /\ o \notin Passed => Entry(s).stack < Entry(o).stack
    BY <1>2, <1>5, <2>1, <2>3 DEF Passed
  <2>5. j # entry[o] => Entry(o).stack < output[o][j].stack
    BY <1>1, <1>5, <2>1, <2>2, <2>3, OutputTypes DEF Entry
  <2>6. output[o][j].stack \in Int
    BY <1>1, <2>1, <2>3, OutputTypes
  <2>7. j = entry[o] => output[o][j] = Entry(o)
    BY DEF Entry
  <2> QED
    BY <2>4, <2>5, <2>6, <2>7
<1> QED
  BY <1>3, <1>4, <1>5

\* Decide keeps the order of the two sides, finds exactly the differences it passes,
\* and keeps them as far as it may.
LEMMA DecideMerge ==
  ASSUME IInv, Decide, Sound, UNCHANGED output
  PROVE  /\ \A s \in Sides : Below(s, Other(s))' /\ Keeps(s, Found(s))'
         /\ matches' = (\A s \in Sides : Found(s)' = {})
         /\ wants' \in {<<"pyro", "inferno">>, <<"pyro">>, <<"inferno">>}
         /\ \A s \in Sides : Waits(s)' <=> s \in Passed
<1>1. /\ Types /\ CompareTypes /\ Merge /\ output \in Outputs
      /\ \A s \in Sides : ~Waits(s)
      /\ \E s \in Sides : entry[s] # 0
  BY DEF IInv, Pipe, Types, Comparing, Decide, Waits
<1> DEFINE differ == Passed # Sides \/ Entry("pyro").count # Entry("inferno").count
<1>2. /\ only' = IF differ THEN Recorded(Passed) ELSE only
      /\ matches' = (matches /\ ~differ)
      /\ wants' = IF Passed = Sides THEN <<"pyro", "inferno">>
                  ELSE IF "pyro" \in Passed THEN <<"pyro">> ELSE <<"inferno">>
      /\ UNCHANGED <<entry, received, verdict>>
  BY DEF Decide
<1>3. /\ Passed # {} /\ Passed \subseteq Sides /\ \A s \in Passed : entry[s] # 0
  BY <1>1, PassedFacts
<1>4. /\ wants' \in {<<"pyro", "inferno">>, <<"pyro">>, <<"inferno">>}
      /\ \A s \in Sides : Waits(s)' <=> s \in Passed
  BY <1>2, <1>3 DEF Waits, Sides
<1>5. ASSUME NEW s \in Sides
      PROVE  /\ Done(s) \in Nat /\ Len(output[s]) \in Nat /\ Done(s)' <= Len(output[s])
             /\ s \in Passed => /\ entry[s] = Done(s) + 1 /\ Done(s)' = Done(s) + 1
                                /\ entry[s] \in 1 .. Len(output[s])
                                /\ output[s][entry[s]] # Malformed
             /\ s \notin Passed => Done(s)' = Done(s)
             /\ \A i \in 1 .. Done(s) : output[s][i] # Malformed /\ output[s][i].stack \in Int
  <2>1. /\ Done(s) \in Nat /\ received[s] \in Nat
        /\ Len(output[s]) \in Nat /\ Done(s) <= Len(output[s])
        /\ entry[s] = 0 => Done(s) = Len(output[s]) /\ received[s] = Done(s)
        /\ entry[s] # 0 => /\ entry[s] = Done(s) + 1 /\ received[s] = Done(s) + 1
                           /\ entry[s] \in 1 .. Len(output[s])
        /\ \A i \in 1 .. received[s] : output[s][i] # Malformed
    BY <1>1, AtHand
  <2>2. Done(s)' = IF s \in Passed \/ entry[s] = 0 THEN received[s] ELSE received[s] - 1
    BY <1>2, <1>4 DEF Done
  <2>3. \A i \in 1 .. Done(s) : i \in 1 .. received[s] /\ i \in 1 .. Len(output[s])
    BY <2>1
  <2>4. \A i \in 1 .. Done(s) : output[s][i] # Malformed /\ output[s][i].stack \in Int
    BY <1>1, <2>1, <2>3, OutputTypes
  <2> QED
    BY <1>3, <2>1, <2>2, <2>4
<1>6. ASSUME NEW s \in Sides PROVE Below(s, Other(s))'
  <2> DEFINE o == Other(s)
  <2>1. o \in Sides /\ Other(o) = s
    BY DifferingOther
  <2>2. SUFFICES ASSUME NEW i \in 1 .. Done(s)', NEW j \in Done(o)' + 1 .. Len(output[o]),
                        output[o][j] # Malformed
                 PROVE  output[s][i].stack < output[o][j].stack
    BY DEF Below
  <2>3. Done(o) \in Nat /\ Len(output[o]) \in Nat /\ Done(o) <= Done(o)' /\ Done(o)' \in Nat
        /\ Done(s) \in Nat /\ Done(s)' \in Nat
    BY <1>5, <2>1
  <2>4. j \in Done(o) + 1 .. Len(output[o])
    BY <2>3
  <2>5. CASE i \in 1 .. Done(s)
    BY <1>1, <2>2, <2>4, <2>5 DEF Merge, Below
  <2>6. CASE i \notin 1 .. Done(s)
    <3>1. s \in Passed /\ i = entry[s]
      BY <1>5, <2>3, <2>6
    <3>2. o \in Passed => j # entry[o]
      BY <1>5, <2>1, <2>3
    <3> QED
      BY <1>1, <2>2, <2>4, <3>1, <3>2, PassedFacts DEF Entry
  <2> QED
    BY <2>5, <2>6
<1>7. ASSUME NEW s \in Passed PROVE entry[s] \in Differing(s) <=> differ
  <2> DEFINE o == Other(s)
  <2>1. /\ s \in Sides /\ o \in Sides /\ o # s /\ Other(o) = s /\ \A q \in Sides : q = s \/ q = o
        /\ Differing(s) = {i \in DOMAIN output[s] :
                             \A j \in DOMAIN output[o] : output[o][j] # output[s][i]}
    BY <1>3, DifferingOther
  <2>2. /\ entry[s] = Done(s) + 1 /\ entry[s] \in 1 .. Len(output[s])
        /\ Entry(s) # Malformed /\ Done(o) \in Nat /\ Len(output[o]) \in Nat
    BY <1>5, <2>1 DEF Entry
  <2>3. /\ DOMAIN output[s] = 1 .. Len(output[s]) /\ DOMAIN output[o] = 1 .. Len(output[o])
        /\ Entry(s) \in [stack : Int, count : Int]
        /\ \A j \in 1 .. Len(output[o]) : output[o][j] \in [stack : Int, count : Int]
    BY <1>1, <2>1, <2>2, OutputTypes DEF Entry
  <2>4. ASSUME differ, NEW j \in 1 .. Len(output[o]) PROVE output[o][j] # Entry(s)
    <3>1. CASE j \in 1 .. Done(o)
      <4>1. Below(o, s)
        BY <1>1, <2>1 DEF Merge
      <4>2. output[o][j].stack < Entry(s).stack
        BY <2>2, <3>1, <4>1 DEF Below, Entry
      <4> QED
        BY <2>3, <4>2
    <3>2. CASE j \notin 1 .. Done(o) /\ output[o][j] # Malformed
      <4>1. j \in Done(o) + 1 .. Len(output[o])
        BY <2>2, <2>4, <3>2
      <4>2. CASE o \notin Passed \/ j # entry[o]
        <5>1. Entry(s).stack < output[o][j].stack
          BY <1>1, <1>7, <3>2, <4>1, <4>2, PassedFacts
        <5> QED
          BY <2>3, <5>1
      <4>3. CASE o \in Passed /\ j = entry[o]
        <5>1. Passed = Sides
          BY <1>3, <1>7, <2>1, <4>3
        <5>2. Entry(o).count # Entry(s).count
          BY <2>1, <2>4, <5>1 DEF Sides
        <5> QED
          BY <4>3, <5>2 DEF Entry
      <4> QED
        BY <4>2, <4>3
    <3>3. CASE output[o][j] = Malformed
      BY <2>2, <3>3
    <3> QED
      BY <3>1, <3>2, <3>3
  <2>5. ASSUME ~differ PROVE \E j \in 1 .. Len(output[o]) : output[o][j] = Entry(s)
    <3>1. Passed = Sides /\ Entry(s).count = Entry(o).count
      BY <2>1, <2>5 DEF Sides
    <3>2. entry[o] \in 1 .. Len(output[o]) /\ entry[o] # 0 /\ entry[s] # 0
      BY <1>3, <1>5, <2>1, <3>1
    <3>3. Entry(s).stack <= Entry(o).stack /\ Entry(o).stack <= Entry(s).stack
      BY <2>1, <3>1, <3>2 DEF Passed
    <3>4. Entry(o) \in [stack : Int, count : Int]
      BY <2>3, <3>2 DEF Entry
    <3>5. Entry(s).stack = Entry(o).stack
      BY <2>3, <3>3, <3>4
    <3>6. Entry(s) = Entry(o)
      BY <2>3, <3>1, <3>4, <3>5
    <3> QED
      BY <3>2, <3>6 DEF Entry
  <2> QED
    BY <2>1, <2>2, <2>3, <2>4, <2>5 DEF Entry
<1>8. ASSUME NEW s \in Sides
      PROVE  Found(s)' = IF s \in Passed /\ differ THEN Found(s) \cup {entry[s]} ELSE Found(s)
  <2>1. Differing(s)' = Differing(s)
    BY DEF Differing
  <2>2. Found(s)' = {i \in 1 .. Done(s)' : i \in Differing(s)}
    BY <2>1 DEF Found
  <2>3. CASE s \notin Passed
    BY <1>5, <2>2, <2>3 DEF Found
  <2>4. CASE s \in Passed
    <3>1. Done(s) \in Nat /\ Done(s)' = Done(s) + 1 /\ entry[s] = Done(s) + 1
      BY <1>5, <2>4
    <3>2. 1 .. Done(s)' = (1 .. Done(s)) \cup {entry[s]}
      BY <3>1
    <3> QED
      BY <1>7, <2>2, <2>4, <3>2 DEF Found
  <2> QED
    BY <2>3, <2>4
<1>9. ASSUME NEW s \in Sides PROVE Keeps(s, Found(s))'
  <2>1. /\ only[s] \subseteq Found(s) /\ Cardinality(only[s]) <= MaxReported
        /\ only[s] = Found(s) \/ Cardinality(only[s]) = MaxReported
    BY <1>1 DEF Merge, Keeps
  <2>2. CASE ~(s \in Passed /\ differ)
    <3>1. only'[s] = only[s]
      BY <1>1, <1>2, <2>2 DEF Recorded, CompareTypes
    <3> QED
      BY <1>8, <2>1, <2>2, <3>1 DEF Keeps
  <2>3. CASE s \in Passed /\ differ
    <3>1. only'[s] = IF Cardinality(only[s]) < MaxReported THEN only[s] \cup {entry[s]} ELSE only[s]
      BY <1>2, <2>3 DEF Recorded
    <3>2. Found(s)' = Found(s) \cup {entry[s]}
      BY <1>8, <2>3
    <3>3. entry[s] \notin only[s]
      BY <1>5, <2>1, <2>3 DEF Found
    <3>4. IsFiniteSet(only[s])
      <4>1. Found(s) \subseteq 1 .. Done(s) /\ Done(s) \in Nat
        BY <1>5 DEF Found
      <4>2. IsFiniteSet(1 .. Done(s))
        BY <4>1, FS_Interval
      <4> QED
        BY <2>1, <4>1, <4>2, FS_Subset
    <3>5. /\ Cardinality(only[s] \cup {entry[s]}) = Cardinality(only[s]) + 1
          /\ Cardinality(only[s]) \in Nat
      BY <3>3, <3>4, FS_AddElement, FS_CardinalityType
    <3>6. MaxReported \in Nat
      BY ComparisonAssumption
    <3>7. CASE Cardinality(only[s]) < MaxReported
      BY <2>1, <3>1, <3>2, <3>5, <3>6, <3>7 DEF Keeps
    <3>8. CASE ~(Cardinality(only[s]) < MaxReported)
      BY <2>1, <3>1, <3>2, <3>5, <3>6, <3>8 DEF Keeps
    <3> QED
      BY <3>7, <3>8
  <2> QED
    BY <2>2, <2>3
<1>10. matches' = (\A s \in Sides : Found(s)' = {})
  <2>1. matches = (\A s \in Sides : Found(s) = {}) /\ matches \in BOOLEAN
    BY <1>1 DEF Merge, CompareTypes
  <2>2. CASE differ
    <3>1. \E s \in Sides : Found(s)' # {}
      BY <1>3, <1>8, <2>2
    <3> QED
      BY <1>2, <2>2, <3>1
  <2>3. CASE ~differ
    BY <1>2, <1>8, <2>1, <2>3
  <2> QED
    BY <2>2, <2>3
<1> QED
  BY <1>4, <1>6, <1>9, <1>10

\* The smaller of two entries is on one side only; equal stacks are compared by count.
LEMMA DecideStep ==
  ASSUME IInv, Decide, UNCHANGED <<inputVars, sideVars>>
  PROVE  Comparing'
<1>1. /\ CompareTypes /\ wants = <<>> /\ verdict = "none"
      /\ UNCHANGED <<output, result, emitted, closed, entry, received, verdict>>
      /\ \A s \in Sides : Reading(s) /\ ~Waits(s)
  BY DEF IInv, Comparing, Decide, inputVars, sideVars, Waits
<1>2. Passed \subseteq Sides /\ \A s \in Passed : entry[s] # 0
  BY DEF Passed
<1>3. /\ wants' \in {<<"pyro", "inferno">>, <<"pyro">>, <<"inferno">>}
      /\ only' \in [Sides -> SUBSET Nat] /\ matches' \in BOOLEAN
  BY <1>1, <1>2 DEF Decide, CompareTypes, Recorded
<1>4. CompareTypes'
  BY <1>1, <1>3 DEF CompareTypes
<1>5. \A s \in Sides : Reading(s)'
  BY <1>1 DEF Reading
<1>6. Merge'
  <2>1. CASE Sound
    BY <1>1, <2>1, DecideMerge DEF Merge
  <2>2. CASE ~Sound
    BY <1>1, <2>2 DEF Merge, Sound
  <2> QED
    BY <2>1, <2>2
<1> QED
  BY <1>1, <1>4, <1>5, <1>6 DEF Comparing, Reported, ErrorExplained

\* The report rests on what both threads returned, and speaks of the whole outputs.
LEMMA JoinStep ==
  ASSUME IInv, Join, UNCHANGED <<inputVars, sideVars>>
  PROVE  Comparing'
<1>1. /\ CompareTypes /\ Types /\ wants = <<>> /\ verdict = "none"
      /\ UNCHANGED <<output, result, emitted, closed, wants, entry, received, only>>
      /\ \A s \in Sides : Reading(s) /\ ~Waits(s) /\ entry[s] = 0
  BY DEF IInv, Pipe, Comparing, Join, inputVars, sideVars, Waits
<1>2. verdict' \in {"ok", "error"} /\ matches' \in BOOLEAN
  BY <1>1 DEF Join, CompareTypes
<1>3. CompareTypes'
  BY <1>1, <1>2 DEF CompareTypes
<1>4. \A s \in Sides : Reading(s)'
  BY <1>1 DEF Reading, Waits
<1>5. ErrorExplained'
  BY <1>1 DEF Join, ErrorExplained, Sides
<1>6. ASSUME verdict' = "ok" PROVE Reported'
  <2>1. /\ \A s \in Sides : result[s] = "ok"
        /\ matches' = (matches /\
             SubSeq(output["pyro"], 1, drawn["pyro"] \div 2)
               = SubSeq(output["inferno"], 1, drawn["inferno"] \div 2))
    BY <1>1, <1>6 DEF Join
  <2>2. Sound
    BY <1>1, <2>1 DEF Sound
  <2>3. ASSUME NEW s \in Sides
        PROVE  /\ received[s] = Len(output[s]) /\ Found(s) = Differing(s)
               /\ SubSeq(output[s], 1, drawn[s] \div 2) = output[s]
    <3>1. Done(s) = Len(output[s]) /\ received[s] = Len(output[s])
      BY <1>1, <2>2, AtHand
    <3>2. DOMAIN output[s] = 1 .. Len(output[s]) /\ output[s] \in Seq([stack : Int, count : Int])
          /\ Len(output[s]) \in Nat
      BY <1>1, OutputTypes DEF Types
    <3>3. Found(s) = Differing(s)
      BY <3>1, <3>2 DEF Found, Differing
    <3>4. drawn[s] = 2 * Len(output[s])
      BY <2>1 DEF IInv, Pipe, Stages, Stage, Whole, Length
    <3>5. \A n \in Nat : (2 * n) \div 2 = n
      OBVIOUS
    <3>6. drawn[s] \div 2 = Len(output[s])
      BY <3>2, <3>4, <3>5
    <3>7. SubSeq(output[s], 1, Len(output[s])) = output[s]
      BY <3>2, SubSeqFull
    <3> QED
      BY <3>1, <3>3, <3>6, <3>7
  <2>4. output["pyro"] = output["inferno"] => matches
    <3>1. ASSUME output["pyro"] = output["inferno"], NEW s \in Sides PROVE Differing(s) = {}
      <4>1. output[Other(s)] = output[s]
        BY <3>1 DEF Other, Sides
      <4> QED
        BY <4>1, DifferingOther
    <3> QED
      BY <2>2, <2>3, <3>1 DEF IInv, Comparing, Merge
  <2>5. matches' = (output["pyro"] = output["inferno"])
    <3>1. matches' = (matches /\ output["pyro"] = output["inferno"])
      BY <2>1, <2>3 DEF Sides
    <3> QED
      BY <1>1, <2>4, <3>1 DEF CompareTypes
  <2>6. \A s \in Sides : Keeps(s, Differing(s))'
    BY <1>1, <2>2, <2>3 DEF IInv, Comparing, Merge, Keeps, Differing
  <2> QED
    BY <1>1, <2>1, <2>3, <2>5, <2>6 DEF Reported
<1> QED
  BY <1>2, <1>3, <1>4, <1>5, <1>6 DEF Comparing, Merge, Sound, Reported

\* Every step keeps the loop invariant.
LEMMA ComparingStep == IInv /\ [Next]_vars => Comparing'
<1> SUFFICES ASSUME IInv, [Next]_vars PROVE Comparing'
  OBVIOUS
<1>1. Pipe /\ Comparing /\ Pipe'
  BY PipeStep DEF IInv
<1>2. CASE Compare
  BY <1>2, ReceiveStep, DecideStep, JoinStep DEF Compare, Compares
<1>3. CASE ~Compare
  <2> SUFFICES Ahead
    BY <1>1, AheadStep
  <2>1. ASSUME NEW s \in Sides, Produce(s) \/ (s = "pyro" /\ FoldFails) PROVE Ahead
    BY <1>1, <2>1, ProduceAhead
  <2>2. CASE FoldFails
    BY <2>1, <2>2 DEF Sides
  <2>3. CASE \/ \E s \in Sides : Draw(s) \/ Hash(s) \/ FlamegraphFails(s)
             \/ Export \/ ExportFails \/ Collapse \/ CollapseFails
             \/ UNCHANGED vars
    BY <1>1, <2>3, OthersAhead
  <2> QED
    BY <1>3, <2>1, <2>2, <2>3 DEF Next, Fails
<1> QED
  BY <1>2, <1>3

\* The invariant says what the property does: the counts of a thread that returned
\* no error are those of its whole side, and a difference is missing from the report
\* only if the report is full.
LEMMA InvExact == IInv => ComparisonExact
<1> SUFFICES ASSUME IInv PROVE ComparisonExact
  OBVIOUS
<1>1. /\ Types /\ Flow /\ Stages /\ CompareTypes /\ Reported /\ ErrorExplained
      /\ \A s \in Sides : Reading(s)
  BY DEF IInv, Pipe, Comparing
<1>2. ASSUME NEW s \in Sides
      PROVE  entry[s] \in 0 .. Len(output[s]) /\ received[s] <= Len(output[s])
  <2>1. /\ emitted[s] \in Nat /\ given[s] \in Nat /\ Len(output[s]) \in Nat /\ received[s] \in Nat
        /\ emitted[s] + emitted[s] <= given[s] /\ given[s] <= 2 * Len(output[s])
        /\ received[s] <= emitted[s] /\ entry[s] \in {0, received[s]}
    BY <1>1, Numbers DEF Flow, Counted, Length, Reading, CompareTypes
  <2>2. received[s] <= Len(output[s])
    BY <2>1
  <2> QED
    BY <2>1, <2>2
<1>3. TypeOK
  BY <1>1, <1>2 DEF TypeOK, Types, CompareTypes, Flow, Counted, Folded, Reading
<1>4. ASSUME verdict = "ok", NEW s \in Sides
      PROVE  /\ received[s] = Len(output[s]) /\ drawn[s] = Length(s) /\ hashed[s] = Picture
             /\ flamegraph[s] = "ok"
             /\ Cardinality(only[s]) <= MaxReported
             /\ only[s] \subseteq Differing(s)
             /\ Cardinality(Differing(s)) <= MaxReported => only[s] = Differing(s)
  <2>1. /\ result[s] = "ok" /\ received[s] = Len(output[s]) /\ Keeps(s, Differing(s))
        /\ Stage(s)
    BY <1>1, <1>4 DEF Reported, Stages
  <2>2. drawn[s] = Length(s) /\ hashed[s] = Picture /\ flamegraph[s] = "ok"
    BY <2>1 DEF Stage, Whole
  <2>3. ASSUME Cardinality(Differing(s)) <= MaxReported PROVE only[s] = Differing(s)
    <3>1. IsFiniteSet(Differing(s))
      <4>1. Differing(s) \subseteq 1 .. Len(output[s]) /\ Len(output[s]) \in Nat
        BY <1>1, OutputTypes DEF Differing, Types
      <4>2. IsFiniteSet(1 .. Len(output[s]))
        BY <4>1, FS_Interval
      <4> QED
        BY <4>1, <4>2, FS_Subset
    <3>2. SUFFICES ASSUME Cardinality(only[s]) = MaxReported PROVE only[s] = Differing(s)
      BY <2>1 DEF Keeps
    <3>3. /\ Cardinality(only[s]) <= Cardinality(Differing(s))
          /\ Cardinality(Differing(s)) = Cardinality(only[s]) => Differing(s) = only[s]
      BY <2>1, <3>1, FS_Subset DEF Keeps
    <3>4. Cardinality(Differing(s)) \in Nat /\ MaxReported \in Nat
      BY <3>1, FS_CardinalityType, ComparisonAssumption
    <3> QED
      BY <2>3, <3>2, <3>3, <3>4
  <2> QED
    BY <2>1, <2>2, <2>3 DEF Keeps
<1>5. verdict = "ok" => export = "ok" /\ collapse = "ok"
  BY <1>1 DEF Reported, Stages, Stage, Whole, Sides
<1>6. VerdictExact
  BY <1>1, <1>4, <1>5 DEF VerdictExact, Reported, ErrorExplained
<1> QED
  BY <1>3, <1>6 DEF ComparisonExact

\* A report is returned only if both sides were folded, compared and drawn to the
\* end, and it tells exactly whether their outputs are equal and which entries differ;
\* an error is returned only if a thread failed or a line was malformed.
THEOREM ReportsAreExact == Spec => []ComparisonExact
<1>1. Init => IInv
  BY PipeInit, ComparingInit DEF IInv
<1>2. IInv /\ [Next]_vars => IInv'
  BY PipeStep, ComparingStep DEF IInv
<1> QED
  BY <1>1, <1>2, InvExact, PTL DEF Spec
=============================================================================
