--------------------------- MODULE CommandProofs ---------------------------
(***************************************************************************)
(* What MCCommand checks of its parts on small instances, as theorems.     *)
(* The suite takes a step of one part at a time and the others rest, so it *)
(* implements each part's specification (the lemmas), and what is proved   *)
(* of that specification in the part's own module holds of the suite, for  *)
(* any values of the constants of the part that meet its assumptions.      *)
(* Four parts have no proof module and are proved here first. The output,  *)
(* whose module the suite extends: what CliOutput promises about the       *)
(* descriptor, the text and the exit code, for outputs, buffers and pipes  *)
(* of any size and any number of signals. The supervised workload of       *)
(* OffcpuLaunch, whatever statuses it may end with, and however many       *)
(* signals, the limit and bpftrace's own end meet the shell between its    *)
(* commands. The cancellation scopes: for any number of threads, scopes,   *)
(* signals and States, wherever a signal meets a thread that registers or  *)
(* drops its handlers and however the handlers of two signals interleave.  *)
(* And the session with a helper: the answer of an exchange is the answer  *)
(* to its request, for requests, pipes, drains and deadlines of any size,  *)
(* a helper that writes what and when it likes, and signals at any step.   *)
(***************************************************************************)
EXTENDS MCCommand, FiniteSetTheorems, SequenceTheorems, TLAPS

-----------------------------------------------------------------------------
(* The output.                                                               *)

Writing == {"look", "try", "poll"}

\* Nothing has cut the output so far.
Clean == ~closed /\ first = 0 /\ ~ioerror

\* What FileFlags has saved is the state the process found.
Saved == IF pc \in Writing THEN saved = before ELSE nonblock = before

\* A write fails for a reason, and a broken pipe was closed.
Blame ==
    /\ ret = "pipe" => closed
    /\ ret = "cancelled" => first # 0
    /\ ret = "io" => ioerror
    /\ broken => closed

\* The command is done before the flush, the flush before the exit.
Flow ==
    /\ pc \in {"flush", "inner", "leave", "exit?", "exit"} => todo = 0
    /\ caller # "produce" => todo = 0
    /\ pc = "inner" \/ (pc = "produce" /\ front = "cargo") => buf = 0
    /\ pc \in {"exit?", "exit"} /\ Clean => buf = 0
    /\ pc \in {"enter", "flags"} \cup Writing => buf > 0

OutputInv == TypeOK /\ NothingTwice /\ Saved /\ Blame /\ Flow

\* Before the command nothing is written and nothing has failed.
LEMMA InitOutput == Init => OutputInv
<1> SUFFICES ASSUME Init PROVE OutputInv
  OBVIOUS
<1>0. SwitchesOK
  BY DEF Init, SwitchesOK
<1>1. TypeOK
  <2>1. front \in {"direct", "cargo"} /\ mode \in AllModes
    BY ModesAssumption DEF Init
  <2> QED
    BY <1>0, <2>1, SizesAssumption, SignalsAssumption DEF Init, TypeOK
<1>2. NothingTwice /\ Saved /\ Blame /\ Flow
  BY SizesAssumption DEF Init, NothingTwice, Saved, Blame, Flow, Writing
<1> QED
  BY <1>1, <1>2 DEF OutputInv

\* Every step of the process, the user and the reader keeps the invariant.
LEMMA NextOutput == OutputInv /\ Next => OutputInv'
<1> SUFFICES ASSUME OutputInv, Next PROVE OutputInv'
  OBVIOUS
<1> TypeOK /\ NothingTwice /\ Saved /\ Blame /\ Flow
  BY DEF OutputInv
<1> USE SizesAssumption, SignalsAssumption DEF Writing, Cancelled, fixed, channel,
            flags, signal
<1>1. CASE Enter
  <2>0. SwitchesOK'
    BY <1>1 DEF Enter, TypeOK, SwitchesOK
  <2>1. TypeOK'
    BY <1>1, <2>0 DEF Enter, TypeOK, NothingTwice, Flow
  <2>2. NothingTwice'
    BY <1>1 DEF Enter, TypeOK, NothingTwice, Blame
  <2>3. Saved' /\ Blame'
    BY <1>1 DEF Enter, TypeOK, Saved, Blame
  <2>4. Flow'
    BY <1>1 DEF Enter, TypeOK, Blame, Flow, Clean
  <2> QED
    BY <2>1, <2>2, <2>3, <2>4 DEF OutputInv
<1>2. CASE SetFlags
  <2>0. SwitchesOK'
    BY <1>2 DEF SetFlags, TypeOK, SwitchesOK
  <2>1. TypeOK'
    BY <1>2, <2>0 DEF SetFlags, TypeOK, NothingTwice, Flow
  <2>2. NothingTwice'
    BY <1>2 DEF SetFlags, TypeOK, NothingTwice, Blame
  <2>3. Saved' /\ Blame'
    BY <1>2 DEF SetFlags, TypeOK, Saved, Blame
  <2>4. Flow'
    BY <1>2 DEF SetFlags, TypeOK, Blame, Flow, Clean
  <2> QED
    BY <2>1, <2>2, <2>3, <2>4 DEF OutputInv
<1>3. CASE Look
  <2>0. SwitchesOK'
    BY <1>3 DEF Look, Return, TypeOK, SwitchesOK
  <2>1. TypeOK'
    BY <1>3, <2>0 DEF Look, Return, TypeOK, NothingTwice, Flow
  <2>2. NothingTwice'
    BY <1>3 DEF Look, Return, TypeOK, NothingTwice, Blame
  <2>3. Saved' /\ Blame'
    BY <1>3 DEF Look, Return, TypeOK, Saved, Blame
  <2>4. Flow'
    BY <1>3 DEF Look, Return, TypeOK, Blame, Flow, Clean
  <2> QED
    BY <2>1, <2>2, <2>3, <2>4 DEF OutputInv
<1>4. CASE TryWrite
  <2>0. SwitchesOK'
    BY <1>4 DEF TryWrite, Return, TypeOK, SwitchesOK
  <2>1. TypeOK'
    BY <1>4, <2>0 DEF TryWrite, Return, Taken, TypeOK, NothingTwice, Flow
  <2>2. NothingTwice'
    BY <1>4 DEF TryWrite, Return, Taken, TypeOK, NothingTwice, Blame
  <2>3. Saved' /\ Blame'
    BY <1>4 DEF TryWrite, Return, Taken, TypeOK, Saved, Blame
  <2>4. Flow'
    BY <1>4 DEF TryWrite, Return, Taken, TypeOK, Blame, Flow, Clean
  <2> QED
    BY <2>1, <2>2, <2>3, <2>4 DEF OutputInv
<1>5. CASE Poll
  <2>0. SwitchesOK'
    BY <1>5 DEF Poll, Return, TypeOK, SwitchesOK
  <2>1. TypeOK'
    BY <1>5, <2>0 DEF Poll, Return, TypeOK, NothingTwice, Flow
  <2>2. NothingTwice'
    BY <1>5 DEF Poll, Return, TypeOK, NothingTwice, Blame
  <2>3. Saved' /\ Blame'
    BY <1>5 DEF Poll, Return, TypeOK, Saved, Blame
  <2>4. Flow'
    BY <1>5 DEF Poll, Return, TypeOK, Blame, Flow, Clean
  <2> QED
    BY <2>1, <2>2, <2>3, <2>4 DEF OutputInv
<1>6. CASE Produce
  <2>0. SwitchesOK'
    BY <1>6 DEF Produce, TypeOK, SwitchesOK
  <2>1. TypeOK'
    BY <1>6, <2>0 DEF Produce, Call, TypeOK, NothingTwice, Flow
  <2>2. NothingTwice'
    BY <1>6 DEF Produce, Call, TypeOK, NothingTwice, Blame, Flow
  <2>3. Saved' /\ Blame'
    BY <1>6 DEF Produce, Call, TypeOK, Saved, Blame
  <2>4. Flow'
    BY <1>6 DEF Produce, Call, TypeOK, Blame, Flow, Clean
  <2> QED
    BY <2>1, <2>2, <2>3, <2>4 DEF OutputInv
<1>7. CASE Produced
  <2>0. SwitchesOK'
    BY <1>7 DEF Produced, TypeOK, SwitchesOK
  <2>1. TypeOK'
    BY <1>7, <2>0 DEF Produced, TypeOK, NothingTwice, Flow
  <2>2. NothingTwice'
    BY <1>7 DEF Produced, TypeOK, NothingTwice, Blame
  <2>3. Saved' /\ Blame'
    BY <1>7 DEF Produced, TypeOK, Saved, Blame
  <2>4. Flow'
    BY <1>7 DEF Produced, TypeOK, Blame, Flow, Clean
  <2> QED
    BY <2>1, <2>2, <2>3, <2>4 DEF OutputInv
<1>8. CASE Continue
  <2>0. SwitchesOK'
    BY <1>8 DEF Continue, TypeOK, SwitchesOK
  <2>1. TypeOK'
    BY <1>8, <2>0 DEF Continue, Call, TypeOK, NothingTwice, Flow
  <2>2. NothingTwice'
    BY <1>8 DEF Continue, Call, TypeOK, NothingTwice, Blame
  <2>3. Saved' /\ Blame'
    BY <1>8 DEF Continue, Call, TypeOK, Saved, Blame
  <2>4. Flow'
    BY <1>8 DEF Continue, Call, TypeOK, Blame, Flow, Clean
  <2> QED
    BY <2>1, <2>2, <2>3, <2>4 DEF OutputInv
<1>9. CASE ProduceFails
  <2>0. SwitchesOK'
    BY <1>9 DEF ProduceFails, TypeOK, SwitchesOK
  <2>1. TypeOK'
    BY <1>9, <2>0 DEF ProduceFails, TypeOK, NothingTwice, Flow
  <2>2. NothingTwice'
    BY <1>9 DEF ProduceFails, TypeOK, NothingTwice, Blame
  <2>3. Saved' /\ Blame'
    BY <1>9 DEF ProduceFails, TypeOK, Saved, Blame
  <2>4. Flow'
    BY <1>9 DEF ProduceFails, TypeOK, Blame, Flow, Clean
  <2> QED
    BY <2>1, <2>2, <2>3, <2>4 DEF OutputInv
<1>10. CASE Flush
  <2>0. SwitchesOK'
    BY <1>10 DEF Flush, TypeOK, SwitchesOK
  <2>1. TypeOK'
    BY <1>10, <2>0 DEF Flush, Call, BrokenPipeCode, OrSignal, CommandCode, SIGINT,
       WORKLOAD, TypeOK, NothingTwice, Flow
  <2>2. NothingTwice'
    BY <1>10 DEF Flush, Call, BrokenPipeCode, OrSignal, CommandCode, TypeOK,
       NothingTwice, Blame
  <2>3. Saved' /\ Blame'
    BY <1>10 DEF Flush, Call, BrokenPipeCode, OrSignal, CommandCode, TypeOK, Saved,
       Blame
  <2>4. Flow'
    BY <1>10 DEF Flush, Call, BrokenPipeCode, OrSignal, CommandCode, TypeOK, Blame,
       Flow, Clean
  <2> QED
    BY <2>1, <2>2, <2>3, <2>4 DEF OutputInv
<1>11. CASE FlushFails
  <2>0. SwitchesOK'
    BY <1>11 DEF FlushFails, TypeOK, SwitchesOK
  <2>1. TypeOK'
    BY <1>11, <2>0 DEF FlushFails, BrokenPipeCode, OrSignal, CommandCode, SIGINT,
       WORKLOAD, TypeOK, NothingTwice, Flow
  <2>2. NothingTwice'
    BY <1>11 DEF FlushFails, BrokenPipeCode, OrSignal, CommandCode, TypeOK,
       NothingTwice, Blame
  <2>3. Saved' /\ Blame'
    BY <1>11 DEF FlushFails, BrokenPipeCode, OrSignal, CommandCode, TypeOK, Saved, Blame
  <2>4. Flow'
    BY <1>11 DEF FlushFails, BrokenPipeCode, OrSignal, CommandCode, TypeOK, Blame, Flow,
       Clean
  <2> QED
    BY <2>1, <2>2, <2>3, <2>4 DEF OutputInv
<1>12. CASE InnerFlush
  <2>0. SwitchesOK'
    BY <1>12 DEF InnerFlush, TypeOK, SwitchesOK
  <2>1. TypeOK'
    BY <1>12, <2>0 DEF InnerFlush, CommandCode, SIGINT, WORKLOAD, TypeOK, NothingTwice,
       Flow
  <2>2. NothingTwice'
    BY <1>12 DEF InnerFlush, CommandCode, TypeOK, NothingTwice, Blame
  <2>3. Saved' /\ Blame'
    BY <1>12 DEF InnerFlush, CommandCode, TypeOK, Saved, Blame
  <2>4. Flow'
    BY <1>12 DEF InnerFlush, CommandCode, TypeOK, Blame, Flow, Clean
  <2> QED
    BY <2>1, <2>2, <2>3, <2>4 DEF OutputInv
<1>13. CASE Leave
  <2>0. SwitchesOK'
    BY <1>13 DEF Leave, TypeOK, SwitchesOK
  <2>1. TypeOK'
    BY <1>13, <2>0 DEF Leave, Call, TypeOK, NothingTwice, Flow
  <2>2. NothingTwice'
    BY <1>13 DEF Leave, Call, TypeOK, NothingTwice, Blame
  <2>3. Saved' /\ Blame'
    BY <1>13 DEF Leave, Call, TypeOK, Saved, Blame
  <2>4. Flow'
    BY <1>13 DEF Leave, Call, TypeOK, Blame, Flow, Clean
  <2> QED
    BY <2>1, <2>2, <2>3, <2>4 DEF OutputInv
<1>14. CASE DropFails
  <2>0. SwitchesOK'
    BY <1>14 DEF DropFails, TypeOK, SwitchesOK
  <2>1. TypeOK'
    BY <1>14, <2>0 DEF DropFails, TypeOK, NothingTwice, Flow
  <2>2. NothingTwice'
    BY <1>14 DEF DropFails, TypeOK, NothingTwice, Blame
  <2>3. Saved' /\ Blame'
    BY <1>14 DEF DropFails, TypeOK, Saved, Blame
  <2>4. Flow'
    BY <1>14 DEF DropFails, TypeOK, Blame, Flow, Clean
  <2> QED
    BY <2>1, <2>2, <2>3, <2>4 DEF OutputInv
<1>15. CASE Exit
  <2>0. SwitchesOK'
    BY <1>15 DEF Exit, TypeOK, SwitchesOK
  <2>1. TypeOK'
    BY <1>15, <2>0 DEF Exit, OrSignal, SIGINT, WORKLOAD, TypeOK, NothingTwice, Flow
  <2>2. NothingTwice'
    BY <1>15 DEF Exit, OrSignal, TypeOK, NothingTwice, Blame
  <2>3. Saved' /\ Blame'
    BY <1>15 DEF Exit, OrSignal, TypeOK, Saved, Blame
  <2>4. Flow'
    BY <1>15 DEF Exit, OrSignal, TypeOK, Blame, Flow, Clean
  <2> QED
    BY <2>1, <2>2, <2>3, <2>4 DEF OutputInv
<1>16. CASE Signal
  <2>0. SwitchesOK'
    BY <1>16 DEF Signal, TypeOK, SwitchesOK
  <2>1. TypeOK'
    BY <1>16, <2>0 DEF Signal, SIGINT, WORKLOAD, TypeOK, NothingTwice, Flow
  <2>2. NothingTwice'
    BY <1>16 DEF Signal, TypeOK, NothingTwice, Blame
  <2>3. Saved' /\ Blame'
    BY <1>16 DEF Signal, SIGINT, TypeOK, Saved, Blame
  <2>4. Flow'
    BY <1>16 DEF Signal, TypeOK, Blame, Flow, Clean
  <2> QED
    BY <2>1, <2>2, <2>3, <2>4 DEF OutputInv
<1>17. CASE ReaderDrains
  <2>0. SwitchesOK'
    BY <1>17 DEF ReaderDrains, TypeOK, SwitchesOK
  <2>1. TypeOK'
    BY <1>17, <2>0 DEF ReaderDrains, TypeOK, NothingTwice, Flow
  <2>2. NothingTwice'
    BY <1>17 DEF ReaderDrains, TypeOK, NothingTwice, Blame
  <2>3. Saved' /\ Blame'
    BY <1>17 DEF ReaderDrains, TypeOK, Saved, Blame
  <2>4. Flow'
    BY <1>17 DEF ReaderDrains, TypeOK, Blame, Flow, Clean
  <2> QED
    BY <2>1, <2>2, <2>3, <2>4 DEF OutputInv
<1>18. CASE ReaderCloses
  <2>0. SwitchesOK'
    BY <1>18 DEF ReaderCloses, TypeOK, SwitchesOK
  <2>1. TypeOK'
    BY <1>18, <2>0 DEF ReaderCloses, TypeOK, NothingTwice, Flow
  <2>2. NothingTwice'
    BY <1>18 DEF ReaderCloses, TypeOK, NothingTwice, Blame
  <2>3. Saved' /\ Blame'
    BY <1>18 DEF ReaderCloses, TypeOK, Saved, Blame
  <2>4. Flow'
    BY <1>18 DEF ReaderCloses, TypeOK, Blame, Flow, Clean
  <2> QED
    BY <2>1, <2>2, <2>3, <2>4 DEF OutputInv
<1> QED
  BY <1>1, <1>2, <1>3, <1>4, <1>5, <1>6, <1>7, <1>8, <1>9, <1>10, <1>11, <1>12, <1>13,
     <1>14, <1>15, <1>16, <1>17, <1>18 DEF Next, Process

\* OutputInv is about the variables.
LEMMA StutterIInv == OutputInv /\ UNCHANGED vars => OutputInv'
BY DEF vars, OutputInv, TypeOK, SwitchesOK, NothingTwice, Saved, Blame, Flow, Clean

\* OutputInv is inductive.
LEMMA AlwaysOutput == Spec => []OutputInv
<1>1. OutputInv /\ [Next]_vars => OutputInv'
  BY NextOutput, StutterIInv
<1> QED
  BY InitOutput, <1>1, PTL DEF Spec

\* CliWriter::write never leaves O_NONBLOCK changed on the descriptor it shares,
\* whichever system call fails and whenever a signal arrives.
THEOREM DescriptorRestored == Spec => []FlagsRestored
<1>1. OutputInv => FlagsRestored
  BY DEF OutputInv, Saved, FlagsRestored, Writing
<1> QED
  BY AlwaysOutput, <1>1, PTL

\* BufWriter's and write_all's continuation of partial writes neither loses nor
\* repeats output.
THEOREM OutputOnce == Spec => []NothingTwice
<1>1. OutputInv => NothingTwice
  BY DEF OutputInv
<1> QED
  BY AlwaysOutput, <1>1, PTL

\* run_cli_to_writers flushes on errors too: what was produced reaches a reader
\* that stays, unless a signal or a failing write cut it.
THEOREM TextDelivered == Spec => []ErrorTextDelivered
<1>1. OutputInv => ErrorTextDelivered
  BY SizesAssumption DEF OutputInv, TypeOK, NothingTwice, Flow, Clean,
     ErrorTextDelivered
<1> QED
  BY AlwaysOutput, <1>1, PTL

\* Output is exact for outputs, buffers and pipes of any size.
THEOREM OutputIsExact == Spec => []OutputExact
<1>1. OutputInv /\ NothingTwice /\ ErrorTextDelivered => OutputExact
  BY DEF OutputInv, OutputExact
<1> QED
  BY <1>1, AlwaysOutput, OutputOnce, TextDelivered, PTL

-----------------------------------------------------------------------------
(* The supervised workload.                                                *)

\* The shell knows its child from the fork on, and has its status once it stops
\* waiting.
ScriptInv ==
  /\ launch_workload => launch_bang
  /\ launch_bang <=> launch_child # Launch!NoChild
  /\ launch_pc \in {"trap", "redirect", "fork"} => ~launch_bang
  /\ launch_pc \in {"assign", "close", "wait", "status", "ignore", "open", "write",
             "kill", "stop_wait"} => launch_bang
  /\ launch_pc \in {"status", "ignore", "open", "write"} => launch_child # Launch!Running
  /\ launch_pc \in {"ignore", "open", "write"} => launch_status = launch_child
  /\ launch_child = Launch!Killed => ~Launch!ShellLives

\* A shell that was told to stop has it before it while the trap is in force, and
\* a workload that ended without it ended alone.
TrapInv ==
  /\ launch_pc = "trap" => ~launch_told
  /\ launch_pc \in Launch!Trapped /\ launch_told => launch_pending
  /\ launch_pending => launch_told /\ (Launch!ShellLives => launch_pc \in Launch!Trapped)
  /\ /\ launch_pc \in Launch!Trapped \cup {"open", "write"} /\ ~launch_pending
     /\ launch_child \notin {Launch!NoChild, Launch!Running}
     => launch_alone
  /\ launch_pc \in {"silence", "stop_open", "stop_write", "name", "kill", "stop_wait"}
     => launch_told

\* A status in the file is that of a workload that ended alone; `stopped` is
\* written by a shell that was told to.
FileInv ==
  /\ launch_pc \in {"name", "kill", "stop_wait"} => launch_file = Launch!Stopped
  /\ launch_file = Launch!Stopped =>
       launch_told /\ launch_pc \in {"name", "kill", "stop_wait", "exited", "dead"}
  /\ launch_file >= 0 => launch_pc = "exited" /\ launch_file = launch_child /\ launch_alone
  /\ launch_pc = "exited" =>
       launch_child # Launch!Running /\ (launch_file = Launch!Stopped \/ launch_file >= 0)

\* After the last word nothing runs that could change what it is about.
EndInv ==
  /\ launch_cancelled => launch_signals > 0
  /\ launch_recorder \in {"int", "term"} => launch_signals > 0
  /\ launch_outcome # "none" =>
       launch_recorder \notin {"run", "ending"} /\ ~Launch!ShellLives
       /\ launch_child # Launch!Running

\* The inductive invariant.
LaunchInv ==
  Launch!TypeOK /\ ScriptInv /\ TrapInv /\ FileInv /\ EndInv /\ Launch!OutcomeTrue

-----------------------------------------------------------------------------
(* Every step keeps the invariant.                                           *)

\* A signal for the group, wherever the shell is.
LEMMA GroupSignalKeeps ==
  ASSUME Launch!LaunchAssumption, LaunchInv, NEW sig \in {"int", "term"},
      NEW forwarded \in BOOLEAN,
         Launch!GroupSignal(sig, forwarded)
  PROVE  LaunchInv'
<1> USE DEF LaunchInv, Launch!ShellLives, Launch!Trapped, Launch!NoChild,
            Launch!Running, Launch!Absent, Launch!Cut, Launch!Stopped,
            Launch!Terminated, Launch!Killed, Launch!shellVars, Launch!childVars,
            Launch!traceVars, Launch!userVars
<1>1. Launch!TypeOK'
  <2>1. launch_pc' \in Launch!Trapped \cup {"trap", "open", "write", "silence",
            "stop_open", "stop_write",
                             "name", "kill", "stop_wait", "dead", "exited"}
    BY DEF Launch!GroupSignal, Launch!TellShell, Launch!TellChild, Launch!TypeOK
  <2>2. /\ launch_pending' \in BOOLEAN /\ launch_bang' \in BOOLEAN
               /\ launch_workload' \in BOOLEAN
        /\ launch_obstinate' \in BOOLEAN /\ launch_alone' \in BOOLEAN
               /\ launch_limited' \in BOOLEAN
        /\ launch_cancelled' \in BOOLEAN /\ launch_told' \in BOOLEAN
    BY DEF Launch!GroupSignal, Launch!TellShell, Launch!TellChild, Launch!TypeOK
  <2>3. launch_child' \in {Launch!NoChild, Launch!Running, Launch!Terminated,
            Launch!Killed} \cup WorkloadStatuses
    BY DEF Launch!GroupSignal, Launch!TellShell, Launch!TellChild, Launch!TypeOK
  <2>4. /\ launch_status' \in {Launch!Terminated} \cup WorkloadStatuses \cup {0}
        /\ launch_file' \in {Launch!Absent, Launch!Cut, Launch!Stopped,
               Launch!Terminated} \cup WorkloadStatuses
    BY DEF Launch!GroupSignal, Launch!TellShell, Launch!TellChild, Launch!TypeOK
  <2>5. /\ launch_recorder' \in {"run", "ending", "ok", "int", "term", "failed", "killed"}
        /\ launch_outcome' \in Launch!Outcomes \cup {"none"}
               /\ launch_signals' \in 0 .. MaxSignals
    BY DEF Launch!GroupSignal, Launch!TellShell, Launch!TellChild, Launch!TypeOK,
       Launch!LaunchAssumption
  <2> QED
    BY <2>1, <2>2, <2>3, <2>4, <2>5 DEF Launch!TypeOK
<1>2. ScriptInv'
  BY DEF Launch!GroupSignal, Launch!TellShell, Launch!TellChild, Launch!TypeOK,
     ScriptInv, Launch!LaunchAssumption
<1>3. TrapInv'
  BY DEF Launch!GroupSignal, Launch!TellShell, Launch!TellChild, Launch!TypeOK,
     ScriptInv, TrapInv
<1>4. FileInv'
  BY DEF Launch!GroupSignal, Launch!TellShell, Launch!TellChild, Launch!TypeOK,
     ScriptInv, TrapInv, FileInv, Launch!LaunchAssumption
<1>5. EndInv'
  BY DEF Launch!GroupSignal, Launch!TellShell, Launch!TellChild, Launch!TypeOK, TrapInv,
     EndInv
<1>6. Launch!OutcomeTrue'
  BY DEF Launch!GroupSignal, Launch!TellShell, Launch!TellChild, Launch!TypeOK, FileInv,
     EndInv, Launch!OutcomeTrue, Launch!LaunchAssumption
<1> QED
  BY <1>1, <1>2, <1>3, <1>4, <1>5, <1>6

\* The limit.
LEMMA DurationKeeps ==
  ASSUME Launch!LaunchAssumption, LaunchInv, Launch!DurationElapsed
  PROVE  LaunchInv'
<1> USE DEF LaunchInv, Launch!ShellLives, Launch!Trapped, Launch!NoChild,
            Launch!Running, Launch!Absent, Launch!Cut, Launch!Stopped,
            Launch!Terminated, Launch!Killed, Launch!shellVars, Launch!childVars,
            Launch!traceVars, Launch!userVars
<1>1. Launch!TypeOK'
  BY DEF Launch!DurationElapsed, Launch!TypeOK, Launch!LaunchAssumption, Launch!Outcomes
<1>2. ScriptInv'
  BY DEF Launch!DurationElapsed, Launch!TypeOK, ScriptInv, Launch!LaunchAssumption
<1>3. TrapInv'
  BY DEF Launch!DurationElapsed, Launch!TypeOK, ScriptInv, TrapInv
<1>4. FileInv'
  BY DEF Launch!DurationElapsed, Launch!TypeOK, ScriptInv, TrapInv, FileInv,
     Launch!LaunchAssumption
<1>5. EndInv'
  BY DEF Launch!DurationElapsed, Launch!TypeOK, TrapInv, EndInv
<1>6. Launch!OutcomeTrue'
  BY DEF Launch!DurationElapsed, Launch!TypeOK, FileInv, EndInv, Launch!OutcomeTrue,
     Launch!LaunchAssumption
<1> QED
  BY <1>1, <1>2, <1>3, <1>4, <1>5, <1>6

\* A recorder that ends by itself.
LEMMA StopsKeeps ==
  ASSUME Launch!LaunchAssumption, LaunchInv, Launch!RecorderStops
  PROVE  LaunchInv'
<1> USE DEF LaunchInv, Launch!ShellLives, Launch!Trapped, Launch!NoChild,
            Launch!Running, Launch!Absent, Launch!Cut, Launch!Stopped,
            Launch!Terminated, Launch!Killed, Launch!shellVars, Launch!childVars,
            Launch!traceVars, Launch!userVars
<1>1. Launch!TypeOK'
  BY DEF Launch!RecorderStops, Launch!TypeOK, Launch!LaunchAssumption, Launch!Outcomes
<1>2. ScriptInv'
  BY DEF Launch!RecorderStops, Launch!TypeOK, ScriptInv, Launch!LaunchAssumption
<1>3. TrapInv'
  BY DEF Launch!RecorderStops, Launch!TypeOK, ScriptInv, TrapInv
<1>4. FileInv'
  BY DEF Launch!RecorderStops, Launch!TypeOK, ScriptInv, TrapInv, FileInv,
     Launch!LaunchAssumption
<1>5. EndInv'
  BY DEF Launch!RecorderStops, Launch!TypeOK, TrapInv, EndInv
<1>6. Launch!OutcomeTrue'
  BY DEF Launch!RecorderStops, Launch!TypeOK, FileInv, EndInv, Launch!OutcomeTrue,
     Launch!LaunchAssumption
<1> QED
  BY <1>1, <1>2, <1>3, <1>4, <1>5, <1>6

\* A recorder that takes its child along.
LEMMA TerminatesKeeps ==
  ASSUME Launch!LaunchAssumption, LaunchInv, Launch!RecorderTerminates
  PROVE  LaunchInv'
<1> USE DEF LaunchInv, Launch!ShellLives, Launch!Trapped, Launch!NoChild,
            Launch!Running, Launch!Absent, Launch!Cut, Launch!Stopped,
            Launch!Terminated, Launch!Killed, Launch!shellVars, Launch!childVars,
            Launch!traceVars, Launch!userVars
<1>1. Launch!TypeOK'
  <2>1. launch_pc' \in Launch!Trapped \cup {"trap", "open", "write", "silence",
            "stop_open", "stop_write",
                             "name", "kill", "stop_wait", "dead", "exited"}
    BY DEF Launch!RecorderTerminates, Launch!TellShell, Launch!TypeOK
  <2>2. /\ launch_pending' \in BOOLEAN /\ launch_bang' \in BOOLEAN
               /\ launch_workload' \in BOOLEAN
        /\ launch_obstinate' \in BOOLEAN /\ launch_alone' \in BOOLEAN
               /\ launch_limited' \in BOOLEAN
        /\ launch_cancelled' \in BOOLEAN /\ launch_told' \in BOOLEAN
    BY DEF Launch!RecorderTerminates, Launch!TellShell, Launch!TypeOK
  <2>3. launch_child' \in {Launch!NoChild, Launch!Running, Launch!Terminated,
            Launch!Killed} \cup WorkloadStatuses
    BY DEF Launch!RecorderTerminates, Launch!TellShell, Launch!TypeOK
  <2>4. /\ launch_status' \in {Launch!Terminated} \cup WorkloadStatuses \cup {0}
        /\ launch_file' \in {Launch!Absent, Launch!Cut, Launch!Stopped,
               Launch!Terminated} \cup WorkloadStatuses
    BY DEF Launch!RecorderTerminates, Launch!TellShell, Launch!TypeOK
  <2>5. /\ launch_recorder' \in {"run", "ending", "ok", "int", "term", "failed", "killed"}
        /\ launch_outcome' \in Launch!Outcomes \cup {"none"}
               /\ launch_signals' \in 0 .. MaxSignals
    BY DEF Launch!RecorderTerminates, Launch!TellShell, Launch!TypeOK,
       Launch!LaunchAssumption
  <2> QED
    BY <2>1, <2>2, <2>3, <2>4, <2>5 DEF Launch!TypeOK
<1>2. ScriptInv'
  BY DEF Launch!RecorderTerminates, Launch!TellShell, Launch!TypeOK, ScriptInv,
     Launch!LaunchAssumption
<1>3. TrapInv'
  BY DEF Launch!RecorderTerminates, Launch!TellShell, Launch!TypeOK, ScriptInv, TrapInv
<1>4. FileInv'
  BY DEF Launch!RecorderTerminates, Launch!TellShell, Launch!TypeOK, ScriptInv, TrapInv,
     FileInv, Launch!LaunchAssumption
<1>5. EndInv'
  BY DEF Launch!RecorderTerminates, Launch!TellShell, Launch!TypeOK, TrapInv, EndInv
<1>6. Launch!OutcomeTrue'
  BY DEF Launch!RecorderTerminates, Launch!TellShell, Launch!TypeOK, FileInv, EndInv,
     Launch!OutcomeTrue, Launch!LaunchAssumption
<1> QED
  BY <1>1, <1>2, <1>3, <1>4, <1>5, <1>6

\* A recorder that is gone.
LEMMA ExitsKeeps ==
  ASSUME Launch!LaunchAssumption, LaunchInv, Launch!RecorderExits
  PROVE  LaunchInv'
<1> USE DEF LaunchInv, Launch!ShellLives, Launch!Trapped, Launch!NoChild,
            Launch!Running, Launch!Absent, Launch!Cut, Launch!Stopped,
            Launch!Terminated, Launch!Killed, Launch!shellVars, Launch!childVars,
            Launch!traceVars, Launch!userVars
<1>1. Launch!TypeOK'
  BY DEF Launch!RecorderExits, Launch!TypeOK, Launch!LaunchAssumption, Launch!Outcomes
<1>2. ScriptInv'
  BY DEF Launch!RecorderExits, Launch!TypeOK, ScriptInv, Launch!LaunchAssumption
<1>3. TrapInv'
  BY DEF Launch!RecorderExits, Launch!TypeOK, ScriptInv, TrapInv
<1>4. FileInv'
  BY DEF Launch!RecorderExits, Launch!TypeOK, ScriptInv, TrapInv, FileInv,
     Launch!LaunchAssumption
<1>5. EndInv'
  BY DEF Launch!RecorderExits, Launch!TypeOK, TrapInv, EndInv
<1>6. Launch!OutcomeTrue'
  BY DEF Launch!RecorderExits, Launch!TypeOK, FileInv, EndInv, Launch!OutcomeTrue,
     Launch!LaunchAssumption
<1> QED
  BY <1>1, <1>2, <1>3, <1>4, <1>5, <1>6

\* The workload ends by itself.
LEMMA WorkloadKeeps ==
  ASSUME Launch!LaunchAssumption, LaunchInv, Launch!WorkloadEnds
  PROVE  LaunchInv'
<1> USE DEF LaunchInv, Launch!ShellLives, Launch!Trapped, Launch!NoChild,
            Launch!Running, Launch!Absent, Launch!Cut, Launch!Stopped,
            Launch!Terminated, Launch!Killed, Launch!shellVars, Launch!childVars,
            Launch!traceVars, Launch!userVars
<1>1. Launch!TypeOK'
  BY DEF Launch!WorkloadEnds, Launch!TypeOK, Launch!LaunchAssumption, Launch!Outcomes
<1>2. ScriptInv'
  BY DEF Launch!WorkloadEnds, Launch!TypeOK, ScriptInv, Launch!LaunchAssumption
<1>3. TrapInv'
  BY DEF Launch!WorkloadEnds, Launch!TypeOK, ScriptInv, TrapInv
<1>4. FileInv'
  BY DEF Launch!WorkloadEnds, Launch!TypeOK, ScriptInv, TrapInv, FileInv,
     Launch!LaunchAssumption
<1>5. EndInv'
  BY DEF Launch!WorkloadEnds, Launch!TypeOK, TrapInv, EndInv
<1>6. Launch!OutcomeTrue'
  BY DEF Launch!WorkloadEnds, Launch!TypeOK, FileInv, EndInv, Launch!OutcomeTrue,
     Launch!LaunchAssumption
<1> QED
  BY <1>1, <1>2, <1>3, <1>4, <1>5, <1>6

\* The shell takes its trap.
LEMMA InterruptKeeps ==
  ASSUME Launch!LaunchAssumption, LaunchInv, Launch!Interrupt
  PROVE  LaunchInv'
<1>1. Launch!TypeOK'
  BY DEF LaunchInv, Launch!Interrupt, Launch!TypeOK, Launch!childVars,
     Launch!traceVars, Launch!userVars
<1> USE DEF LaunchInv, Launch!ShellLives, Launch!Trapped, Launch!NoChild,
            Launch!Running, Launch!Absent, Launch!Cut, Launch!Stopped,
            Launch!Terminated, Launch!Killed, Launch!shellVars, Launch!childVars,
            Launch!traceVars, Launch!userVars
<1>2. ScriptInv'
  BY DEF Launch!Interrupt, Launch!TypeOK, ScriptInv, Launch!LaunchAssumption
<1>3. TrapInv'
  BY DEF Launch!Interrupt, Launch!TypeOK, ScriptInv, TrapInv
<1>4. FileInv'
  BY DEF Launch!Interrupt, Launch!TypeOK, ScriptInv, TrapInv, FileInv,
     Launch!LaunchAssumption
<1>5. EndInv'
  BY DEF Launch!Interrupt, Launch!TypeOK, TrapInv, EndInv
<1>6. Launch!OutcomeTrue'
  BY DEF Launch!Interrupt, Launch!TypeOK, FileInv, EndInv, Launch!OutcomeTrue,
     Launch!LaunchAssumption
<1> QED
  BY <1>1, <1>2, <1>3, <1>4, <1>5, <1>6

\* The script up to `wait`.
LEMMA LaunchKeeps ==
  ASSUME Launch!LaunchAssumption, LaunchInv, Launch!Launch
  PROVE  LaunchInv'
<1> USE DEF LaunchInv, Launch!ShellLives, Launch!Trapped, Launch!NoChild,
            Launch!Running, Launch!Absent, Launch!Cut, Launch!Stopped,
            Launch!Terminated, Launch!Killed, Launch!shellVars, Launch!childVars,
            Launch!traceVars, Launch!userVars
<1>1. Launch!TypeOK'
  <2>1. launch_pc' \in Launch!Trapped \cup {"trap", "open", "write", "silence",
            "stop_open", "stop_write",
                             "name", "kill", "stop_wait", "dead", "exited"}
    BY DEF Launch!Launch, Launch!At, Launch!GoTo, Launch!TypeOK
  <2>2. /\ launch_pending' \in BOOLEAN /\ launch_bang' \in BOOLEAN
               /\ launch_workload' \in BOOLEAN
        /\ launch_obstinate' \in BOOLEAN /\ launch_alone' \in BOOLEAN
               /\ launch_limited' \in BOOLEAN
        /\ launch_cancelled' \in BOOLEAN /\ launch_told' \in BOOLEAN
    BY DEF Launch!Launch, Launch!At, Launch!GoTo, Launch!TypeOK
  <2>3. launch_child' \in {Launch!NoChild, Launch!Running, Launch!Terminated,
            Launch!Killed} \cup WorkloadStatuses
    BY DEF Launch!Launch, Launch!At, Launch!GoTo, Launch!TypeOK
  <2>4. /\ launch_status' \in {Launch!Terminated} \cup WorkloadStatuses \cup {0}
        /\ launch_file' \in {Launch!Absent, Launch!Cut, Launch!Stopped,
               Launch!Terminated} \cup WorkloadStatuses
    BY DEF Launch!Launch, Launch!At, Launch!GoTo, Launch!TypeOK
  <2>5. /\ launch_recorder' \in {"run", "ending", "ok", "int", "term", "failed", "killed"}
        /\ launch_outcome' \in Launch!Outcomes \cup {"none"}
               /\ launch_signals' \in 0 .. MaxSignals
    BY DEF Launch!Launch, Launch!At, Launch!GoTo, Launch!TypeOK, Launch!LaunchAssumption
  <2> QED
    BY <2>1, <2>2, <2>3, <2>4, <2>5 DEF Launch!TypeOK
<1>2. ScriptInv'
  BY DEF Launch!Launch, Launch!At, Launch!GoTo, Launch!TypeOK, ScriptInv,
     Launch!LaunchAssumption
<1>3. TrapInv'
  <2>1. UNCHANGED <<launch_pending, launch_told, launch_alone>> /\ ~launch_pending
    BY DEF Launch!Launch, Launch!At, Launch!GoTo
  <2>2. CASE launch_pc = "trap" /\ launch_pc' = "redirect" /\ launch_child' = launch_child
    BY <2>1, <2>2 DEF Launch!TypeOK, ScriptInv, TrapInv
  <2>3. CASE launch_pc = "redirect" /\ launch_pc' = "fork" /\ launch_child' = launch_child
    BY <2>1, <2>3 DEF Launch!TypeOK, ScriptInv, TrapInv
  <2>4. CASE launch_pc = "fork" /\ launch_pc' = "assign" /\ launch_child' = Launch!Running
    BY <2>1, <2>4 DEF Launch!TypeOK, ScriptInv, TrapInv
  <2>5. CASE launch_pc \in {"assign", "close"} /\ launch_pc' \in {"close", "wait"}
            /\ launch_child' = launch_child
    BY <2>1, <2>5 DEF Launch!TypeOK, ScriptInv, TrapInv
  <2> QED
    BY <2>2, <2>3, <2>4, <2>5 DEF Launch!Launch, Launch!At, Launch!GoTo
<1>4. FileInv'
  BY DEF Launch!Launch, Launch!At, Launch!GoTo, Launch!TypeOK, ScriptInv, TrapInv,
     FileInv, Launch!LaunchAssumption
<1>5. EndInv'
  BY DEF Launch!Launch, Launch!At, Launch!GoTo, Launch!TypeOK, TrapInv, EndInv
<1>6. Launch!OutcomeTrue'
  BY DEF Launch!Launch, Launch!At, Launch!GoTo, Launch!TypeOK, FileInv, EndInv,
     Launch!OutcomeTrue, Launch!LaunchAssumption
<1> QED
  BY <1>1, <1>2, <1>3, <1>4, <1>5, <1>6

\* The script after it.
LEMMA ReportKeeps ==
  ASSUME Launch!LaunchAssumption, LaunchInv, Launch!Report
  PROVE  LaunchInv'
<1> USE DEF LaunchInv, Launch!ShellLives, Launch!Trapped, Launch!NoChild,
            Launch!Running, Launch!Absent, Launch!Cut, Launch!Stopped,
            Launch!Terminated, Launch!Killed, Launch!shellVars, Launch!childVars,
            Launch!traceVars, Launch!userVars
<1>1. Launch!TypeOK'
  <2>1. launch_pc' \in Launch!Trapped \cup {"trap", "open", "write", "silence",
            "stop_open", "stop_write",
                             "name", "kill", "stop_wait", "dead", "exited"}
    BY DEF Launch!Report, Launch!At, Launch!GoTo, Launch!TypeOK
  <2>2. /\ launch_pending' \in BOOLEAN /\ launch_bang' \in BOOLEAN
               /\ launch_workload' \in BOOLEAN
        /\ launch_obstinate' \in BOOLEAN /\ launch_alone' \in BOOLEAN
               /\ launch_limited' \in BOOLEAN
        /\ launch_cancelled' \in BOOLEAN /\ launch_told' \in BOOLEAN
    BY DEF Launch!Report, Launch!At, Launch!GoTo, Launch!TypeOK
  <2>3. launch_child' \in {Launch!NoChild, Launch!Running, Launch!Terminated,
            Launch!Killed} \cup WorkloadStatuses
    BY DEF Launch!Report, Launch!At, Launch!GoTo, Launch!TypeOK
  <2>4. /\ launch_status' \in {Launch!Terminated} \cup WorkloadStatuses \cup {0}
        /\ launch_file' \in {Launch!Absent, Launch!Cut, Launch!Stopped,
               Launch!Terminated} \cup WorkloadStatuses
    <3>1. /\ launch_pc = "status" => launch_child \in {Launch!Terminated}
                 \cup WorkloadStatuses
          /\ launch_pc = "write" => launch_status \in {Launch!Terminated}
                 \cup WorkloadStatuses
      BY DEF Launch!TypeOK, ScriptInv
    <3> QED
      BY <3>1 DEF Launch!Report, Launch!At, Launch!GoTo, Launch!TypeOK
  <2>5. /\ launch_recorder' \in {"run", "ending", "ok", "int", "term", "failed", "killed"}
        /\ launch_outcome' \in Launch!Outcomes \cup {"none"}
               /\ launch_signals' \in 0 .. MaxSignals
    BY DEF Launch!Report, Launch!At, Launch!GoTo, Launch!TypeOK, Launch!LaunchAssumption
  <2> QED
    BY <2>1, <2>2, <2>3, <2>4, <2>5 DEF Launch!TypeOK
<1>2. ScriptInv'
  BY DEF Launch!Report, Launch!At, Launch!GoTo, Launch!TypeOK, ScriptInv,
     Launch!LaunchAssumption
<1>3. TrapInv'
  BY DEF Launch!Report, Launch!At, Launch!GoTo, Launch!TypeOK, ScriptInv, TrapInv
<1>4. FileInv'
  BY DEF Launch!Report, Launch!At, Launch!GoTo, Launch!TypeOK, ScriptInv, TrapInv,
     FileInv, Launch!LaunchAssumption
<1>5. EndInv'
  BY DEF Launch!Report, Launch!At, Launch!GoTo, Launch!TypeOK, TrapInv, EndInv
<1>6. Launch!OutcomeTrue'
  BY DEF Launch!Report, Launch!At, Launch!GoTo, Launch!TypeOK, FileInv, EndInv,
     Launch!OutcomeTrue, Launch!LaunchAssumption
<1> QED
  BY <1>1, <1>2, <1>3, <1>4, <1>5, <1>6

\* The trap.
LEMMA StopKeeps ==
  ASSUME Launch!LaunchAssumption, LaunchInv, Launch!Stop
  PROVE  LaunchInv'
<1> USE DEF LaunchInv, Launch!ShellLives, Launch!Trapped, Launch!NoChild,
            Launch!Running, Launch!Absent, Launch!Cut, Launch!Stopped,
            Launch!Terminated, Launch!Killed, Launch!shellVars, Launch!childVars,
            Launch!traceVars, Launch!userVars
<1>1. Launch!TypeOK'
  BY DEF Launch!Stop, Launch!At, Launch!GoTo, Launch!KnownChild, Launch!TellChild,
     Launch!TypeOK, Launch!LaunchAssumption, Launch!Outcomes
<1>2. ScriptInv'
  BY DEF Launch!Stop, Launch!At, Launch!GoTo, Launch!KnownChild, Launch!TellChild,
     Launch!TypeOK, ScriptInv, Launch!LaunchAssumption
<1>3. TrapInv'
  BY DEF Launch!Stop, Launch!At, Launch!GoTo, Launch!KnownChild, Launch!TellChild,
     Launch!TypeOK, ScriptInv, TrapInv
<1>4. FileInv'
  BY DEF Launch!Stop, Launch!At, Launch!GoTo, Launch!KnownChild, Launch!TellChild,
     Launch!TypeOK, ScriptInv, TrapInv, FileInv, Launch!LaunchAssumption
<1>5. EndInv'
  BY DEF Launch!Stop, Launch!At, Launch!GoTo, Launch!KnownChild, Launch!TellChild,
     Launch!TypeOK, TrapInv, EndInv
<1>6. Launch!OutcomeTrue'
  BY DEF Launch!Stop, Launch!At, Launch!GoTo, Launch!KnownChild, Launch!TellChild,
     Launch!TypeOK, FileInv, EndInv, Launch!OutcomeTrue, Launch!LaunchAssumption
<1> QED
  BY <1>1, <1>2, <1>3, <1>4, <1>5, <1>6

\* The runner's last resort.
LEMMA EscalateKeeps ==
  ASSUME Launch!LaunchAssumption, LaunchInv, Launch!Escalate
  PROVE  LaunchInv'
<1> USE DEF LaunchInv, Launch!ShellLives, Launch!Trapped, Launch!NoChild,
            Launch!Running, Launch!Absent, Launch!Cut, Launch!Stopped,
            Launch!Terminated, Launch!Killed, Launch!shellVars, Launch!childVars,
            Launch!traceVars, Launch!userVars
<1>1. Launch!TypeOK'
  BY DEF Launch!Escalate, Launch!KillGroup, Launch!TypeOK, Launch!LaunchAssumption,
     Launch!Outcomes
<1>2. ScriptInv'
  BY DEF Launch!Escalate, Launch!KillGroup, Launch!TypeOK, ScriptInv,
     Launch!LaunchAssumption
<1>3. TrapInv'
  BY DEF Launch!Escalate, Launch!KillGroup, Launch!TypeOK, ScriptInv, TrapInv
<1>4. FileInv'
  BY DEF Launch!Escalate, Launch!KillGroup, Launch!TypeOK, ScriptInv, TrapInv, FileInv,
     Launch!LaunchAssumption
<1>5. EndInv'
  BY DEF Launch!Escalate, Launch!KillGroup, Launch!TypeOK, TrapInv, EndInv
<1>6. Launch!OutcomeTrue'
  BY DEF Launch!Escalate, Launch!KillGroup, Launch!TypeOK, FileInv, EndInv,
     Launch!OutcomeTrue, Launch!LaunchAssumption
<1> QED
  BY <1>1, <1>2, <1>3, <1>4, <1>5, <1>6

\* The last word.
LEMMA CollectKeeps ==
  ASSUME Launch!LaunchAssumption, LaunchInv, Launch!Collect
  PROVE  LaunchInv'
<1> USE DEF LaunchInv, Launch!ShellLives, Launch!Trapped, Launch!NoChild,
            Launch!Running, Launch!Absent, Launch!Cut, Launch!Stopped,
            Launch!Terminated, Launch!Killed, Launch!shellVars, Launch!childVars,
            Launch!traceVars, Launch!userVars
<1>1. Launch!TypeOK'
  BY DEF Launch!Collect, Launch!KillGroup, Launch!TypeOK, Launch!LaunchAssumption,
     Launch!Outcomes, Launch!Classified
<1>2. ScriptInv'
  BY DEF Launch!Collect, Launch!KillGroup, Launch!TypeOK, ScriptInv,
     Launch!LaunchAssumption
<1>3. TrapInv'
  BY DEF Launch!Collect, Launch!KillGroup, Launch!TypeOK, ScriptInv, TrapInv
<1>4. FileInv'
  BY DEF Launch!Collect, Launch!KillGroup, Launch!TypeOK, ScriptInv, TrapInv, FileInv,
     Launch!LaunchAssumption
<1>5. EndInv'
  BY DEF Launch!Collect, Launch!KillGroup, Launch!TypeOK, TrapInv, EndInv
<1>6. Launch!OutcomeTrue'
  <2>1. /\ launch_recorder \notin {"run", "ending"} /\ launch_outcome = "none"
        /\ UNCHANGED <<launch_file, launch_alone, launch_recorder, launch_limited,
               launch_cancelled, launch_signals, launch_told>>
        /\ launch_pc' = IF Launch!ShellLives THEN "dead" ELSE launch_pc
        /\ launch_child' = IF launch_child = Launch!Running THEN Launch!Killed
               ELSE launch_child
    BY DEF Launch!Collect, Launch!KillGroup
  <2>2. CASE launch_outcome' = "error"
    BY <2>2 DEF Launch!OutcomeTrue
  <2>3. ASSUME NEW duration_limited \in BOOLEAN, duration_limited => launch_limited,
               launch_outcome' = Launch!Classified(duration_limited)
        PROVE  Launch!OutcomeTrue'
    <3>1. launch_outcome' = "completed" => launch_file >= 0
      BY <2>3 DEF Launch!Classified, Launch!TypeOK, Launch!LaunchAssumption
    <3>2. launch_outcome' = "duration_limited" => launch_limited /\ ~launch_cancelled
      BY <2>3 DEF Launch!Classified, Launch!TypeOK
    <3>3. launch_outcome' = "interrupted" =>
            launch_file = Launch!Stopped \/ launch_cancelled
                \/ launch_recorder \in {"int", "term"}
      BY <2>3 DEF Launch!Classified, Launch!TypeOK
    <3>4. launch_outcome' = "incomplete" => ~launch_cancelled
              /\ launch_file = Launch!Absent
      BY <2>3 DEF Launch!Classified, Launch!TypeOK, Launch!LaunchAssumption
    <3>5. launch_outcome' = "completed" => launch_alone' /\ launch_child' = launch_file'
      BY <2>1, <3>1 DEF FileInv
    <3>6. launch_outcome' = "interrupted" => launch_told' \/ launch_signals' > 0
      BY <2>1, <3>3 DEF FileInv, EndInv
    <3>7. launch_outcome' = "incomplete" => launch_pc' = "dead"
      BY <2>1, <3>4 DEF FileInv
    <3> QED
      BY <2>1, <3>2, <3>4, <3>5, <3>6, <3>7 DEF Launch!OutcomeTrue
  <2>4. \E duration_limited \in {FALSE, launch_limited} :
            launch_outcome' = Launch!Classified(duration_limited)
          \/ launch_outcome' = "error"
    BY DEF Launch!Collect
  <2> QED
    BY <2>2, <2>3, <2>4 DEF Launch!TypeOK
<1> QED
  BY <1>1, <1>2, <1>3, <1>4, <1>5, <1>6

\* Every step of bpftrace, the shell, the workload, the user and pyroclast.
LEMMA LaunchNext ==
  Launch!LaunchAssumption /\ LaunchInv /\ [Launch!Next]_(Launch!vars) => LaunchInv'
<1> SUFFICES ASSUME Launch!LaunchAssumption, LaunchInv, [Launch!Next]_(Launch!vars)
        PROVE LaunchInv'
  OBVIOUS
<1>1. CASE UNCHANGED Launch!vars
  BY <1>1 DEF Launch!vars, Launch!shellVars, Launch!childVars, Launch!traceVars,
     Launch!userVars, LaunchInv, Launch!TypeOK, ScriptInv, TrapInv, FileInv, EndInv,
     Launch!OutcomeTrue, Launch!ShellLives
<1> QED
  BY <1>1, GroupSignalKeeps, DurationKeeps, StopsKeeps, TerminatesKeeps, ExitsKeeps,
     WorkloadKeeps, InterruptKeeps, LaunchKeeps, ReportKeeps, StopKeeps, EscalateKeeps,
     CollectKeeps DEF Launch!Next

\* Nothing has happened yet.
LEMMA LaunchInit == Launch!LaunchAssumption /\ Launch!Init => LaunchInv
<1> SUFFICES ASSUME Launch!LaunchAssumption, Launch!Init PROVE LaunchInv
  OBVIOUS
<1> USE DEF Launch!Init, Launch!ShellLives, Launch!Trapped, Launch!Outcomes,
            Launch!NoChild, Launch!Running, Launch!Absent, Launch!Cut, Launch!Stopped,
            Launch!Terminated, Launch!Killed
<1>1. Launch!TypeOK
  <2>1. launch_obstinate \in BOOLEAN /\ launch_signals \in 0 .. MaxSignals
    BY DEF Launch!LaunchAssumption
  <2>2. {launch_pending, launch_bang, launch_workload, launch_obstinate, launch_alone,
            launch_limited, launch_cancelled, launch_told} \subseteq BOOLEAN
    BY <2>1
  <2> QED
    BY <2>1, <2>2 DEF Launch!TypeOK
<1>2. ScriptInv /\ TrapInv
  BY DEF ScriptInv, TrapInv
<1>3. FileInv /\ EndInv /\ Launch!OutcomeTrue
  BY DEF FileInv, EndInv, Launch!OutcomeTrue
<1> QED
  BY <1>1, <1>2, <1>3 DEF LaunchInv

\* The workload's end is accounted for: a shell that ends by itself leaves no
\* workload and a whole status file, and what the profile says is what happened.
THEOREM LaunchAccounted ==
  ASSUME Launch!LaunchAssumption
  PROVE  Launch!Spec => []Launch!WorkloadAccounted
<1>1. Launch!Init => LaunchInv
  BY LaunchInit
<1>2. LaunchInv /\ [Launch!Next]_(Launch!vars) => LaunchInv'
  BY LaunchNext
<1>3. LaunchInv => Launch!WorkloadAccounted
  BY DEF LaunchInv, FileInv, Launch!WorkloadAccounted, Launch!NoneLeft, Launch!Cut,
     Launch!Absent, Launch!Stopped
<1> QED
  BY <1>1, <1>2, <1>3, PTL DEF Launch!Spec

-----------------------------------------------------------------------------
(* The cancellation scopes.                                                 *)

\* A scope of a thread, and the types of what the threads keep.
Scope == [state : Scopes!States, handlers : SUBSET (Scopes!States \X Scopes!Causes)]

ScopeTypes ==
  /\ scope_registered \subseteq Scopes!States \X Scopes!Causes
  /\ scope_current \in [Threads -> Scopes!States \cup {0}]
  /\ scope_scopes \in [Threads -> Seq(Scope)]
  /\ scope_entering \in [Threads -> {<<"INT", "TERM">>, <<"TERM">>, <<>>}]
  /\ scope_finalizing \in [Threads -> Nat] /\ scope_made \in 0 .. MaxStates

Holds(t) == scope_scopes[t] # <<>>
Own(t) == scope_scopes[t][1].state

\* What a thread has registered so far for the State of its own.
Caught(t) ==
  IF scope_entering[t] = <<>> THEN Scopes!Causes ELSE IF scope_entering[t] = <<"TERM">> THEN {"INT"} ELSE {}

\* The scopes of a thread share the State of the outermost, which alone has handlers.
Nested(t) ==
  /\ \A i \in DOMAIN scope_scopes[t] :
       /\ scope_scopes[t][i].state = Own(t)
       /\ scope_scopes[t][i].handlers = IF i = 1 THEN {Own(t)} \X Caught(t) ELSE {}
  /\ scope_entering[t] # <<>> => Len(scope_scopes[t]) = 1
  /\ Holds(t) => Own(t) \in 1 .. scope_made
  /\ scope_current[t] \in 0 .. scope_made
  /\ Holds(t) /\ scope_entering[t] = <<>> => scope_current[t] = Own(t)

\* No State is shared by two threads, nor still referred to by one that had another.
Apart(t, u) == Holds(u) => scope_current[t] # Own(u) /\ (Holds(t) => Own(t) # Own(u))

\* Handlers are registered for the outermost scopes, one for each signal caught.
Registry == \A h \in Scopes!States \X Scopes!Causes :
  h \in scope_registered <=> \E t \in Threads : Holds(t) /\ h[1] = Own(t) /\ h[2] \in Caught(t)

\* What holds of the scopes whatever is signalled.
ThreadsInv ==
  /\ ScopeTypes /\ Registry
  /\ \A t \in Threads : Nested(t)
  /\ \A t, u \in Threads : t # u => Apart(t, u)

\* The handlers of a State that are running.
Parts == {"cause", "count"}
Handling(k) == {r \in scope_running : r[1][1] = k}

SignalTypes ==
  /\ scope_first \in [Scopes!States -> Scopes!Causes \cup {"none"}] /\ scope_signals \in [Scopes!States -> Nat]
  /\ scope_running \subseteq (Scopes!States \X Scopes!Causes) \X Parts \X Nat
  /\ scope_sent \in Nat /\ scope_early \in [Scopes!States -> SUBSET Scopes!Causes] /\ scope_heard \in [Scopes!States -> Nat]

\* A handler keeps its cause before it counts; it runs once for each signal.
Handlers ==
  /\ \A r \in scope_running :
       /\ r[3] < scope_sent
       /\ r[2] = "count" => scope_first[r[1][1]] # "none"
       /\ scope_first[r[1][1]] = "none" => r[1][2] \in scope_early[r[1][1]]
  /\ \A r, q \in scope_running : r[1] = q[1] /\ r[3] = q[3] => r = q

\* Every signal that reached a State has been counted or is still to be.
Count(k) ==
  /\ scope_first[k] \in scope_early[k] \cup {"none"}
  /\ scope_signals[k] > 0 => scope_first[k] # "none"
  /\ scope_first[k] # "none" => scope_heard[k] > 0
  /\ IsFiniteSet(Handling(k))
  /\ scope_heard[k] = scope_signals[k] + Cardinality(Handling(k))

\* What holds of the signals whatever scopes are entered and dropped.
SignalInv == SignalTypes /\ Handlers /\ \A k \in Scopes!States : Count(k)

ScopesInv == ThreadsInv /\ SignalInv

scopeParts == <<scope_registered, scope_current, scope_scopes, scope_entering, scope_finalizing, scope_made>>
signalParts == <<scope_first, scope_signals, scope_running, scope_sent, scope_early, scope_heard>>

-----------------------------------------------------------------------------
\* Before any scope is entered nothing is registered and nothing has been sent.
LEMMA ScopesInit ==
  ASSUME Scopes!ScopesAssumption
  PROVE  Scopes!Init => ScopesInv
<1> SUFFICES ASSUME Scopes!Init PROVE ScopesInv
  OBVIOUS
<1>1. MaxStates \in Nat /\ Main \in Threads
  BY DEF Scopes!ScopesAssumption
<1>2. ScopeTypes
  BY <1>1 DEF Scopes!Init, ScopeTypes
<1>3. ThreadsInv
  BY <1>1, <1>2 DEF Scopes!Init, ThreadsInv, Registry, Nested, Apart, Holds
<1>4. \A k \in Scopes!States : Handling(k) = {}
  BY DEF Scopes!Init, Handling
<1>5. ASSUME NEW k \in Scopes!States PROVE Count(k)
  <2>1. scope_first[k] = "none" /\ scope_signals[k] = 0 /\ scope_heard[k] = 0 /\ Handling(k) = {}
    BY <1>4 DEF Scopes!Init
  <2>2. IsFiniteSet(Handling(k)) /\ Cardinality(Handling(k)) = 0
    BY <2>1, FS_EmptySet
  <2> QED
    BY <2>1, <2>2 DEF Count
<1>6. SignalInv
  BY <1>5 DEF Scopes!Init, SignalInv, SignalTypes, Handlers
<1> QED
  BY <1>3, <1>6 DEF ScopesInv

\* Entering and dropping scopes does not concern the signals, nor the reverse.
LEMMA SignalsStay ==
  ASSUME SignalInv, UNCHANGED signalParts
  PROVE  SignalInv'
<1>1. \A k \in Scopes!States : Handling(k)' = Handling(k)
  BY DEF Handling, signalParts
<1>2. \A k \in Scopes!States : Count(k)'
  BY <1>1 DEF SignalInv, Count, signalParts
<1> QED
  BY <1>2 DEF SignalInv, SignalTypes, Handlers, signalParts

\* Signals and finalization scopes do not concern the cancellation scopes.
LEMMA ScopesStay ==
  ASSUME ThreadsInv, UNCHANGED <<scope_registered, scope_current, scope_scopes, scope_entering, scope_made>>,
         scope_finalizing' \in [Threads -> Nat]
  PROVE  ThreadsInv'
<1>1. \A t \in Threads : /\ Holds(t)' = Holds(t) /\ Own(t)' = Own(t) /\ Caught(t)' = Caught(t)
                         /\ Nested(t)' = Nested(t)
  BY DEF Holds, Own, Caught, Nested
<1>2. \A t, u \in Threads : Apart(t, u)' = Apart(t, u)
  BY <1>1 DEF Apart
<1>3. Registry'
  BY <1>1 DEF ThreadsInv, Registry
<1>4. ScopeTypes'
  BY DEF ThreadsInv, ScopeTypes
<1> QED
  BY <1>1, <1>2, <1>3, <1>4 DEF ThreadsInv

\* A signal reaches each State that has a handler for it exactly once.
LEMMA SignalStep ==
  ASSUME ScopesInv, NEW s \in Scopes!Causes, Scopes!Signal(s)
  PROVE  SignalInv'
<1> DEFINE reached == {h \in scope_registered : h[2] = s}
           hit == {h[1] : h \in reached}
           new == {<<h, "cause", scope_sent>> : h \in reached}
<1>1. /\ scope_running' = scope_running \cup new
      /\ scope_early' = [k \in Scopes!States |->
                     scope_early[k] \cup IF k \in hit /\ scope_first[k] = "none" THEN {s} ELSE {}]
      /\ scope_heard' = [k \in Scopes!States |-> scope_heard[k] + IF k \in hit THEN 1 ELSE 0]
      /\ scope_sent' = scope_sent + 1 /\ UNCHANGED <<scope_first, scope_signals>>
  BY DEF Scopes!Signal
<1>2. SignalTypes /\ Handlers /\ \A k \in Scopes!States : Count(k)
  BY DEF ScopesInv, SignalInv
<1>3. scope_registered \subseteq Scopes!States \X Scopes!Causes
  BY DEF ScopesInv, ThreadsInv, ScopeTypes
<1>4. reached \subseteq Scopes!States \X Scopes!Causes
  BY <1>3
<1>5. new \subseteq (Scopes!States \X Scopes!Causes) \X Parts \X Nat
  BY <1>2, <1>4 DEF SignalTypes, Parts
<1>6. SignalTypes'
  BY <1>1, <1>2, <1>5 DEF SignalTypes
<1>7. \A r \in new : r[1] \in reached /\ r[2] = "cause" /\ r[3] = scope_sent
                     /\ r[1][2] = s /\ r[1][1] \in hit /\ r[1][1] \in Scopes!States
                     /\ r = <<r[1], "cause", scope_sent>>
  BY <1>4
<1>8. Handlers'
  <2>1. ASSUME NEW r \in scope_running'
        PROVE  /\ r[3] < scope_sent'
               /\ r[2] = "count" => scope_first'[r[1][1]] # "none"
               /\ scope_first'[r[1][1]] = "none" => r[1][2] \in scope_early'[r[1][1]]
    <3>1. CASE r \in new
      BY <1>1, <1>2, <1>7, <3>1 DEF SignalTypes
    <3>2. CASE r \in scope_running
      <4>1. r[1][1] \in Scopes!States /\ r[3] \in Nat
        BY <1>2, <3>2 DEF SignalTypes
      <4> QED
        BY <1>1, <1>2, <3>2, <4>1 DEF SignalTypes, Handlers
    <3> QED
      BY <1>1, <2>1, <3>1, <3>2
  <2>2. \A r, q \in scope_running' : r[1] = q[1] /\ r[3] = q[3] => r = q
    <3>1. \A r \in scope_running : r[3] # scope_sent
      BY <1>2 DEF Handlers, SignalTypes
    <3> QED
      BY <1>1, <1>2, <1>7, <3>1 DEF Handlers
  <2> QED
    BY <2>1, <2>2 DEF Handlers
<1>9. ASSUME NEW k \in Scopes!States PROVE Count(k)'
  <2>1. /\ Count(k) /\ scope_heard[k] \in Nat /\ scope_signals[k] \in Nat
        /\ scope_early[k] \subseteq scope_early'[k]
        /\ scope_heard'[k] = scope_heard[k] + IF k \in hit THEN 1 ELSE 0
    BY <1>1, <1>2 DEF SignalTypes
  <2>2. CASE k \notin hit
    <3>1. Handling(k)' = Handling(k)
      BY <1>1, <1>7, <2>2 DEF Handling
    <3> QED
      BY <1>1, <2>1, <2>2, <3>1 DEF Count
  <2>3. CASE k \in hit
    <3> DEFINE r == <<<<k, s>>, "cause", scope_sent>>
    <3>1. Handling(k)' = Handling(k) \cup {r}
      <4>1. \A h \in reached : h = <<h[1], h[2]>>
        BY <1>4
      <4>2. <<k, s>> \in reached
        BY <2>3, <4>1
      <4>3. r \in new
        BY <4>2
      <4>4. ASSUME NEW q \in new, q[1][1] = k PROVE q = r
        <5>1. q[1] = <<q[1][1], q[1][2]>>
          BY <1>7, <4>1, <4>4
        <5> QED
          BY <1>7, <4>4, <5>1
      <4> QED
        BY <1>1, <4>3, <4>4 DEF Handling
    <3>2. r \notin Handling(k)
      BY <1>2 DEF Handling, Handlers, SignalTypes
    <3>3. /\ IsFiniteSet(Handling(k)')
          /\ Cardinality(Handling(k)') = Cardinality(Handling(k)) + 1
          /\ Cardinality(Handling(k)) \in Nat
      <4>1. IsFiniteSet(Handling(k))
        BY <2>1 DEF Count
      <4>2. /\ IsFiniteSet(Handling(k) \cup {r})
            /\ Cardinality(Handling(k) \cup {r}) = Cardinality(Handling(k)) + 1
        BY <3>2, <4>1, FS_AddElement
      <4> QED
        BY <3>1, <4>1, <4>2, FS_CardinalityType
    <3> QED
      BY <1>1, <2>1, <2>3, <3>3 DEF Count
  <2> QED
    BY <2>2, <2>3
<1> QED
  BY <1>6, <1>8, <1>9 DEF SignalInv

\* A handler that has kept its cause is still to count; one that counts is done.
LEMMA HandlerStep ==
  ASSUME SignalInv, NEW r \in scope_running, Scopes!Handler(r)
  PROVE  SignalInv'
<1> DEFINE k == r[1][1]
           q == <<r[1], "count", r[3]>>
<1>1. /\ SignalTypes /\ Handlers /\ \A j \in Scopes!States : Count(j)
      /\ k \in Scopes!States /\ r[1][2] \in Scopes!Causes /\ r[1] \in Scopes!States \X Scopes!Causes /\ r[3] \in Nat
      /\ r = <<r[1], r[2], r[3]>>
      /\ UNCHANGED <<scope_sent, scope_early, scope_heard>>
  BY DEF SignalInv, SignalTypes, Scopes!Handler
<1>2. CASE /\ r[2] = "cause"
           /\ scope_first' = [scope_first EXCEPT ![k] = IF @ = "none" THEN r[1][2] ELSE @]
           /\ scope_running' = (scope_running \ {r}) \cup {q}
           /\ UNCHANGED scope_signals
  <2>1. SignalTypes'
    BY <1>1, <1>2 DEF SignalTypes, Parts
  <2>2. /\ q[1] = r[1] /\ q[2] = "count" /\ q[3] = r[3] /\ q # r /\ q \notin scope_running
    BY <1>1, <1>2 DEF Handlers
  <2>3. /\ scope_first'[k] # "none" /\ \A j \in Scopes!States : scope_first[j] # "none" => scope_first'[j] = scope_first[j]
        /\ \A j \in Scopes!States : j # k => scope_first'[j] = scope_first[j]
    BY <1>1, <1>2 DEF SignalTypes, Scopes!Causes
  <2>4. Handlers'
    <3>1. ASSUME NEW p \in scope_running'
          PROVE  /\ p[3] < scope_sent'
                 /\ p[2] = "count" => scope_first'[p[1][1]] # "none"
                 /\ scope_first'[p[1][1]] = "none" => p[1][2] \in scope_early'[p[1][1]]
      <4>1. CASE p = q
        BY <1>1, <2>2, <2>3, <4>1 DEF Handlers
      <4>2. CASE p \in scope_running
        <5>1. p[1][1] \in Scopes!States
          BY <1>1, <4>2 DEF SignalTypes
        <5> QED
          BY <1>1, <2>3, <4>2, <5>1 DEF Handlers
      <4> QED
        BY <1>2, <3>1, <4>1, <4>2
    <3>2. \A p, o \in scope_running' : p[1] = o[1] /\ p[3] = o[3] => p = o
      BY <1>1, <1>2, <2>2 DEF Handlers
    <3> QED
      BY <3>1, <3>2 DEF Handlers
  <2>5. ASSUME NEW j \in Scopes!States PROVE Count(j)'
    <3>1. CASE j # k
      <4>1. Handling(j)' = Handling(j)
        BY <1>2, <2>2, <3>1 DEF Handling
      <4> QED
        BY <1>1, <1>2, <2>3, <3>1, <4>1 DEF Count
    <3>2. CASE j = k
      <4>1. Handling(k)' = (Handling(k) \ {r}) \cup {q}
        BY <1>2, <2>2 DEF Handling
      <4>2. r \in Handling(k) /\ q \notin Handling(k) \ {r} /\ IsFiniteSet(Handling(k))
        BY <1>1, <2>2 DEF Handling, Count
      <4>3. /\ IsFiniteSet(Handling(k) \ {r})
            /\ Cardinality(Handling(k) \ {r}) = Cardinality(Handling(k)) - 1
            /\ Cardinality(Handling(k)) \in Nat
        BY <4>2, FS_RemoveElement, FS_CardinalityType
      <4>4. /\ IsFiniteSet(Handling(k)')
            /\ Cardinality(Handling(k)') = Cardinality(Handling(k))
        <5> DEFINE rest == Handling(k) \ {r}
        <5>1. IsFiniteSet(rest \cup {q}) /\ Cardinality(rest \cup {q}) = Cardinality(rest) + 1
          BY <4>2, <4>3, FS_AddElement
        <5> QED
          BY <4>1, <4>3, <5>1
      <4>5. Cardinality(Handling(k)) > 0
        BY <4>2, <4>3, FS_EmptySet
      <4>6. Count(k) /\ scope_heard[k] \in Nat /\ scope_signals[k] \in Nat
        BY <1>1 DEF SignalTypes
      <4>7. scope_heard'[k] > 0
        BY <1>1, <4>3, <4>5, <4>6 DEF Count
      <4>8. scope_first'[k] \in scope_early'[k] \cup {"none"}
        BY <1>1, <1>2 DEF Count, Handlers, SignalTypes
      <4> QED
        BY <1>1, <1>2, <2>3, <3>2, <4>4, <4>6, <4>7, <4>8 DEF Count
    <3> QED
      BY <3>1, <3>2
  <2> QED
    BY <2>1, <2>4, <2>5 DEF SignalInv
<1>3. CASE /\ r[2] = "count"
           /\ scope_signals' = [scope_signals EXCEPT ![k] = @ + 1]
           /\ scope_running' = scope_running \ {r}
           /\ UNCHANGED scope_first
  <2>1. SignalTypes'
    BY <1>1, <1>3 DEF SignalTypes
  <2>2. Handlers'
    BY <1>1, <1>3 DEF Handlers
  <2>3. ASSUME NEW j \in Scopes!States PROVE Count(j)'
    <3>1. CASE j # k
      <4>1. Handling(j)' = Handling(j) /\ scope_signals'[j] = scope_signals[j]
        BY <1>1, <1>3, <3>1 DEF Handling, SignalTypes
      <4> QED
        BY <1>1, <1>3, <4>1 DEF Count
    <3>2. CASE j = k
      <4>1. Handling(k)' = Handling(k) \ {r} /\ scope_signals'[k] = scope_signals[k] + 1
        BY <1>1, <1>3 DEF Handling, SignalTypes
      <4>2. r \in Handling(k) /\ IsFiniteSet(Handling(k))
        BY <1>1 DEF Handling, Count
      <4>3. /\ IsFiniteSet(Handling(k)')
            /\ Cardinality(Handling(k)') = Cardinality(Handling(k)) - 1
            /\ Cardinality(Handling(k)) \in Nat
        BY <4>1, <4>2, FS_RemoveElement, FS_CardinalityType
      <4>4. Count(k) /\ scope_heard[k] \in Nat /\ scope_signals[k] \in Nat /\ scope_first[k] # "none"
        BY <1>1, <1>3 DEF SignalTypes, Handlers
      <4> QED
        BY <1>1, <1>3, <3>2, <4>1, <4>3, <4>4 DEF Count
    <3> QED
      BY <3>1, <3>2
  <2> QED
    BY <2>1, <2>2, <2>3 DEF SignalInv
<1> QED
  BY <1>2, <1>3 DEF Scopes!Handler

-----------------------------------------------------------------------------
(* Entering and dropping scopes.                                            *)

\* What a step of one thread leaves of the others.
LEMMA OneThread ==
  ASSUME Scopes!ScopesAssumption, ThreadsInv, NEW t \in Threads,
         ScopeTypes', Registry', Nested(t)', scope_made <= scope_made',
         \A u \in Threads \ {t} :
           /\ scope_scopes'[u] = scope_scopes[u] /\ scope_entering'[u] = scope_entering[u] /\ scope_current'[u] = scope_current[u]
           /\ Apart(t, u)' /\ Apart(u, t)'
  PROVE  ThreadsInv'
<1>1. scope_made \in Nat /\ scope_made' \in Nat
  BY DEF Scopes!ScopesAssumption, ThreadsInv, ScopeTypes
<1>2. ASSUME NEW u \in Threads \ {t}
      PROVE  Nested(u)' /\ Holds(u)' = Holds(u) /\ Own(u)' = Own(u)
  <2>1. Holds(u)' = Holds(u) /\ Own(u)' = Own(u) /\ Caught(u)' = Caught(u)
    BY DEF Holds, Own, Caught
  <2>2. Nested(u)
    BY DEF ThreadsInv
  <2>3. /\ Holds(u) => Own(u) \in 1 .. scope_made'
        /\ scope_current[u] \in 0 .. scope_made'
    BY <1>1, <2>2 DEF Nested
  <2> QED
    BY <2>1, <2>2, <2>3 DEF Nested
<1>3. ASSUME NEW u \in Threads, NEW v \in Threads, u # v PROVE Apart(u, v)'
  <2>1. CASE u = t \/ v = t
    BY <1>3, <2>1
  <2>2. CASE u # t /\ v # t
    BY <1>2, <1>3, <2>2 DEF ThreadsInv, Apart
  <2> QED
    BY <2>1, <2>2
<1> QED
  BY <1>2, <1>3 DEF ThreadsInv

\* A thread without a State of its own reads none.
LEMMA OwnState ==
  ASSUME ThreadsInv, NEW t \in Threads
  PROVE  /\ ~Holds(t) => Scopes!Upgraded(t) = 0 /\ scope_entering[t] = <<>>
         /\ Holds(t) /\ scope_entering[t] = <<>> => Scopes!Upgraded(t) = Own(t) /\ Own(t) # 0
<1>1. /\ Nested(t) /\ ScopeTypes /\ Registry /\ \A u \in Threads : t # u => Apart(t, u)
  BY DEF ThreadsInv
<1>2. /\ scope_scopes[t] \in Seq(Scope) /\ DOMAIN scope_scopes[t] = 1 .. Len(scope_scopes[t])
      /\ Len(scope_scopes[t]) \in Nat
      /\ Holds(t) => 1 \in DOMAIN scope_scopes[t]
  BY <1>1, LenProperties, EmptySeq DEF ScopeTypes, Holds
<1>3. ~Holds(t) => scope_entering[t] = <<>>
  <2>1. Len(<<>>) = 0
    OBVIOUS
  <2> QED
    <3>1. scope_entering[t] # <<>> => Len(scope_scopes[t]) = 1
      BY <1>1 DEF Nested
    <3> QED
      BY <2>1, <3>1 DEF Holds
<1>4. ASSUME ~Holds(t) PROVE Scopes!Upgraded(t) = 0
  <2>1. ASSUME NEW h \in scope_registered PROVE h[1] # scope_current[t]
    <3>1. PICK u \in Threads : Holds(u) /\ h[1] = Own(u)
      BY <1>1, <2>1 DEF Registry, ScopeTypes
    <3> QED
      BY <1>1, <1>4, <3>1 DEF Apart
  <2>2. DOMAIN scope_scopes[t] = {}
    BY <1>4 DEF Holds
  <2> QED
    BY <2>1, <2>2 DEF Scopes!Upgraded
<1>5. ASSUME Holds(t), scope_entering[t] = <<>> PROVE Scopes!Upgraded(t) = Own(t) /\ Own(t) # 0
  <2>1. scope_current[t] = Own(t) /\ Own(t) \in 1 .. scope_made
    BY <1>1, <1>5 DEF Nested
  <2>2. Scopes!Upgraded(t) = scope_current[t]
    BY <1>2, <1>5, <2>1 DEF Scopes!Upgraded, Own
  <2> QED
    BY <2>1, <2>2
<1> QED
  BY <1>3, <1>4, <1>5

\* A nested scope shares the State and registers nothing.
LEMMA EnterNestedStep ==
  ASSUME Scopes!ScopesAssumption, ThreadsInv, NEW t \in Threads, Scopes!EnterNested(t)
  PROVE  ThreadsInv'
<1> DEFINE more == [state |-> Scopes!Upgraded(t), handlers |-> {}]
<1>1. /\ ScopeTypes /\ Registry /\ Nested(t) /\ scope_entering[t] = <<>>
      /\ scope_scopes' = [scope_scopes EXCEPT ![t] = Append(@, more)]
      /\ UNCHANGED <<scope_registered, scope_current, scope_entering, scope_finalizing, scope_made>>
      /\ \A u \in Threads \ {t} : Apart(t, u) /\ Apart(u, t)
  BY DEF ThreadsInv, Scopes!EnterNested
<1>2. Holds(t) /\ Scopes!Upgraded(t) = Own(t)
  BY OwnState DEF Scopes!EnterNested
<1>3. Own(t) \in Scopes!States
  <2>1. scope_made \in 0 .. MaxStates /\ MaxStates \in Nat /\ Own(t) \in 1 .. scope_made
    BY <1>1, <1>2 DEF ScopeTypes, Nested, Scopes!ScopesAssumption
  <2> QED
    BY <2>1 DEF Scopes!States
<1>4. more \in Scope /\ scope_scopes[t] \in Seq(Scope)
  BY <1>1, <1>2, <1>3 DEF Scope, ScopeTypes
<1>5. /\ scope_scopes'[t] = Append(scope_scopes[t], more) /\ scope_scopes'[t] \in Seq(Scope)
      /\ Len(scope_scopes[t]) \in Nat /\ Len(scope_scopes'[t]) = Len(scope_scopes[t]) + 1
      /\ DOMAIN scope_scopes[t] = 1 .. Len(scope_scopes[t]) /\ DOMAIN scope_scopes'[t] = 1 .. Len(scope_scopes[t]) + 1
      /\ \A i \in 1 .. Len(scope_scopes[t]) : scope_scopes'[t][i] = scope_scopes[t][i]
      /\ scope_scopes'[t][Len(scope_scopes[t]) + 1] = more
      /\ Len(scope_scopes[t]) > 0
  BY <1>1, <1>2, <1>4, AppendProperties, LenProperties, EmptySeq DEF ScopeTypes, Holds
<1>6. ScopeTypes'
  BY <1>1, <1>5 DEF ScopeTypes
<1>7. Holds(t)' /\ Own(t)' = Own(t) /\ Caught(t)' = Caught(t)
  BY <1>1, <1>5 DEF Holds, Own, Caught
<1>8. Nested(t)'
  <2>1. ASSUME NEW i \in DOMAIN scope_scopes'[t]
        PROVE  /\ scope_scopes'[t][i].state = Own(t)
               /\ scope_scopes'[t][i].handlers = IF i = 1 THEN {Own(t)} \X Caught(t) ELSE {}
    <3>1. CASE i \in 1 .. Len(scope_scopes[t])
      BY <1>1, <1>5, <3>1 DEF Nested
    <3>2. CASE i = Len(scope_scopes[t]) + 1
      BY <1>2, <1>5, <3>2
    <3> QED
      BY <1>5, <3>1, <3>2
  <2> QED
    BY <1>1, <1>2, <1>7, <2>1 DEF Nested
<1>9. \A u \in Threads : Holds(u)' = Holds(u) /\ Own(u)' = Own(u) /\ Caught(u)' = Caught(u)
  BY <1>1, <1>2, <1>7 DEF Holds, Own, Caught, ScopeTypes
<1>10. Registry'
  BY <1>1, <1>9 DEF Registry
<1>11. \A u \in Threads \ {t} :
         /\ scope_scopes'[u] = scope_scopes[u] /\ scope_entering'[u] = scope_entering[u] /\ scope_current'[u] = scope_current[u]
         /\ Apart(t, u)' /\ Apart(u, t)'
  BY <1>1, <1>9 DEF Apart, ScopeTypes
<1>12. scope_made <= scope_made'
  BY <1>1 DEF ScopeTypes, Scopes!ScopesAssumption
<1> QED
  BY <1>6, <1>8, <1>10, <1>11, <1>12, OneThread

\* A new State is nobody else's, and nothing refers to it yet.
LEMMA EnterOutermostStep ==
  ASSUME Scopes!ScopesAssumption, ThreadsInv, NEW t \in Threads, Scopes!EnterOutermost(t)
  PROVE  ThreadsInv'
<1> DEFINE one == [state |-> scope_made + 1, handlers |-> {}]
<1>1. /\ ScopeTypes /\ Registry /\ Nested(t) /\ scope_entering[t] = <<>> /\ scope_made < MaxStates
      /\ scope_made' = scope_made + 1
      /\ scope_scopes' = [scope_scopes EXCEPT ![t] = Append(@, one)]
      /\ scope_entering' = [scope_entering EXCEPT ![t] = <<"INT", "TERM">>]
      /\ UNCHANGED <<scope_registered, scope_current, scope_finalizing>>
      /\ \A u \in Threads : Nested(u)
      /\ \A u \in Threads \ {t} : Apart(t, u) /\ Apart(u, t)
  BY DEF ThreadsInv, Scopes!EnterOutermost
<1>2. MaxStates \in Nat /\ scope_made \in Nat /\ scope_made' \in Scopes!States /\ scope_made' \in 0 .. MaxStates
  BY <1>1 DEF Scopes!ScopesAssumption, ScopeTypes, Scopes!States
<1>3. ~Holds(t)
  BY OwnState DEF Scopes!EnterOutermost
<1>4. one \in Scope
  BY <1>1, <1>2 DEF Scope
<1>5. scope_scopes'[t] = <<one>>
  <2>1. Append(<<>>, one) = <<one>>
    OBVIOUS
  <2> QED
    BY <1>1, <1>3, <2>1 DEF ScopeTypes, Holds
<1>6. /\ Holds(t)' /\ Own(t)' = scope_made + 1 /\ Caught(t)' = {} /\ Len(scope_scopes'[t]) = 1
      /\ DOMAIN scope_scopes'[t] = {1} /\ scope_scopes'[t][1] = one /\ scope_scopes'[t] \in Seq(Scope)
  <2>1. /\ <<one>> # <<>> /\ Len(<<one>>) = 1 /\ DOMAIN <<one>> = {1} /\ <<one>>[1] = one
        /\ <<one>> \in Seq(Scope) /\ one.state = scope_made + 1
    BY <1>4
  <2>2. scope_entering'[t] = <<"INT", "TERM">>
    BY <1>1 DEF ScopeTypes
  <2>3. <<"INT", "TERM">> # <<>> /\ <<"INT", "TERM">> # <<"TERM">>
    OBVIOUS
  <2>4. Caught(t)' = {}
    BY <2>2, <2>3 DEF Caught
  <2> QED
    BY <1>5, <2>1, <2>4 DEF Holds, Own
<1>7. ScopeTypes'
  BY <1>1, <1>2, <1>6 DEF ScopeTypes
<1>8. Nested(t)'
  <2>1. scope_entering'[t] # <<>> /\ scope_current'[t] = scope_current[t]
    <3>1. <<"INT", "TERM">> # <<>>
      OBVIOUS
    <3> QED
      BY <1>1, <3>1 DEF ScopeTypes
  <2>2. scope_current[t] \in 0 .. scope_made
    BY <1>1 DEF Nested
  <2>3. scope_current'[t] \in 0 .. scope_made' /\ Own(t)' \in 1 .. scope_made'
    BY <1>1, <1>2, <1>6, <2>1, <2>2
  <2>4. \A i \in DOMAIN scope_scopes'[t] : scope_scopes'[t][i].state = Own(t)'
          /\ scope_scopes'[t][i].handlers = IF i = 1 THEN {Own(t)'} \X Caught(t)' ELSE {}
    <3>1. scope_scopes'[t][1].state = scope_made + 1 /\ scope_scopes'[t][1].handlers = {}
      BY <1>6
    <3>2. {Own(t)'} \X Caught(t)' = {}
      BY <1>6
    <3> QED
      BY <1>6, <3>1, <3>2
  <2> QED
    BY <1>6, <2>1, <2>3, <2>4 DEF Nested
<1>9. \A u \in Threads \ {t} :
        /\ scope_scopes'[u] = scope_scopes[u] /\ scope_entering'[u] = scope_entering[u] /\ scope_current'[u] = scope_current[u]
        /\ Holds(u)' = Holds(u) /\ Own(u)' = Own(u) /\ Caught(u)' = Caught(u)
  BY <1>1 DEF ScopeTypes, Holds, Own, Caught
<1>10. Registry'
  BY <1>1, <1>3, <1>6, <1>9 DEF Registry
<1>11. \A u \in Threads \ {t} : Apart(t, u)' /\ Apart(u, t)'
  <2>1. ASSUME NEW u \in Threads \ {t}
        PROVE  scope_current[u] # scope_made + 1 /\ (Holds(u) => Own(u) # scope_made + 1)
    <3>1. scope_current[u] \in 0 .. scope_made /\ (Holds(u) => Own(u) \in 1 .. scope_made)
      BY <1>1 DEF Nested
    <3> QED
      BY <1>2, <3>1
  <2> QED
    BY <1>1, <1>6, <1>9, <2>1 DEF Apart
<1> QED
  BY <1>1, <1>2, <1>7, <1>8, <1>9, <1>10, <1>11, OneThread

\* The handlers in the registry are those of the outermost scopes.
LEMMA RegisterStep ==
  ASSUME Scopes!ScopesAssumption, ThreadsInv, NEW t \in Threads, Scopes!Register(t)
  PROVE  ThreadsInv'
<1>1. /\ ScopeTypes /\ Registry /\ Nested(t) /\ scope_entering[t] # <<>>
      /\ \A u \in Threads \ {t} : Apart(t, u) /\ Apart(u, t)
  BY DEF ThreadsInv, Scopes!Register
<1>2. /\ Len(scope_scopes[t]) = 1 /\ scope_scopes[t] \in Seq(Scope) /\ DOMAIN scope_scopes[t] = {1} /\ Holds(t)
      /\ Scopes!Last(scope_scopes[t]) = scope_scopes[t][1] /\ Own(t) \in Scopes!States
      /\ scope_scopes[t][1] = [state |-> Own(t), handlers |-> {Own(t)} \X Caught(t)]
      /\ scope_scopes[t][1] \in Scope
  <2>1. Len(scope_scopes[t]) = 1 /\ scope_scopes[t] \in Seq(Scope)
    BY <1>1 DEF Nested, ScopeTypes
  <2>2. DOMAIN scope_scopes[t] = {1} /\ Holds(t) /\ scope_scopes[t][1] \in Scope
    BY <2>1, LenProperties, ElementOfSeq, EmptySeq DEF Holds
  <2>3. scope_scopes[t][1].state = Own(t) /\ scope_scopes[t][1].handlers = {Own(t)} \X Caught(t)
    BY <1>1, <2>2 DEF Nested
  <2> QED
    BY <2>1, <2>2, <2>3 DEF Scopes!Last, Scope, Own
<1> DEFINE sig == Head(scope_entering[t])
           handler == <<Own(t), sig>>
           grown == [state |-> Own(t), handlers |-> ({Own(t)} \X Caught(t)) \cup {handler}]
<1>3. \/ scope_entering[t] = <<"INT", "TERM">> /\ sig = "INT" /\ Tail(scope_entering[t]) = <<"TERM">>
                                         /\ Caught(t) = {} /\ Len(scope_entering[t]) = 2
      \/ scope_entering[t] = <<"TERM">> /\ sig = "TERM" /\ Tail(scope_entering[t]) = <<>>
                                  /\ Caught(t) = {"INT"} /\ Len(scope_entering[t]) = 1
  <2>1. CASE scope_entering[t] = <<"INT", "TERM">>
    BY <2>1 DEF Caught
  <2>2. CASE scope_entering[t] = <<"TERM">>
    BY <2>2 DEF Caught
  <2> QED
    BY <1>1, <2>1, <2>2 DEF ScopeTypes
<1>4. /\ scope_registered' = scope_registered \cup {handler}
      /\ scope_scopes' = [scope_scopes EXCEPT ![t][1].handlers = @ \cup {handler}]
      /\ scope_entering' = [scope_entering EXCEPT ![t] = Tail(@)]
      /\ scope_current' = IF Len(scope_entering[t]) = 1 THEN [scope_current EXCEPT ![t] = Own(t)] ELSE scope_current
      /\ UNCHANGED <<scope_finalizing, scope_made>>
  <2>1. /\ scope_registered' = scope_registered \cup {<<Scopes!Last(scope_scopes[t]).state, Head(scope_entering[t])>>}
        /\ scope_scopes' = [scope_scopes EXCEPT ![t][Len(scope_scopes[t])].handlers =
                        @ \cup {<<Scopes!Last(scope_scopes[t]).state, Head(scope_entering[t])>>}]
        /\ scope_entering' = [scope_entering EXCEPT ![t] = Tail(@)]
        /\ scope_current' = IF Len(scope_entering[t]) = 1
                      THEN [scope_current EXCEPT ![t] = Scopes!Last(scope_scopes[t]).state] ELSE scope_current
        /\ UNCHANGED <<scope_finalizing, scope_made>>
    BY DEF Scopes!Register
  <2>2. <<Scopes!Last(scope_scopes[t]).state, Head(scope_entering[t])>> = handler /\ Scopes!Last(scope_scopes[t]).state = Own(t)
    BY <1>2 DEF Own
  <2>3. Len(scope_scopes[t]) = 1
    BY <1>2
  <2> QED
    BY <2>1, <2>2, <2>3
<1>5. scope_scopes'[t] = <<grown>>
  <2>1. scope_scopes'[t] = [scope_scopes[t] EXCEPT ![1] = [scope_scopes[t][1] EXCEPT !.handlers = @ \cup {handler}]]
    <3>1. t \in DOMAIN scope_scopes /\ scope_scopes[t] \in Seq(Scope)
      BY <1>1 DEF ScopeTypes
    <3> HIDE DEF handler
    <3> QED
      BY <1>4, <3>1
  <2>2. [scope_scopes[t][1] EXCEPT !.handlers = @ \cup {handler}] = grown
    <3>1. scope_scopes[t][1] = [state |-> Own(t), handlers |-> {Own(t)} \X Caught(t)]
      BY <1>2
    <3> HIDE DEF handler
    <3> QED
      BY <3>1
  <2>3. scope_scopes[t] = <<scope_scopes[t][1]>>
    BY <1>2
  <2>4. \A x, y : [<<x>> EXCEPT ![1] = y] = <<y>>
    OBVIOUS
  <2>5. scope_scopes'[t] = [<<scope_scopes[t][1]>> EXCEPT ![1] = grown]
    <3> HIDE DEF grown, handler
    <3> QED
      BY <2>1, <2>2, <2>3
  <2> QED
    <3> HIDE DEF grown
    <3> QED
      BY <2>4, <2>5
<1>6. handler \in Scopes!States \X Scopes!Causes
  BY <1>2, <1>3 DEF Scopes!Causes
<1>7. /\ Caught(t)' = Caught(t) \cup {sig}
      /\ grown.handlers = {Own(t)} \X (Caught(t) \cup {sig})
      /\ scope_entering'[t] = Tail(scope_entering[t])
  <2>1. scope_entering'[t] = Tail(scope_entering[t])
    BY <1>1, <1>4 DEF ScopeTypes
  <2>2. Caught(t)' = Caught(t) \cup {sig}
    <3>1. <<"TERM">> # <<>>
      OBVIOUS
    <3>2. CASE scope_entering[t] = <<"INT", "TERM">>
      <4>1. scope_entering'[t] = <<"TERM">> /\ sig = "INT" /\ Caught(t) = {}
        BY <1>3, <2>1, <3>2
      <4> QED
        BY <3>1, <4>1 DEF Caught
    <3>3. CASE scope_entering[t] = <<"TERM">>
      <4>1. scope_entering'[t] = <<>> /\ sig = "TERM" /\ Caught(t) = {"INT"}
        BY <1>3, <2>1, <3>3
      <4> QED
        BY <4>1 DEF Caught, Scopes!Causes
    <3> QED
      BY <1>3, <3>2, <3>3
  <2>3. ({Own(t)} \X Caught(t)) \cup {handler} = {Own(t)} \X (Caught(t) \cup {sig})
    OBVIOUS
  <2> QED
    BY <2>1, <2>2, <2>3
<1>8. grown \in Scope
  BY <1>2, <1>6 DEF Scope
<1>9. /\ Holds(t)' /\ Own(t)' = Own(t) /\ Len(scope_scopes'[t]) = 1 /\ DOMAIN scope_scopes'[t] = {1}
      /\ scope_scopes'[t][1] = grown /\ scope_scopes'[t] \in Seq(Scope)
  BY <1>5, <1>8 DEF Holds, Own
<1>10. ScopeTypes'
  <2>1. scope_entering' \in [Threads -> {<<"INT", "TERM">>, <<"TERM">>, <<>>}]
    BY <1>1, <1>3, <1>4 DEF ScopeTypes
  <2>2. scope_scopes' \in [Threads -> Seq(Scope)]
    BY <1>1, <1>4, <1>9 DEF ScopeTypes
  <2>3. scope_current' \in [Threads -> Scopes!States \cup {0}]
    BY <1>1, <1>2, <1>4 DEF ScopeTypes
  <2> QED
    BY <1>1, <1>4, <1>6, <2>1, <2>2, <2>3 DEF ScopeTypes
<1>11. Nested(t)'
  <2>1. Own(t) \in 1 .. scope_made /\ scope_current'[t] \in 0 .. scope_made
    BY <1>1, <1>2, <1>4 DEF Nested, ScopeTypes
  <2>2. scope_entering'[t] = <<>> => scope_current'[t] = Own(t)
    <3>1. scope_entering'[t] = <<>> => Len(scope_entering[t]) = 1
      <4>1. <<"TERM">> # <<>>
        OBVIOUS
      <4> QED
        BY <1>3, <1>7, <4>1
    <3> QED
      BY <1>1, <1>4, <3>1 DEF ScopeTypes
  <2>3. /\ scope_scopes'[t][1].state = Own(t)
        /\ scope_scopes'[t][1].handlers = {Own(t)} \X Caught(t)'
    BY <1>7, <1>9
  <2>4. \A i \in DOMAIN scope_scopes'[t] :
          /\ scope_scopes'[t][i].state = Own(t)'
          /\ scope_scopes'[t][i].handlers = IF i = 1 THEN {Own(t)'} \X Caught(t)' ELSE {}
    BY <1>9, <2>3
  <2> QED
    BY <1>4, <1>9, <2>1, <2>2, <2>4 DEF Nested
<1>12. \A u \in Threads \ {t} :
         /\ scope_scopes'[u] = scope_scopes[u] /\ scope_entering'[u] = scope_entering[u] /\ scope_current'[u] = scope_current[u]
         /\ Holds(u)' = Holds(u) /\ Own(u)' = Own(u) /\ Caught(u)' = Caught(u)
  BY <1>1, <1>4 DEF ScopeTypes, Holds, Own, Caught
<1>13. Registry'
  BY <1>1, <1>2, <1>4, <1>7, <1>9, <1>12 DEF Registry
<1>14. \A u \in Threads \ {t} : Apart(t, u)' /\ Apart(u, t)'
  BY <1>1, <1>2, <1>4, <1>9, <1>12 DEF Apart, ScopeTypes
<1> QED
  <2>1. scope_made <= scope_made'
    BY <1>1, <1>4 DEF ScopeTypes, Scopes!ScopesAssumption
  <2> QED
    BY <1>10, <1>11, <1>12, <1>13, <1>14, <2>1, OneThread

\* Whoever leaves the outermost scope takes its handlers along.
LEMMA LeaveOutermost ==
  ASSUME Scopes!ScopesAssumption, ThreadsInv, NEW t \in Threads, Len(scope_scopes[t]) = 1,
         scope_registered' = scope_registered \ Scopes!Last(scope_scopes[t]).handlers,
         scope_scopes' = [scope_scopes EXCEPT ![t] = Scopes!Front(@)],
         scope_entering' = [scope_entering EXCEPT ![t] = <<>>],
         UNCHANGED <<scope_current, scope_finalizing, scope_made>>
  PROVE  ThreadsInv'
<1>1. /\ ScopeTypes /\ Registry /\ Nested(t)
      /\ \A u \in Threads \ {t} : Apart(t, u) /\ Apart(u, t)
  BY DEF ThreadsInv
<1>2. /\ scope_scopes[t] \in Seq(Scope) /\ 1 \in DOMAIN scope_scopes[t] /\ Holds(t)
      /\ Scopes!Last(scope_scopes[t]).handlers = {Own(t)} \X Caught(t)
  <2>1. scope_scopes[t] \in Seq(Scope)
    BY <1>1 DEF ScopeTypes
  <2>2. 1 \in DOMAIN scope_scopes[t] /\ Holds(t)
    BY <2>1, LenProperties, EmptySeq DEF Holds
  <2>3. Scopes!Last(scope_scopes[t]) = scope_scopes[t][1]
    BY DEF Scopes!Last
  <2> QED
    BY <1>1, <2>1, <2>2, <2>3 DEF Nested
<1>3. scope_scopes'[t] = <<>>
  <2>1. Scopes!Front(scope_scopes[t]) = <<>>
    BY <1>2, SubSeqEmpty DEF Scopes!Front
  <2> QED
    BY <1>1, <2>1 DEF ScopeTypes
<1>4. ~Holds(t)' /\ scope_entering'[t] = <<>> /\ DOMAIN scope_scopes'[t] = {}
  BY <1>1, <1>3 DEF Holds, ScopeTypes
<1>5. ScopeTypes'
  <2>1. <<>> \in Seq(Scope)
    OBVIOUS
  <2> QED
    BY <1>1, <1>3, <2>1 DEF ScopeTypes
<1>6. Nested(t)'
  BY <1>1, <1>4 DEF Nested
<1>7. \A u \in Threads \ {t} :
        /\ scope_scopes'[u] = scope_scopes[u] /\ scope_entering'[u] = scope_entering[u] /\ scope_current'[u] = scope_current[u]
        /\ Holds(u)' = Holds(u) /\ Own(u)' = Own(u) /\ Caught(u)' = Caught(u)
  BY <1>1 DEF ScopeTypes, Holds, Own, Caught
<1>8. \A u \in Threads \ {t} : Apart(t, u)' /\ Apart(u, t)'
  BY <1>1, <1>4, <1>7 DEF Apart
<1>9. Registry'
  <2> SUFFICES ASSUME NEW h \in Scopes!States \X Scopes!Causes
               PROVE  h \in scope_registered' <=>
                        \E u \in Threads : Holds(u)' /\ h[1] = Own(u)' /\ h[2] \in Caught(u)'
    BY DEF Registry
  <2>1. h \in scope_registered' <=> h \in scope_registered /\ ~(h[1] = Own(t) /\ h[2] \in Caught(t))
    BY <1>2
  <2>2. \A u \in Threads \ {t} : Holds(u) => Own(u) # Own(t)
    BY <1>1, <1>2 DEF Apart
  <2> QED
    BY <1>1, <1>4, <1>7, <2>1, <2>2 DEF Registry
<1>10. scope_made <= scope_made'
  BY <1>1 DEF ScopeTypes, Scopes!ScopesAssumption
<1> QED
  BY <1>5, <1>6, <1>7, <1>8, <1>9, <1>10, OneThread

\* A nested scope leaves the handlers of the State it shared.
LEMMA LeaveNested ==
  ASSUME Scopes!ScopesAssumption, ThreadsInv, NEW t \in Threads, scope_entering[t] = <<>>, Len(scope_scopes[t]) > 1,
         scope_registered' = scope_registered \ Scopes!Last(scope_scopes[t]).handlers,
         scope_scopes' = [scope_scopes EXCEPT ![t] = Scopes!Front(@)],
         UNCHANGED <<scope_current, scope_entering, scope_finalizing, scope_made>>
  PROVE  ThreadsInv'
<1>1. /\ ScopeTypes /\ Registry /\ Nested(t)
      /\ \A u \in Threads \ {t} : Apart(t, u) /\ Apart(u, t)
  BY DEF ThreadsInv
<1>2. /\ scope_scopes[t] \in Seq(Scope) /\ Len(scope_scopes[t]) \in Nat
      /\ DOMAIN scope_scopes[t] = 1 .. Len(scope_scopes[t])
      /\ Scopes!Last(scope_scopes[t]).handlers = {}
  <2>1. /\ scope_scopes[t] \in Seq(Scope) /\ Len(scope_scopes[t]) \in Nat
        /\ DOMAIN scope_scopes[t] = 1 .. Len(scope_scopes[t])
    BY <1>1, LenProperties DEF ScopeTypes
  <2>2. Len(scope_scopes[t]) \in 1 .. Len(scope_scopes[t]) /\ Len(scope_scopes[t]) # 1
    <3>1. \A n \in Nat : n > 1 => n \in 1 .. n /\ n # 1
      OBVIOUS
    <3> QED
      BY <2>1, <3>1
  <2> QED
    BY <1>1, <2>1, <2>2 DEF Nested, Scopes!Last
<1>3. /\ scope_scopes'[t] \in Seq(Scope) /\ Len(scope_scopes'[t]) = Len(scope_scopes[t]) - 1
      /\ DOMAIN scope_scopes'[t] = 1 .. Len(scope_scopes[t]) - 1
      /\ \A i \in 1 .. Len(scope_scopes[t]) - 1 : scope_scopes'[t][i] = scope_scopes[t][i]
  <2>1. scope_scopes'[t] = SubSeq(scope_scopes[t], 1, Len(scope_scopes[t]) - 1)
    BY <1>1 DEF Scopes!Front, ScopeTypes
  <2> QED
    <3> DEFINE n == Len(scope_scopes[t]) - 1
    <3>1. 1 \in 1 .. Len(scope_scopes[t]) + 1 /\ n \in 0 .. Len(scope_scopes[t]) /\ n \in Nat
      BY <1>2
    <3>2. /\ SubSeq(scope_scopes[t], 1, n) \in Seq(Scope)
          /\ Len(SubSeq(scope_scopes[t], 1, n)) = IF 1 <= n THEN n - 1 + 1 ELSE 0
          /\ \A i \in 1 .. n - 1 + 1 : SubSeq(scope_scopes[t], 1, n)[i] = scope_scopes[t][1 + i - 1]
      BY <1>2, <3>1, SubSeqProperties
    <3>3. n >= 1 /\ n - 1 + 1 = n /\ \A i \in 1 .. n : 1 + i - 1 = i
      BY <3>1
    <3>4. DOMAIN scope_scopes'[t] = 1 .. Len(scope_scopes'[t])
      BY <2>1, <3>2, LenProperties
    <3> QED
      BY <2>1, <3>2, <3>3, <3>4
<1>4. ScopeTypes'
  BY <1>1, <1>3 DEF ScopeTypes
<1>5. Holds(t) /\ Holds(t)' /\ Own(t)' = Own(t) /\ Caught(t)' = Caught(t)
  <2>1. scope_scopes[t] # <<>> /\ scope_scopes'[t] # <<>>
    BY <1>2, <1>3, EmptySeq
  <2> QED
    BY <1>2, <1>3, <2>1 DEF Holds, Own, Caught
<1>6. Nested(t)'
  <2>1. \A i \in DOMAIN scope_scopes'[t] : i \in DOMAIN scope_scopes[t] /\ scope_scopes'[t][i] = scope_scopes[t][i]
    BY <1>2, <1>3
  <2>2. ASSUME NEW i \in DOMAIN scope_scopes'[t]
        PROVE  /\ scope_scopes'[t][i].state = Own(t)'
               /\ scope_scopes'[t][i].handlers = IF i = 1 THEN {Own(t)'} \X Caught(t)' ELSE {}
    <3>1. /\ scope_scopes[t][i].state = Own(t)
          /\ scope_scopes[t][i].handlers = IF i = 1 THEN {Own(t)} \X Caught(t) ELSE {}
      BY <1>1, <2>1 DEF Nested
    <3> QED
      BY <1>5, <2>1, <3>1
  <2>3. /\ scope_entering'[t] # <<>> => Len(scope_scopes'[t]) = 1
        /\ Holds(t)' => Own(t)' \in 1 .. scope_made'
        /\ scope_current'[t] \in 0 .. scope_made'
        /\ Holds(t)' /\ scope_entering'[t] = <<>> => scope_current'[t] = Own(t)'
    BY <1>1, <1>3, <1>5 DEF Nested
  <2> QED
    BY <2>2, <2>3 DEF Nested
<1>7. \A u \in Threads : Holds(u)' = Holds(u) /\ Own(u)' = Own(u) /\ Caught(u)' = Caught(u)
  BY <1>1, <1>5 DEF Holds, Own, Caught, ScopeTypes
<1>8. Registry' /\ scope_registered' = scope_registered
  BY <1>1, <1>2, <1>7 DEF Registry
<1>9. \A u \in Threads \ {t} :
        /\ scope_scopes'[u] = scope_scopes[u] /\ scope_entering'[u] = scope_entering[u] /\ scope_current'[u] = scope_current[u]
        /\ Apart(t, u)' /\ Apart(u, t)'
  BY <1>1, <1>7 DEF Apart, ScopeTypes
<1>10. scope_made <= scope_made'
  BY <1>1 DEF ScopeTypes, Scopes!ScopesAssumption
<1> QED
  BY <1>4, <1>6, <1>8, <1>9, <1>10, OneThread

\* Scopes are left in reverse order, or when a registration fails.
LEMMA LeaveStep ==
  ASSUME Scopes!ScopesAssumption, ThreadsInv, NEW t \in Threads, Scopes!RegisterFails(t) \/ Scopes!Drop(t)
  PROVE  ThreadsInv'
<1>1. /\ ScopeTypes /\ Nested(t) /\ scope_scopes[t] \in Seq(Scope) /\ Len(scope_scopes[t]) \in Nat
  BY LenProperties DEF ThreadsInv, ScopeTypes
<1>2. CASE Scopes!RegisterFails(t)
  <2>1. Len(scope_scopes[t]) = 1
    BY <1>1, <1>2 DEF Scopes!RegisterFails, Nested
  <2> QED
    BY <1>2, <2>1, LeaveOutermost DEF Scopes!RegisterFails
<1>3. CASE Scopes!Drop(t)
  <2>1. Len(scope_scopes[t]) # 0
    BY <1>1, <1>3, EmptySeq DEF Scopes!Drop
  <2>2. scope_entering = [scope_entering EXCEPT ![t] = <<>>]
    BY <1>1, <1>3 DEF Scopes!Drop, ScopeTypes
  <2>3. CASE Len(scope_scopes[t]) = 1
    BY <1>3, <2>2, <2>3, LeaveOutermost DEF Scopes!Drop
  <2>4. CASE Len(scope_scopes[t]) > 1
    BY <1>3, <2>4, LeaveNested DEF Scopes!Drop
  <2> QED
    <3>1. Len(scope_scopes[t]) = 1 \/ Len(scope_scopes[t]) > 1
      <4>1. \A n \in Nat : n = 0 \/ n = 1 \/ n > 1
        OBVIOUS
      <4> QED
        BY <1>1, <2>1, <4>1
    <3> QED
      BY <2>3, <2>4, <3>1
<1> QED
  BY <1>2, <1>3

\* Every step of a thread, the user and a handler keeps the invariant.
LEMMA ScopesNext ==
  ASSUME Scopes!ScopesAssumption
  PROVE  ScopesInv /\ [Scopes!Next]_(Scopes!vars) => ScopesInv'
<1> SUFFICES ASSUME ScopesInv, [Scopes!Next]_(Scopes!vars) PROVE ScopesInv'
  OBVIOUS
<1>1. ThreadsInv /\ SignalInv /\ ScopeTypes
  BY DEF ScopesInv, ThreadsInv
<1>2. ASSUME NEW t \in Threads,
             \/ Scopes!EnterNested(t) \/ Scopes!EnterOutermost(t) \/ Scopes!Register(t)
             \/ Scopes!RegisterFails(t) \/ Scopes!Drop(t) \/ Scopes!Finalize(t)
      PROVE  ScopesInv'
  <2>1. SignalInv'
    <3>1. UNCHANGED signalParts
      BY <1>2 DEF Scopes!EnterNested, Scopes!EnterOutermost, Scopes!Register,
         Scopes!RegisterFails, Scopes!Drop, Scopes!Finalize, Scopes!NotSignalled,
         signalParts
    <3> QED
      BY <1>1, <3>1, SignalsStay
  <2>2. CASE Scopes!Finalize(t)
    <3>1. scope_finalizing' \in [Threads -> Nat]
      <4>1. /\ scope_finalizing \in [Threads -> Nat] /\ scope_finalizing[t] \in Nat
            /\ \/ scope_finalizing' = [scope_finalizing EXCEPT ![t] = @ + 1]
               \/ scope_finalizing[t] > 0 /\ scope_finalizing' = [scope_finalizing EXCEPT ![t] = @ - 1]
        BY <1>1, <2>2 DEF Scopes!Finalize, ScopeTypes
      <4>2. scope_finalizing[t] > 0 => scope_finalizing[t] - 1 \in Nat
        BY <4>1
      <4> QED
        BY <4>1, <4>2
    <3>2. UNCHANGED <<scope_registered, scope_current, scope_scopes, scope_entering, scope_made>>
      BY <2>2 DEF Scopes!Finalize
    <3> QED
      BY <1>1, <2>1, <3>1, <3>2, ScopesStay DEF ScopesInv
  <2> QED
    BY <1>1, <1>2, <2>1, <2>2, EnterNestedStep, EnterOutermostStep, RegisterStep,
       LeaveStep DEF ScopesInv
<1>3. ASSUME UNCHANGED scopeParts PROVE ThreadsInv'
  BY <1>1, <1>3, ScopesStay DEF scopeParts, ScopeTypes
<1>4. ASSUME NEW s \in Scopes!Causes, Scopes!Signal(s) PROVE ScopesInv'
  BY <1>3, <1>4, SignalStep DEF ScopesInv, Scopes!Signal, scopeParts
<1>5. ASSUME NEW r \in scope_running, Scopes!Handler(r) PROVE ScopesInv'
  BY <1>1, <1>3, <1>5, HandlerStep DEF ScopesInv, Scopes!Handler, scopeParts
<1>6. CASE UNCHANGED Scopes!vars
  BY <1>1, <1>3, <1>6, SignalsStay DEF ScopesInv, Scopes!vars, scopeParts, signalParts
<1> QED
  BY <1>2, <1>4, <1>5, <1>6 DEF Scopes!Next

\* What the invariant says of the threads is what they read.
LEMMA InvExact == ScopesInv => Scopes!ScopesExact
<1> SUFFICES ASSUME ScopesInv PROVE Scopes!ScopesExact
  OBVIOUS
<1>1. /\ ThreadsInv /\ SignalInv /\ ScopeTypes /\ SignalTypes /\ Registry
      /\ \A t \in Threads : Nested(t)
      /\ \A k \in Scopes!States : Count(k)
  BY DEF ScopesInv, ThreadsInv, SignalInv
<1>2. Scopes!TypeOK
  BY <1>1 DEF Scopes!TypeOK, ScopeTypes, SignalTypes
<1>3. ASSUME NEW t \in Threads
      PROVE  /\ scope_scopes[t] \in Seq(Scope) /\ DOMAIN scope_scopes[t] = 1 .. Len(scope_scopes[t])
             /\ Len(scope_scopes[t]) \in Nat
             /\ Holds(t) => 1 \in DOMAIN scope_scopes[t] /\ Own(t) \in Scopes!States
  <2>1. /\ scope_scopes[t] \in Seq(Scope) /\ DOMAIN scope_scopes[t] = 1 .. Len(scope_scopes[t])
        /\ Len(scope_scopes[t]) \in Nat /\ \A i \in 1 .. Len(scope_scopes[t]) : scope_scopes[t][i] \in Scope
    BY <1>1, LenProperties, ElementOfSeq DEF ScopeTypes
  <2>2. Holds(t) => 1 \in DOMAIN scope_scopes[t]
    BY <2>1, EmptySeq DEF Holds
  <2>3. Holds(t) => Own(t) \in Scopes!States
    BY <2>1, <2>2 DEF Own, Scope
  <2> QED
    BY <2>1, <2>2, <2>3
<1>4. ASSUME NEW t \in Threads, ~Holds(t) PROVE Scopes!CancellationSignal(t) = "none" /\ ~Scopes!Repeated(t)
  BY <1>1, <1>4, OwnState DEF Scopes!CancellationSignal, Scopes!Repeated
<1>5. ASSUME NEW t \in Threads, Holds(t)
      PROVE  LET k == scope_scopes[t][1].state IN
             /\ \A i \in DOMAIN scope_scopes[t] : scope_scopes[t][i].state = k
             /\ scope_entering[t] = <<>> => Scopes!CancellationSignal(t) = scope_first[k]
             /\ scope_first[k] \in scope_early[k] \cup {"none"}
             /\ Scopes!Settled(k) => (scope_first[k] = "none" <=> scope_heard[k] = 0) /\ scope_signals[k] = scope_heard[k]
  <2> DEFINE k == Own(t)
  <2>1. k \in Scopes!States /\ Count(k) /\ scope_heard[k] \in Nat /\ scope_signals[k] \in Nat
    BY <1>1, <1>3, <1>5 DEF SignalTypes
  <2>2. \A i \in DOMAIN scope_scopes[t] : scope_scopes[t][i].state = k
    BY <1>1 DEF Nested
  <2>3. scope_entering[t] = <<>> => Scopes!CancellationSignal(t) = scope_first[k]
    BY <1>1, <1>5, OwnState DEF Scopes!CancellationSignal
  <2>4. ASSUME Scopes!Settled(k)
        PROVE  (scope_first[k] = "none" <=> scope_heard[k] = 0) /\ scope_signals[k] = scope_heard[k]
    <3>1. Handling(k) = {}
      BY <2>4 DEF Scopes!Settled, Handling
    <3>2. Cardinality(Handling(k)) = 0
      BY <3>1, FS_EmptySet
    <3> QED
      BY <2>1, <3>2 DEF Count
  <2> QED
    BY <2>1, <2>2, <2>3, <2>4 DEF Own, Count
<1>6. scope_registered = UNION {UNION {scope_scopes[t][i].handlers : i \in DOMAIN scope_scopes[t]} : t \in Threads}
  <2>1. ASSUME NEW t \in Threads, NEW i \in DOMAIN scope_scopes[t], NEW h \in scope_scopes[t][i].handlers
        PROVE  h \in scope_registered
    <3>1. i = 1 /\ h \in {Own(t)} \X Caught(t)
      BY <1>1, <2>1 DEF Nested
    <3>2. Holds(t)
      BY <1>3, <2>1 DEF Holds
    <3>3. h \in Scopes!States \X Scopes!Causes /\ h[1] = Own(t) /\ h[2] \in Caught(t)
      BY <1>3, <3>1, <3>2 DEF Caught, Scopes!Causes
    <3> QED
      BY <1>1, <3>2, <3>3 DEF Registry
  <2>2. ASSUME NEW h \in scope_registered
        PROVE  \E t \in Threads : \E i \in DOMAIN scope_scopes[t] : h \in scope_scopes[t][i].handlers
    <3>1. h \in Scopes!States \X Scopes!Causes
      BY <1>1 DEF ScopeTypes
    <3>2. PICK t \in Threads : Holds(t) /\ h[1] = Own(t) /\ h[2] \in Caught(t)
      BY <1>1, <3>1 DEF Registry
    <3>3. 1 \in DOMAIN scope_scopes[t] /\ h \in {Own(t)} \X Caught(t)
      BY <1>3, <3>1, <3>2
    <3>4. h \in scope_scopes[t][1].handlers
      BY <1>1, <3>3 DEF Nested
    <3> QED
      BY <3>3, <3>4
  <2> QED
    BY <2>1, <2>2
<1>7. ASSUME NEW t \in Threads, scope_entering[t] = <<>>, scope_scopes[t] # <<>>
      PROVE  {scope_scopes[t][1].state} \X Scopes!Causes \subseteq scope_registered
  <2>1. Holds(t) /\ Caught(t) = Scopes!Causes /\ Own(t) \in Scopes!States
    BY <1>3, <1>7 DEF Holds, Caught
  <2>2. \A h \in {Own(t)} \X Scopes!Causes : h \in Scopes!States \X Scopes!Causes /\ h[1] = Own(t) /\ h[2] \in Scopes!Causes
    BY <2>1
  <2> QED
    BY <1>1, <2>1, <2>2 DEF Registry, Own
<1>8. Scopes!Heard
  BY <1>4, <1>5, <1>6, <1>7 DEF Scopes!Heard, Holds
<1>9. ASSUME NEW t \in Threads, Scopes!Repeated(t) PROVE Scopes!CancellationSignal(t) # "none"
  <2>1. Scopes!Upgraded(t) # 0 /\ scope_signals[Scopes!Upgraded(t)] > 1
    BY <1>9 DEF Scopes!Repeated
  <2>2. Scopes!Upgraded(t) \in Scopes!States
    BY <1>1, <2>1 DEF Scopes!Upgraded, ScopeTypes
  <2>3. scope_first[Scopes!Upgraded(t)] # "none"
    BY <1>1, <2>1, <2>2 DEF Count, SignalTypes
  <2> QED
    BY <2>1, <2>3 DEF Scopes!CancellationSignal
<1>10. Scopes!Stays
  BY <1>9 DEF Scopes!Stays, Scopes!MayLaunch
<1> QED
  BY <1>2, <1>8, <1>10 DEF Scopes!ScopesExact

\* CancellationScope::enter, its handlers and drop: every scope of a thread reads
\* the first and the number of the signals sent since the outermost one was entered,
\* handlers are registered exactly for the outermost scopes held, and a cancelled
\* thread launches no recording, after a second signal nothing.
THEOREM ScopesAreExact ==
  ASSUME Scopes!ScopesAssumption
  PROVE  Scopes!Spec => []Scopes!ScopesExact
<1>1. Scopes!Init => ScopesInv
  BY ScopesInit
<1>2. ScopesInv /\ [Scopes!Next]_(Scopes!vars) => ScopesInv'
  BY ScopesNext
<1>3. ScopesInv => Scopes!ScopesExact
  BY InvExact
<1> QED
  BY <1>1, <1>2, <1>3, PTL DEF Scopes!Spec

-----------------------------------------------------------------------------
(* The session with a helper: the inductive invariant.                       *)

\* The chunks of a sequence.
Elements(s) == {s[i] : i \in DOMAIN s}

\* The calls that succeeded are all that an open session has made, and only an
\* open session is in one.
CallsInv ==
  /\ session_pc # "idle" => session_session = "open" /\ session_calls > 0 /\ session_lines > 0
  /\ session_session \in {"none", "refused"} =>
       /\ session_calls = 0 /\ session_replies = <<>>
       /\ session_inpipe = 0 /\ session_got = 0 /\ session_owed = 0 /\ session_outpipe = <<>>
  /\ session_session = "open" =>
       Len(session_replies) = IF session_pc = "idle" THEN session_calls ELSE session_calls - 1

\* What is read for an exchange was written during it: the pipe was found empty
\* before the first byte of the request left.
FreshInv ==
  /\ session_pc # "idle" => \A c \in Elements(session_response) : c.born = session_calls
  /\ session_stdout /\ (\/ session_pc \in {"write", "receive"}
                        \/ session_pc # "idle" /\ session_written > 0) =>
       \A c \in Elements(session_outpipe) : c.born = session_calls

\* A helper that only answers is in step with the exchange: it has read the
\* requests of the calls so far, and owes what it has not written of the last.
InExchange ==
  /\ session_inpipe + session_got = (session_calls - 1) * ReqLen + session_written
  /\ (session_calls - 1) * ReqLen <= session_got
  /\ session_got < session_calls * ReqLen
       => session_owed = 0 /\ session_outpipe = <<>> /\ session_response = <<>>
  /\ session_got = session_calls * ReqLen
       => Helper!Newlines(session_response) + Helper!Newlines(session_outpipe) + session_owed = session_lines
  /\ session_owed = 0 /\ session_outpipe # <<>> => session_outpipe[Len(session_outpipe)].nl
  /\ \A c \in Elements(session_response) \cup Elements(session_outpipe) : c.req = session_calls

StepInv ==
  session_behaved /\ session_session = "open" =>
    IF session_pc = "idle"
    THEN /\ session_inpipe = 0 /\ session_got = session_calls * ReqLen
         /\ session_owed = 0 /\ session_outpipe = <<>>
    ELSE InExchange

SessionInv ==
  /\ Helper!TypeOK /\ CallsInv /\ FreshInv /\ StepInv
  /\ Helper!ClosedIsReaped /\ Helper!NoRetry /\ Helper!QueuedNeverReply /\ Helper!ReplyAnswersRequest

-----------------------------------------------------------------------------
(* Sequences of chunks, and how many newlines they hold.                     *)

\* Where the newlines are.
Marks(s) == {i \in DOMAIN s : s[i].nl}

\* A pipe's chunks have a count of newlines, which is not zero if one ends them.
LEMMA NewlinesCount ==
  ASSUME NEW s \in Seq(Helper!Chunk)
  PROVE  /\ IsFiniteSet(Marks(s)) /\ Helper!Newlines(s) = Cardinality(Marks(s))
         /\ Helper!Newlines(s) \in Nat
         /\ s # <<>> /\ s[Len(s)].nl => Helper!Newlines(s) > 0
         /\ s = <<>> => Helper!Newlines(s) = 0
<1>1. Helper!Newlines(s) = Cardinality(Marks(s)) /\ Len(s) \in Nat /\ DOMAIN s = 1 .. Len(s)
  BY LenProperties DEF Helper!Newlines, Marks, Helper!Cardinality, Cardinality
<1>2. IsFiniteSet(Marks(s))
  <2>1. IsFiniteSet(1 .. Len(s)) /\ Marks(s) \subseteq 1 .. Len(s)
    BY <1>1, FS_Interval DEF Marks
  <2> QED
    BY <2>1, FS_Subset
<1>3. Helper!Newlines(s) \in Nat /\ (Helper!Newlines(s) = 0 <=> Marks(s) = {})
  BY <1>1, <1>2, FS_CardinalityType, FS_EmptySet
<1>4. s # <<>> /\ s[Len(s)].nl => Helper!Newlines(s) > 0
  <2> SUFFICES ASSUME s # <<>>, s[Len(s)].nl PROVE Helper!Newlines(s) > 0
    OBVIOUS
  <2>1. Len(s) \in DOMAIN s
    BY <1>1, EmptySeq
  <2>2. Marks(s) # {}
    BY <2>1 DEF Marks
  <2> QED
    BY <1>3, <2>2
<1>5. s = <<>> => Helper!Newlines(s) = 0
  BY <1>3 DEF Marks
<1> QED
  BY <1>1, <1>2, <1>3, <1>4, <1>5

\* Newlines add up, and elements come from either part.
LEMMA NewlinesAdd ==
  ASSUME NEW s \in Seq(Helper!Chunk), NEW t \in Seq(Helper!Chunk)
  PROVE  /\ s \o t \in Seq(Helper!Chunk)
         /\ Helper!Newlines(s \o t) = Helper!Newlines(s) + Helper!Newlines(t)
         /\ Elements(s \o t) = Elements(s) \cup Elements(t)
         /\ t # <<>> => s \o t # <<>> /\ (s \o t)[Len(s \o t)] = t[Len(t)]
<1> DEFINE g == s \o t
           n == Len(s)
           m == Len(t)
           T == {i \in n + 1 .. n + m : g[i].nl}
<1>1. /\ n \in Nat /\ m \in Nat /\ DOMAIN s = 1 .. n /\ DOMAIN t = 1 .. m
      /\ g \in Seq(Helper!Chunk) /\ Len(g) = n + m
      /\ \A i \in 1 .. n + m : g[i] = IF i <= n THEN s[i] ELSE t[i - n]
  BY LenProperties, ConcatProperties
<1>2. DOMAIN g = 1 .. n + m
  BY <1>1, LenProperties
<1> HIDE DEF g, n, m
<1>3. /\ \A i \in 1 .. n : i \in 1 .. n + m /\ i <= n
      /\ \A i \in n + 1 .. n + m : i \in 1 .. n + m /\ ~(i <= n) /\ i - n \in 1 .. m
                                   /\ (i - n) + n = i
      /\ \A i \in 1 .. m : i + n \in n + 1 .. n + m /\ (i + n) - n = i
      /\ \A i \in 1 .. n + m : i \in 1 .. n \/ i \in n + 1 .. n + m
      /\ \A i \in 1 .. n : i \notin n + 1 .. n + m
  BY ONLY <1>1
<1>4. /\ \A i \in 1 .. n : g[i] = s[i]
      /\ \A i \in n + 1 .. n + m : g[i] = t[i - n]
      /\ \A i \in 1 .. m : g[i + n] = t[i]
  BY <1>1, <1>3
<1>5. Marks(g) = Marks(s) \cup T /\ Marks(s) \cap T = {}
  BY <1>1, <1>2, <1>3, <1>4 DEF Marks
<1>6. IsFiniteSet(T) /\ Cardinality(T) = Cardinality(Marks(t))
  <2> DEFINE f == [i \in Marks(t) |-> i + n]
  <2>1. \A i \in Marks(t) : i \in 1 .. m /\ t[i].nl
    BY <1>1 DEF Marks
  <2>2. \A i \in Marks(t) : f[i] \in T /\ f[i] = i + n
    BY <1>3, <1>4, <2>1
  <2>3. \A j \in T : j - n \in Marks(t) /\ f[j - n] = j
    BY <1>1, <1>3, <1>4 DEF Marks
  <2>4. \A i, j \in Marks(t) : f[i] = f[j] => i = j
    BY <1>1, <2>1, <2>2
  <2>5. f \in [Marks(t) -> T]
    BY <2>2
  <2> HIDE DEF f, T
  <2>6. f \in Bijection(Marks(t), T)
    <3>1. f \in Injection(Marks(t), T)
      BY <2>4, <2>5 DEF Injection, IsInjective
    <3>2. f \in Surjection(Marks(t), T)
      <4>1. \A j \in T : \E i \in Marks(t) : f[i] = j
        BY <2>3
      <4> QED
        BY <2>5, <4>1 DEF Surjection, Range
    <3> QED
      BY <3>1, <3>2 DEF Bijection
  <2>7. ExistsBijection(Marks(t), T)
    BY <2>6 DEF ExistsBijection
  <2> QED
    BY <2>7, NewlinesCount, FS_Bijection
<1>7. Helper!Newlines(g) = Helper!Newlines(s) + Helper!Newlines(t)
  <2>1. Cardinality(Marks(g)) = Cardinality(Marks(s)) + Cardinality(T) - Cardinality({})
    BY <1>5, <1>6, NewlinesCount, FS_Union
  <2>2. Helper!Newlines(s) \in Nat /\ Helper!Newlines(t) \in Nat
    BY NewlinesCount
  <2> QED
    BY <1>1, <1>6, <2>1, <2>2, NewlinesCount, FS_EmptySet
<1>8. Elements(g) = Elements(s) \cup Elements(t)
  <2>1. \A c \in Elements(g) : c \in Elements(s) \cup Elements(t)
    <3> SUFFICES ASSUME NEW c \in Elements(g) PROVE c \in Elements(s) \cup Elements(t)
      OBVIOUS
    <3>1. PICK i \in 1 .. n + m : c = g[i]
      BY <1>2 DEF Elements
    <3>2. CASE i \in 1 .. n
      BY <1>1, <1>4, <3>1, <3>2 DEF Elements
    <3>3. CASE i \in n + 1 .. n + m
      <4>1. i - n \in DOMAIN t /\ c = t[i - n]
        BY <1>1, <1>3, <1>4, <3>1, <3>3
      <4> QED
        BY <4>1 DEF Elements
    <3> QED
      BY <1>3, <3>2, <3>3
  <2>2. \A c \in Elements(s) : c \in Elements(g)
    BY <1>1, <1>2, <1>3, <1>4 DEF Elements
  <2>3. \A c \in Elements(t) : c \in Elements(g)
    <3> SUFFICES ASSUME NEW c \in Elements(t) PROVE c \in Elements(g)
      OBVIOUS
    <3>1. PICK i \in 1 .. m : c = t[i]
      BY <1>1 DEF Elements
    <3>2. i + n \in DOMAIN g /\ g[i + n] = c
      BY <1>2, <1>3, <1>4, <3>1
    <3> QED
      BY <3>2 DEF Elements
  <2> QED
    BY <2>1, <2>2, <2>3
<1>9. t # <<>> => g # <<>> /\ g[Len(g)] = t[Len(t)]
  <2> SUFFICES ASSUME t # <<>> PROVE g # <<>> /\ g[Len(g)] = t[Len(t)]
    OBVIOUS
  <2>1. m \in 1 .. m /\ n + m # 0 /\ m + n = n + m
    BY <1>1, EmptySeq DEF m
  <2>2. g # <<>>
    BY <1>1, <2>1
  <2>3. g[n + m] = t[m]
    BY <1>4, <2>1
  <2> QED
    BY <1>1, <2>2, <2>3 DEF m
<1> QED
  BY <1>1, <1>7, <1>8, <1>9 DEF g

\* A chunk more.
LEMMA NewlinesAppend ==
  ASSUME NEW s \in Seq(Helper!Chunk), NEW c \in Helper!Chunk
  PROVE  /\ Append(s, c) \in Seq(Helper!Chunk) /\ Append(s, c) # <<>>
         /\ Helper!Newlines(Append(s, c)) = Helper!Newlines(s) + (IF c.nl THEN 1 ELSE 0)
         /\ Elements(Append(s, c)) = Elements(s) \cup {c}
         /\ Append(s, c)[Len(Append(s, c))] = c
<1> DEFINE t == <<c>>
<1>1. t \in Seq(Helper!Chunk) /\ Append(s, c) = s \o t
  BY AppendIsConcat
<1>2. DOMAIN t = {1} /\ t[1] = c /\ Len(t) = 1 /\ t # <<>>
  OBVIOUS
<1> HIDE DEF t
<1>3. Marks(t) = IF c.nl THEN {1} ELSE {}
  BY <1>2 DEF Marks
<1>4. Helper!Newlines(t) = IF c.nl THEN 1 ELSE 0
  BY <1>1, <1>3, NewlinesCount, FS_EmptySet, FS_Singleton
<1>5. Elements(t) = {c}
  BY <1>2 DEF Elements
<1> QED
  BY <1>1, <1>2, <1>4, <1>5, NewlinesAdd

\* A drain takes a part of the pipe from its front: nothing only when it is closed
\* or empty.
LEMMA DrainTakes ==
  ASSUME Helper!ConstantsOK, session_outpipe \in Seq(Helper!Chunk), session_stdout \in BOOLEAN
  PROVE  /\ Helper!Taken \in Seq(Helper!Chunk) /\ Helper!Left \in Seq(Helper!Chunk)
         /\ session_outpipe = Helper!Taken \o Helper!Left
         /\ session_stdout /\ Helper!Taken = <<>> => session_outpipe = <<>>
         /\ ~session_stdout => Helper!Taken = <<>> /\ Helper!Left = session_outpipe
<1> DEFINE n == Len(session_outpipe)
           m == Helper!Min2(DrainTurn, n)
<1>1. n \in Nat /\ DrainTurn \in Nat \ {0} /\ DOMAIN session_outpipe = 1 .. n
  BY LenProperties DEF Helper!ConstantsOK
<1>2. m \in Nat /\ m <= n /\ (m = 0 => n = 0)
  BY <1>1 DEF Helper!Min2
<1>3. CASE ~session_stdout
  BY <1>3, ConcatEmptySeq DEF Helper!Taken, Helper!Left
<1>4. CASE session_stdout
  <2>1. Helper!Taken = SubSeq(session_outpipe, 1, m)
    BY <1>4 DEF Helper!Taken
  <2>2. /\ Helper!Taken \in Seq(Helper!Chunk) /\ Len(Helper!Taken) = m
        /\ \A i \in 1 .. m : Helper!Taken[i] = session_outpipe[i]
    <3> HIDE DEF m
    <3>1. \A i \in 1 .. m : session_outpipe[i] \in Helper!Chunk
      BY <1>1, <1>2, ElementOfSeq
    <3>2. /\ SubSeq(session_outpipe, 1, m) \in Seq(Helper!Chunk)
          /\ Len(SubSeq(session_outpipe, 1, m)) = IF 1 <= m THEN m - 1 + 1 ELSE 0
          /\ \A i \in 1 .. m - 1 + 1 : SubSeq(session_outpipe, 1, m)[i] = session_outpipe[1 + i - 1]
      BY <1>2, <3>1, SubSeqProperties
    <3>3. (IF 1 <= m THEN m - 1 + 1 ELSE 0) = m /\ m - 1 + 1 = m
          /\ \A i \in 1 .. m : 1 + i - 1 = i
      BY <1>2
    <3> QED
      BY <2>1, <3>2, <3>3
  <2>3. Helper!Left = SubSeq(session_outpipe, m + 1, n)
    BY <1>4, <2>2 DEF Helper!Left
  <2>4. /\ Helper!Left \in Seq(Helper!Chunk) /\ Len(Helper!Left) = n - m
        /\ \A i \in 1 .. n - m : Helper!Left[i] = session_outpipe[m + i]
    <3> HIDE DEF m, n
    <3>1. \A i \in m + 1 .. n : session_outpipe[i] \in Helper!Chunk
      BY <1>1, <1>2, ElementOfSeq DEF n
    <3>2. /\ SubSeq(session_outpipe, m + 1, n) \in Seq(Helper!Chunk)
          /\ Len(SubSeq(session_outpipe, m + 1, n)) =
               IF m + 1 <= n THEN n - (m + 1) + 1 ELSE 0
          /\ \A i \in 1 .. n - (m + 1) + 1 :
               SubSeq(session_outpipe, m + 1, n)[i] = session_outpipe[(m + 1) + i - 1]
      BY <1>1, <1>2, <3>1, SubSeqProperties
    <3>3. /\ (IF m + 1 <= n THEN n - (m + 1) + 1 ELSE 0) = n - m
          /\ n - (m + 1) + 1 = n - m
          /\ \A i \in 1 .. n - m : (m + 1) + i - 1 = m + i
      BY <1>1, <1>2
    <3> QED
      BY <2>3, <3>2, <3>3
  <2> HIDE DEF m
  <2>5. session_outpipe = Helper!Taken \o Helper!Left
    <3>1. /\ Helper!Taken \o Helper!Left \in Seq(Helper!Chunk)
          /\ Len(Helper!Taken \o Helper!Left) = m + (n - m)
          /\ \A i \in 1 .. m + (n - m) :
               (Helper!Taken \o Helper!Left)[i] = IF i <= m THEN Helper!Taken[i] ELSE Helper!Left[i - m]
      <4> DEFINE T == Helper!Taken
                 L == Helper!Left
      <4>1. T \in Seq(Helper!Chunk) /\ L \in Seq(Helper!Chunk) /\ Len(T) = m /\ Len(L) = n - m
        BY <2>2, <2>4
      <4> HIDE DEF T, L, n
      <4>2. /\ T \o L \in Seq(Helper!Chunk) /\ Len(T \o L) = Len(T) + Len(L)
            /\ \A i \in 1 .. Len(T) + Len(L) : (T \o L)[i] = IF i <= Len(T) THEN T[i] ELSE L[i - Len(T)]
        BY <4>1, ConcatProperties
      <4> QED
        BY <4>1, <4>2 DEF T, L
    <3> HIDE DEF n
    <3>2. m + (n - m) = n
      BY <1>1, <1>2
    <3>3. ASSUME NEW i \in 1 .. n
          PROVE  (Helper!Taken \o Helper!Left)[i] = session_outpipe[i]
      <4>1. CASE i <= m
        <5>1. i \in 1 .. m
          BY <1>2, <4>1
        <5> QED
          BY <2>2, <3>1, <3>2, <4>1, <5>1
      <4>2. CASE ~(i <= m)
        <5>1. i - m \in 1 .. n - m /\ m + (i - m) = i
          BY <1>1, <1>2, <4>2
        <5> QED
          BY <2>4, <3>1, <3>2, <4>2, <5>1
      <4> QED
        BY <4>1, <4>2
    <3>4. Len(session_outpipe) = n
      BY DEF n
    <3> QED
      BY <3>1, <3>2, <3>3, <3>4, SeqEqual
  <2>6. Helper!Taken = <<>> => session_outpipe = <<>>
    BY <1>2, <2>2, EmptySeq
  <2> QED
    BY <1>4, <2>2, <2>4, <2>5, <2>6
<1> QED
  BY <1>3, <1>4

\* The count of requests read is that of the calls when the last has been read in
\* full.
LEMMA RequestsRead ==
  ASSUME NEW k \in Nat \ {0}, NEW n \in Nat \ {0}, NEW g \in Nat,
         (n - 1) * k <= g, g <= n * k
  PROVE  /\ g = n * k => g \div k = n
         /\ g < n * k => ((g + 1) % k = 0 <=> g + 1 = n * k)
<1>1. ASSUME NEW a \in Nat, NEW b \in Nat, a < b
      PROVE  a * k + k <= b * k /\ a * k \in Nat /\ b * k \in Nat
  BY ONLY <1>1, k \in Nat \ {0}
<1>2. n - 1 \in Nat /\ n * k = (n - 1) * k + k /\ (n - 1) * k \in Nat /\ n * k \in Nat
  BY ONLY k \in Nat \ {0}, n \in Nat \ {0}
<1>3. ASSUME NEW h \in Nat
      PROVE  /\ h \div k \in Nat /\ h % k \in 0 .. k - 1
             /\ (h \div k) * k \in Nat
             /\ h % k = h - (h \div k) * k
  <2>1. h \in Nat /\ k \in Nat \ {0}
    OBVIOUS
  <2>2. h \div k \in Nat
    BY ONLY <2>1
  <2>3. h % k \in 0 .. k - 1
    BY ONLY <2>1
  <2>4. h % k = h - (h \div k) * k
    BY ONLY <2>1
  <2>5. (h \div k) * k \in Nat
    BY ONLY <2>1, <2>2
  <2> QED
    BY <2>2, <2>3, <2>4, <2>5
<1>4. ASSUME g = n * k PROVE g \div k = n
  <2> DEFINE q == g \div k
             r == g % k
  <2>a. q \in Nat /\ r \in 0 .. k - 1 /\ r = g - q * k /\ q * k \in Nat
    BY <1>3
  <2> HIDE DEF q, r
  <2>1. q \in Nat /\ r \in Nat /\ r < k /\ g = q * k + r /\ q * k \in Nat
    BY <2>a
  <2>2. ~(q < n)
    <3> SUFFICES ASSUME q < n PROVE FALSE
      OBVIOUS
    <3>1. q * k + k <= n * k
      BY <1>1, <2>1
    <3> QED
      BY <1>2, <1>4, <2>1, <3>1
  <2>3. ~(n < q)
    <3> SUFFICES ASSUME n < q PROVE FALSE
      OBVIOUS
    <3>1. n * k + k <= q * k
      BY <1>1, <2>1
    <3> QED
      BY <1>2, <1>4, <2>1, <3>1
  <2> QED
    BY <2>1, <2>2, <2>3 DEF q
<1>5. ASSUME g < n * k PROVE (g + 1) % k = 0 <=> g + 1 = n * k
  <2> DEFINE q == (g + 1) \div k
             r == (g + 1) % k
  <2>a. q \in Nat /\ r \in 0 .. k - 1 /\ r = g + 1 - q * k /\ q * k \in Nat
    <3> DEFINE h == g + 1
    <3>1. h \in Nat
      OBVIOUS
    <3> HIDE DEF h
    <3>2. /\ h \div k \in Nat /\ h % k \in 0 .. k - 1
          /\ (h \div k) * k \in Nat /\ h % k = h - (h \div k) * k
      BY ONLY <1>3, <3>1
    <3> QED
      BY <3>2 DEF h
  <2> HIDE DEF q, r
  <2>1. q \in Nat /\ r \in Nat /\ r < k /\ g + 1 = q * k + r /\ q * k \in Nat
    BY <2>a
  <2>2. ASSUME r = 0 PROVE g + 1 = n * k
    <3>1. q * k = g + 1
      BY <2>1, <2>2
    <3>2. ~(q < n)
      <4> SUFFICES ASSUME q < n PROVE FALSE
        OBVIOUS
      <4>1. q <= n - 1
        BY <2>1
      <4>2. q * k <= (n - 1) * k
        <5>1. CASE q = n - 1
          BY <1>2, <5>1
        <5>2. CASE q < n - 1
          BY <1>1, <1>2, <2>1, <5>2
        <5> QED
          BY <1>2, <2>1, <4>1, <5>1, <5>2
      <4> QED
        BY <1>2, <3>1, <4>2
    <3>3. ~(n < q)
      <4> SUFFICES ASSUME n < q PROVE FALSE
        OBVIOUS
      <4>1. n * k + k <= q * k
        BY <1>1, <2>1
      <4> QED
        BY <1>2, <1>5, <3>1, <4>1
    <3> QED
      BY <2>1, <3>1, <3>2, <3>3
  <2>3. ASSUME g + 1 = n * k PROVE r = 0
    <3>1. ~(q < n)
      <4> SUFFICES ASSUME q < n PROVE FALSE
        OBVIOUS
      <4>1. q * k + k <= n * k
        BY <1>1, <2>1
      <4> QED
        BY <1>2, <2>1, <2>3, <4>1
    <3>2. ~(n < q)
      <4> SUFFICES ASSUME n < q PROVE FALSE
        OBVIOUS
      <4>1. n * k + k <= q * k
        BY <1>1, <2>1
      <4> QED
        BY <1>2, <2>1, <2>3, <4>1
    <3>3. q = n
      BY <2>1, <3>1, <3>2
    <3> QED
      BY <1>2, <2>1, <2>3, <3>3
  <2> QED
    BY <2>2, <2>3 DEF r
<1> QED
  BY <1>4, <1>5

-----------------------------------------------------------------------------
(* Every step keeps the invariant.                                           *)

\* Nothing has been asked or written.
LEMMA SessionInit == Helper!ConstantsOK /\ Helper!Init => SessionInv
<1> SUFFICES ASSUME Helper!ConstantsOK, Helper!Init PROVE SessionInv
  OBVIOUS
<1>1. Helper!Newlines(<<>>) = 0
  <2>1. <<>> \in Seq(Helper!Chunk)
    OBVIOUS
  <2> QED
    BY <2>1, NewlinesCount
<1>2. Helper!TypeOK
  <2>1. <<>> \in Seq(Helper!Chunk)
            /\ session_replies \in Seq([call : 1 .. MaxExchanges, chunks : Seq(Helper!Chunk)])
    <3> DEFINE E == [call : 1 .. MaxExchanges, chunks : Seq(Helper!Chunk)]
    <3> HIDE DEF E
    <3>1. <<>> \in Seq(E) /\ <<>> \in Seq(Helper!Chunk)
      OBVIOUS
    <3> QED
      BY <3>1 DEF Helper!Init, E
  <2>2. /\ session_lines \in 0 .. MaxLines /\ session_timer \in 0 .. Timeout
        /\ session_written \in 0 .. ReqLen
        /\ session_calls \in 0 .. MaxExchanges /\ session_inpipe \in 0 .. StdinRoom /\ session_got \in Nat
        /\ session_owed \in 0 .. MaxLines /\ session_spoken \in 0 .. MaxChunks /\ session_signals \in 0 .. 2
    BY DEF Helper!Init, Helper!ConstantsOK
  <2>3. session_received = Helper!Newlines(session_response) /\ session_response \in Seq(Helper!Chunk)
            /\ session_outpipe \in Seq(Helper!Chunk)
    BY <1>1, <2>1 DEF Helper!Init
  <2> QED
    BY <2>1, <2>2, <2>3 DEF Helper!Init, Helper!TypeOK
<1>3. CallsInv /\ FreshInv /\ StepInv
  BY DEF Helper!Init, CallsInv, FreshInv, StepInv
<1>4. Helper!ClosedIsReaped /\ Helper!NoRetry /\ Helper!QueuedNeverReply /\ Helper!ReplyAnswersRequest
  BY DEF Helper!Init, Helper!ClosedIsReaped, Helper!NoRetry, Helper!QueuedNeverReply,
     Helper!ReplyAnswersRequest
<1> QED
  BY <1>2, <1>3, <1>4 DEF SessionInv

\* A failed exchange closes the session: nothing is asked or answered any more.
LEMMA FailKeeps ==
  ASSUME Helper!ConstantsOK, SessionInv, Helper!FailExchange
  PROVE  SessionInv'
<1> USE DEF SessionInv
<1>1. /\ session_pc' = "idle" /\ session_session' = "closed" /\ session_stdin' = FALSE
      /\ session_stdout' = FALSE
      /\ session_helper' = "reaped" /\ session_inpipe' = 0 /\ session_outpipe' = <<>>
      /\ UNCHANGED <<session_signals, session_permits, session_behaved, session_lines,
                     session_finalizing, session_timer, session_written, session_response,
                     session_received, session_replies, session_calls, session_got, session_owed,
                     session_spoken>>
  BY DEF Helper!FailExchange, Helper!Closes, Helper!callVars
<1>2. Helper!TypeOK'
  <2>1. session_inpipe' \in 0 .. StdinRoom /\ session_outpipe' \in Seq(Helper!Chunk)
    <3>1. StdinRoom \in Nat /\ <<>> \in Seq(Helper!Chunk)
      BY DEF Helper!ConstantsOK
    <3> QED
      BY <1>1, <3>1
  <2>2. session_received' = Helper!Newlines(session_response')
    BY <1>1 DEF Helper!TypeOK
  <2> QED
    BY <1>1, <2>1, <2>2 DEF Helper!TypeOK
<1>3. CallsInv' /\ FreshInv' /\ StepInv'
  BY <1>1 DEF CallsInv, FreshInv, StepInv
<1>4. Helper!ClosedIsReaped' /\ Helper!NoRetry' /\ Helper!QueuedNeverReply' /\ Helper!ReplyAnswersRequest'
  BY <1>1 DEF Helper!ClosedIsReaped, Helper!NoRetry, Helper!QueuedNeverReply, Helper!ReplyAnswersRequest
<1> QED
  BY <1>2, <1>3, <1>4

\* A step that moves on within an exchange, or within a call, and touches neither
\* pipe nor reply.
LEMMA QuietKeeps ==
  ASSUME Helper!ConstantsOK, SessionInv, Helper!TypeOK', Helper!ClosedIsReaped',
         (session_pc = "idle") <=> (session_pc' = "idle"),
         session_pc' \in {"write", "receive"} /\ session_stdout' =>
           session_pc \in {"write", "receive"} \/ session_written > 0 \/ session_outpipe = <<>>,
         session_stdout' => session_stdout,
         UNCHANGED <<session_behaved, session_session, session_lines, session_written, session_response,
                     session_replies, session_calls, session_inpipe, session_got, session_outpipe,
                     session_owed>>
  PROVE  SessionInv'
<1> USE DEF SessionInv
<1>1. CallsInv'
  BY DEF CallsInv
<1>2. FreshInv'
  <2>1. Elements(<<>>) = {}
    BY DEF Elements
  <2>2. session_pc \in {"write", "receive"} => session_pc # "idle"
    OBVIOUS
  <2> QED
    BY <2>1, <2>2 DEF FreshInv, Elements
<1>3. StepInv'
  BY DEF StepInv, InExchange, Helper!Newlines, Elements
<1>4. Helper!NoRetry' /\ Helper!QueuedNeverReply' /\ Helper!ReplyAnswersRequest'
  BY DEF Helper!NoRetry, Helper!QueuedNeverReply, Helper!ReplyAnswersRequest
<1> QED
  BY <1>1, <1>2, <1>3, <1>4

\* The user, the clock, the helper's end and the checks between two drains.
LEMMA UserKeeps ==
  ASSUME Helper!ConstantsOK, SessionInv,
         Helper!UserSignal \/ Helper!Tick \/ Helper!HelperExits \/ UNCHANGED Helper!vars
  PROVE  SessionInv'
<1> USE DEF SessionInv
<1>1. CASE Helper!UserSignal
  <2>1. Helper!TypeOK' /\ Helper!ClosedIsReaped'
    BY <1>1 DEF Helper!UserSignal, Helper!ownVars, Helper!callVars, Helper!helperVars, Helper!TypeOK,
       Helper!ClosedIsReaped, Helper!Newlines
  <2> QED
    BY <1>1, <2>1, QuietKeeps DEF Helper!UserSignal, Helper!ownVars, Helper!callVars, Helper!helperVars
<1>2. CASE Helper!Tick
  <2>1. Helper!TypeOK' /\ Helper!ClosedIsReaped'
    BY <1>2 DEF Helper!Tick, Helper!ownVars, Helper!helperVars, Helper!TypeOK, Helper!ClosedIsReaped,
       Helper!Newlines, Helper!ConstantsOK
  <2> QED
    BY <1>2, <2>1, QuietKeeps DEF Helper!Tick, Helper!ownVars, Helper!helperVars
<1>3. CASE Helper!HelperExits
  <2>1. Helper!TypeOK' /\ Helper!ClosedIsReaped'
    BY <1>3 DEF Helper!HelperExits, Helper!ownerVars, Helper!ownVars, Helper!callVars, Helper!TypeOK,
       Helper!ClosedIsReaped, Helper!Newlines
  <2> QED
    BY <1>3, <2>1, QuietKeeps DEF Helper!HelperExits, Helper!ownerVars, Helper!ownVars, Helper!callVars
<1>4. CASE UNCHANGED Helper!vars
  <2>1. Helper!TypeOK' /\ Helper!ClosedIsReaped'
    BY <1>4 DEF Helper!vars, Helper!ownVars, Helper!callVars, Helper!helperVars, Helper!TypeOK,
       Helper!ClosedIsReaped, Helper!Newlines
  <2> QED
    BY <1>4, <2>1, QuietKeeps DEF Helper!vars, Helper!ownVars, Helper!callVars, Helper!helperVars
<1> QED
  BY <1>1, <1>2, <1>3, <1>4

\* The helper starts with empty pipes, before the first call.
LEMMA StartKeeps ==
  ASSUME Helper!ConstantsOK, SessionInv, Helper!Start
  PROVE  SessionInv'
<1> USE DEF SessionInv
<1>1. /\ session_session = "none" /\ session_session' \in {"open", "refused"}
      /\ session_stdin' \in BOOLEAN /\ session_stdout' \in BOOLEAN
      /\ session_session' = "open" => session_helper' = "alive"
      /\ session_session' = "refused" => session_helper' = session_helper
      /\ UNCHANGED <<session_signals, session_permits, session_behaved, session_pc, session_lines,
                     session_finalizing, session_timer, session_written, session_response,
                     session_received, session_replies, session_calls, session_inpipe, session_got,
                     session_outpipe, session_owed, session_spoken>>
  BY DEF Helper!Start, Helper!callVars, Helper!TypeOK
<1>2. Helper!TypeOK'
  BY <1>1 DEF Helper!TypeOK, Helper!Newlines
<1>3. session_pc = "idle" /\ session_calls = 0 /\ session_replies = <<>> /\ session_inpipe = 0
          /\ session_got = 0 /\ session_owed = 0
      /\ session_outpipe = <<>>
  BY <1>1 DEF CallsInv
<1>4. CallsInv' /\ FreshInv'
  BY <1>1, <1>3 DEF CallsInv, FreshInv
<1>5. StepInv'
  <2>1. 0 = 0 * ReqLen
    BY DEF Helper!ConstantsOK
  <2> QED
    BY <1>1, <1>3, <2>1 DEF StepInv
<1>6. Helper!ClosedIsReaped' /\ Helper!NoRetry' /\ Helper!QueuedNeverReply' /\ Helper!ReplyAnswersRequest'
  BY <1>1, <1>3 DEF Helper!ClosedIsReaped, Helper!NoRetry, Helper!QueuedNeverReply,
     Helper!ReplyAnswersRequest
<1> QED
  BY <1>2, <1>4, <1>5, <1>6

\* A call that is refused closes the session; another starts where the last reply
\* ended.
LEMMA BeginKeeps ==
  ASSUME Helper!ConstantsOK, SessionInv, NEW n \in 0 .. MaxLines, Helper!Begin(n)
  PROVE  SessionInv'
<1> USE DEF SessionInv
<1>1. /\ session_pc = "idle" /\ session_calls' = session_calls + 1 /\ session_calls' \in 1 .. MaxExchanges
      /\ session_calls \in Nat
      /\ session_session \in {"open", "closed"}
      /\ UNCHANGED <<session_signals, session_permits, session_behaved, session_replies, session_got,
                     session_owed, session_spoken>>
  <2>1. /\ session_pc = "idle" /\ session_calls' = session_calls + 1 /\ session_calls < MaxExchanges
        /\ session_session \in {"open", "closed"}
        /\ UNCHANGED <<session_signals, session_permits, session_behaved, session_replies, session_got,
                       session_owed, session_spoken>>
    BY DEF Helper!Begin
  <2>2. session_calls \in 0 .. MaxExchanges /\ MaxExchanges \in Nat
    BY DEF Helper!TypeOK, Helper!ConstantsOK
  <2>3. session_calls \in Nat /\ session_calls + 1 \in 1 .. MaxExchanges
    BY <2>1, <2>2
  <2> QED
    BY <2>1, <2>3
<1>2. Helper!NoRetry' /\ Helper!QueuedNeverReply' /\ Helper!ReplyAnswersRequest'
  BY <1>1 DEF Helper!NoRetry, Helper!QueuedNeverReply, Helper!ReplyAnswersRequest
<1>3. CASE session_session = "closed" \/ n = 0
  <2>1. /\ session_pc' = "idle" /\ session_session' = "closed" /\ session_stdin' = FALSE
        /\ session_stdout' = FALSE
        /\ session_helper' = "reaped" /\ session_inpipe' = 0 /\ session_outpipe' = <<>>
        /\ UNCHANGED <<session_lines, session_finalizing, session_timer, session_written,
                       session_response, session_received>>
    BY <1>3 DEF Helper!Begin, Helper!Closes, Helper!callVars
  <2>2. Helper!TypeOK'
    <3>1. session_inpipe' \in 0 .. StdinRoom /\ session_outpipe' \in Seq(Helper!Chunk)
              /\ session_calls' \in 0 .. MaxExchanges
      <4>1. StdinRoom \in Nat /\ <<>> \in Seq(Helper!Chunk) /\ MaxExchanges \in Nat
        BY DEF Helper!ConstantsOK
      <4> QED
        BY <1>1, <2>1, <4>1
    <3>2. session_received' = Helper!Newlines(session_response')
      BY <2>1 DEF Helper!TypeOK
    <3> QED
      BY <1>1, <2>1, <3>1, <3>2 DEF Helper!TypeOK
  <2>3. CallsInv' /\ FreshInv' /\ StepInv' /\ Helper!ClosedIsReaped'
    BY <1>1, <2>1 DEF CallsInv, FreshInv, StepInv, Helper!ClosedIsReaped
  <2> QED
    BY <1>2, <2>2, <2>3
<1>4. CASE session_session = "open" /\ n # 0
  <2>1. /\ session_pc' = "check" /\ session_lines' = n /\ session_timer' = Timeout
        /\ session_finalizing' = (session_permits /\ Helper!Cancelled)
        /\ session_written' = 0 /\ session_response' = <<>> /\ session_received' = 0
        /\ UNCHANGED <<session_session, session_stdin, session_stdout, session_helper, session_inpipe,
                       session_outpipe>>
    BY <1>4 DEF Helper!Begin, Helper!ownVars
  <2>2. <<>> \in Seq(Helper!Chunk) /\ Helper!Newlines(<<>>) = 0 /\ Elements(<<>>) = {}
    <3>1. <<>> \in Seq(Helper!Chunk)
      OBVIOUS
    <3>2. Helper!Newlines(<<>>) = 0
      BY <3>1, NewlinesCount
    <3>3. Elements(<<>>) = {}
      BY DEF Elements
    <3> QED
      BY <3>1, <3>2, <3>3
  <2>3. Helper!Newlines(session_response') = 0
    BY <2>1, <2>2
  <2>4. Helper!TypeOK'
    <3>1. session_received' = Helper!Newlines(session_response')
      BY <2>1, <2>3
    <3> QED
      BY <1>1, <2>1, <2>2, <3>1 DEF Helper!TypeOK, Helper!ConstantsOK, Helper!Cancelled
  <2>5. CallsInv'
    BY <1>1, <1>4, <2>1 DEF CallsInv
  <2>6. FreshInv'
    BY <2>1, <2>2 DEF FreshInv
  <2>7. StepInv'
    <3> SUFFICES ASSUME session_behaved PROVE InExchange'
      BY <1>1, <2>1 DEF StepInv
    <3>1. session_inpipe = 0 /\ session_got = session_calls * ReqLen /\ session_owed = 0
              /\ session_outpipe = <<>>
      BY <1>1, <1>4 DEF StepInv
    <3>2. /\ session_calls' - 1 = session_calls
          /\ session_calls * ReqLen \in Nat /\ session_calls' * ReqLen = session_calls * ReqLen + ReqLen
          /\ ReqLen \in Nat \ {0}
      <4>1. ReqLen \in Nat \ {0} /\ session_calls \in Nat /\ session_calls' = session_calls + 1
        BY <1>1 DEF Helper!ConstantsOK
      <4>2. session_calls * ReqLen \in Nat /\ (session_calls + 1) * ReqLen = session_calls * ReqLen + ReqLen
        BY ONLY <4>1
      <4> QED
        BY <4>1, <4>2
    <3>3. session_got < session_calls' * ReqLen
      BY <3>1, <3>2
    <3>4. \A c \in Elements(session_response') \cup Elements(session_outpipe') : c.req = session_calls'
      BY <2>1, <2>2, <3>1
    <3> QED
      BY <1>1, <2>1, <3>1, <3>2, <3>3, <3>4 DEF InExchange
  <2>8. Helper!ClosedIsReaped'
    BY <1>4, <2>1 DEF Helper!ClosedIsReaped
  <2> QED
    BY <1>2, <2>4, <2>5, <2>6, <2>7, <2>8
<1> QED
  BY <1>1, <1>3, <1>4

\* Cancellation and deadline; then the look at the pipe, which is empty when the
\* first byte of the request is about to leave.
LEMMA LookKeeps ==
  ASSUME Helper!ConstantsOK, SessionInv, Helper!Check \/ Helper!Before
  PROVE  SessionInv'
<1> USE DEF SessionInv
<1>1. CASE Helper!FailExchange
  BY <1>1, FailKeeps
<1>2. CASE Helper!Check /\ ~Helper!FailExchange
  <2>1. /\ session_pc = "check" /\ session_pc' = "before"
        /\ UNCHANGED <<session_signals, session_permits, session_behaved, Helper!ownVars,
                       Helper!callVars, session_replies, session_calls, Helper!helperVars>>
    BY <1>2 DEF Helper!Check
  <2>2. Helper!TypeOK' /\ Helper!ClosedIsReaped'
    BY <2>1 DEF Helper!ownVars, Helper!callVars, Helper!helperVars, Helper!TypeOK,
       Helper!ClosedIsReaped, Helper!Newlines
  <2> QED
    BY <2>1, <2>2, QuietKeeps DEF Helper!ownVars, Helper!callVars, Helper!helperVars
<1>3. CASE Helper!Before /\ ~Helper!FailExchange
  <2>1. /\ session_pc = "before" /\ session_pc' = "write" /\ ~Helper!Unsolicited
        /\ session_stdout' = (session_stdout /\ ~(session_written = 0 /\ Helper!AtEof))
        /\ UNCHANGED <<session_signals, session_permits, session_behaved, session_session,
                       session_stdin, Helper!callVars, session_replies, session_calls,
                       Helper!helperVars>>
    BY <1>3 DEF Helper!Before
  <2>2. Helper!TypeOK' /\ Helper!ClosedIsReaped'
    BY <2>1 DEF Helper!callVars, Helper!helperVars, Helper!TypeOK, Helper!ClosedIsReaped,
       Helper!Newlines
  <2>3. session_stdout' => session_stdout
    BY <2>1
  <2>4. session_stdout' => session_written > 0 \/ session_outpipe = <<>>
    <3>1. session_written \in Nat
      BY DEF Helper!TypeOK
    <3>2. session_stdout /\ Helper!Taken = <<>> => session_outpipe = <<>>
      BY DrainTakes DEF Helper!TypeOK
    <3> QED
      BY <2>1, <2>3, <3>1, <3>2 DEF Helper!Unsolicited
  <2> QED
    BY <2>1, <2>2, <2>3, <2>4, QuietKeeps DEF Helper!callVars, Helper!helperVars
<1> QED
  BY <1>1, <1>2, <1>3

\* A part of the request that fits goes into the pipe.
LEMMA WriteKeeps ==
  ASSUME Helper!ConstantsOK, SessionInv, Helper!WriteRequest
  PROVE  SessionInv'
<1> USE DEF SessionInv
<1>1. CASE Helper!FailExchange
  BY <1>1, FailKeeps
<1>2. CASE ~Helper!FailExchange
  <2>1. /\ session_pc = "write" /\ session_pc' = "receive"
        /\ session_written' = session_written + Helper!Writes
        /\ session_inpipe' = session_inpipe + Helper!Writes
        /\ UNCHANGED <<session_signals, session_permits, session_behaved, session_session,
                       session_stdin, session_stdout, session_lines, session_finalizing, session_timer,
                       session_response, session_received, session_replies, session_calls,
                       session_helper, session_got, session_outpipe, session_owed, session_spoken>>
    BY <1>2 DEF Helper!WriteRequest, Helper!ownVars
  <2>2. /\ session_written \in Nat /\ session_inpipe \in Nat /\ Helper!Writes \in Nat /\ ReqLen \in Nat
        /\ session_written + Helper!Writes \in 0 .. ReqLen
        /\ session_inpipe + Helper!Writes \in 0 .. StdinRoom
    <3>1. /\ ReqLen \in Nat /\ StdinRoom \in Nat
          /\ session_written \in 0 .. ReqLen /\ session_inpipe \in 0 .. StdinRoom
      BY DEF Helper!TypeOK, Helper!ConstantsOK
    <3>2. CASE ReqLen - session_written < StdinRoom - session_inpipe
      <4>1. Helper!Writes = ReqLen - session_written
        BY <3>2 DEF Helper!Writes, Helper!Min2
      <4> QED
        BY ONLY <3>1, <3>2, <4>1
    <3>3. CASE ~(ReqLen - session_written < StdinRoom - session_inpipe)
      <4>1. Helper!Writes = StdinRoom - session_inpipe
        BY <3>3 DEF Helper!Writes, Helper!Min2
      <4> QED
        BY ONLY <3>1, <3>3, <4>1
    <3> QED
      BY <3>2, <3>3
  <2>3. Helper!TypeOK'
    BY <2>1, <2>2 DEF Helper!TypeOK, Helper!Newlines
  <2>4. CallsInv' /\ FreshInv'
    BY <2>1 DEF CallsInv, FreshInv, Elements
  <2>5. StepInv'
    <3> SUFFICES ASSUME session_behaved, session_session = "open" PROVE InExchange'
      BY <2>1 DEF StepInv
    <3>1. InExchange
      BY <2>1 DEF StepInv
    <3>2. (session_calls - 1) * ReqLen \in Int /\ session_got \in Nat
      BY DEF Helper!TypeOK, Helper!ConstantsOK
    <3>3. session_inpipe' + session_got = (session_calls - 1) * ReqLen + session_written'
      BY <2>1, <2>2, <3>1, <3>2 DEF InExchange
    <3> QED
      BY <2>1, <3>1, <3>3 DEF InExchange, Helper!Newlines, Elements
  <2>6. Helper!ClosedIsReaped' /\ Helper!NoRetry' /\ Helper!QueuedNeverReply' /\ Helper!ReplyAnswersRequest'
    BY <2>1 DEF Helper!ClosedIsReaped, Helper!NoRetry, Helper!QueuedNeverReply,
       Helper!ReplyAnswersRequest
  <2> QED
    BY <2>3, <2>4, <2>5, <2>6
<1> QED
  BY <1>1, <1>2

\* The calls of an open session, multiplied out.
LEMMA RequestBounds ==
  ASSUME Helper!ConstantsOK, Helper!TypeOK, session_calls > 0
  PROVE  /\ session_calls \in Nat \ {0} /\ ReqLen \in Nat \ {0} /\ session_got \in Nat
         /\ (session_calls - 1) * ReqLen \in Nat
         /\ session_calls * ReqLen = (session_calls - 1) * ReqLen + ReqLen
         /\ InExchange => session_got <= session_calls * ReqLen
<1>1. session_calls \in Nat \ {0} /\ ReqLen \in Nat \ {0} /\ session_got \in Nat
  BY DEF Helper!ConstantsOK, Helper!TypeOK
<1>2. (session_calls - 1) * ReqLen \in Nat /\ session_calls * ReqLen = (session_calls - 1) * ReqLen + ReqLen
  BY ONLY <1>1
<1>3. session_inpipe \in Nat /\ session_written \in Nat /\ session_written <= ReqLen
  BY DEF Helper!TypeOK, Helper!ConstantsOK
<1>4. InExchange => session_got <= session_calls * ReqLen
  BY <1>1, <1>2, <1>3 DEF InExchange
<1> QED
  BY <1>1, <1>2, <1>4

\* The helper reads a part of a request; with its last one it owes an answer.
LEMMA HelperReadsKeeps ==
  ASSUME Helper!ConstantsOK, SessionInv, Helper!HelperReads
  PROVE  SessionInv'
<1> USE DEF SessionInv
<1>1. /\ session_helper = "alive" /\ session_inpipe > 0 /\ session_inpipe' = session_inpipe - 1
      /\ session_got' = session_got + 1
      /\ session_behaved => session_owed = 0
      /\ session_owed' = IF (session_got + 1) % ReqLen = 0 THEN session_lines ELSE session_owed
      /\ UNCHANGED <<session_signals, session_permits, session_behaved, session_session, session_stdin,
                     session_stdout, session_pc, session_lines, session_finalizing, session_timer,
                     session_written, session_response, session_received, session_replies,
                     session_calls, session_helper, session_outpipe, session_spoken>>
  BY DEF Helper!HelperReads, Helper!ownerVars, Helper!ownVars, Helper!callVars
<1>2. Helper!TypeOK'
  <2>1. /\ session_inpipe' \in 0 .. StdinRoom /\ session_got' \in Nat
        /\ session_owed' \in 0 .. MaxLines
    <3>1. /\ session_inpipe \in 0 .. StdinRoom /\ session_got \in Nat /\ session_lines \in 0 .. MaxLines
          /\ session_owed \in 0 .. MaxLines /\ StdinRoom \in Nat /\ MaxLines \in Nat
      BY DEF Helper!TypeOK, Helper!ConstantsOK
    <3>2. /\ session_inpipe > 0 /\ session_inpipe' = session_inpipe - 1
          /\ session_got' = session_got + 1
          /\ session_owed' = IF (session_got + 1) % ReqLen = 0 THEN session_lines ELSE session_owed
      BY <1>1
    <3> QED
      BY ONLY <3>1, <3>2
  <2>2. Helper!Newlines(session_response)' = Helper!Newlines(session_response)
    BY <1>1 DEF Helper!Newlines
  <2> QED
    BY <1>1, <2>1, <2>2 DEF Helper!TypeOK
<1>3. session_session = "open"
  BY <1>1 DEF Helper!ClosedIsReaped
<1>4. CallsInv' /\ FreshInv'
  BY <1>1, <1>3 DEF CallsInv, FreshInv, Elements
<1>5. StepInv'
  <2> SUFFICES ASSUME session_behaved PROVE session_pc # "idle" /\ InExchange'
    BY <1>1 DEF StepInv
  <2>1. session_pc # "idle" /\ InExchange /\ session_calls > 0
    BY <1>1, <1>3 DEF StepInv, CallsInv
  <2>2. /\ session_calls \in Nat \ {0} /\ ReqLen \in Nat \ {0} /\ session_got \in Nat
        /\ (session_calls - 1) * ReqLen \in Nat
        /\ session_calls * ReqLen = (session_calls - 1) * ReqLen + ReqLen
        /\ session_got <= session_calls * ReqLen
    BY <2>1, RequestBounds
  <2>3. /\ session_inpipe \in Nat /\ session_written \in Nat /\ session_written <= ReqLen
        /\ session_lines \in Nat
    BY DEF Helper!TypeOK, Helper!ConstantsOK
  <2>4. /\ session_inpipe + session_got = (session_calls - 1) * ReqLen + session_written
        /\ (session_calls - 1) * ReqLen <= session_got
    BY <2>1 DEF InExchange
  <2>5. session_got < session_calls * ReqLen
    BY <1>1, <2>2, <2>3, <2>4
  <2>6. session_owed = 0 /\ session_outpipe = <<>> /\ session_response = <<>>
    BY <2>1, <2>5 DEF InExchange
  <2>7. (session_got + 1) % ReqLen = 0 <=> session_got + 1 = session_calls * ReqLen
    BY <2>2, <2>4, <2>5, RequestsRead
  <2>8. /\ session_inpipe' + session_got' = (session_calls - 1) * ReqLen + session_written
        /\ (session_calls - 1) * ReqLen <= session_got'
    BY <1>1, <2>2, <2>3, <2>4
  <2>9. session_got' < session_calls * ReqLen => session_owed' = 0
    BY <1>1, <2>2, <2>6, <2>7
  <2>10. session_got' = session_calls * ReqLen
             => Helper!Newlines(session_response) + Helper!Newlines(session_outpipe) + session_owed' = session_lines
    <3>1. Helper!Newlines(<<>>) = 0
      <4>1. <<>> \in Seq(Helper!Chunk)
        OBVIOUS
      <4> QED
        BY <4>1, NewlinesCount
    <3> QED
      BY <1>1, <2>3, <2>6, <2>7, <3>1
  <2>11. \A c \in Elements(session_response) \cup Elements(session_outpipe) : c.req = session_calls
    BY <2>1 DEF InExchange
  <2> QED
    BY <1>1, <2>1, <2>6, <2>8, <2>9, <2>10, <2>11 DEF InExchange, Helper!Newlines, Elements
<1>6. Helper!ClosedIsReaped' /\ Helper!NoRetry' /\ Helper!QueuedNeverReply' /\ Helper!ReplyAnswersRequest'
  BY <1>1 DEF Helper!ClosedIsReaped, Helper!NoRetry, Helper!QueuedNeverReply, Helper!ReplyAnswersRequest
<1> QED
  BY <1>2, <1>4, <1>5, <1>6

\* The helper writes a chunk, which remembers the call and the request it answers.
LEMMA HelperWritesKeeps ==
  ASSUME Helper!ConstantsOK, SessionInv, NEW nl \in BOOLEAN, Helper!HelperWrites(nl)
  PROVE  SessionInv'
<1> USE DEF SessionInv
<1> DEFINE c == [born |-> session_calls, req |-> Helper!Answering, nl |-> nl]
<1>1. /\ session_helper = "alive" /\ session_spoken < MaxChunks
      /\ session_outpipe' = Append(session_outpipe, c)
      /\ session_behaved => session_owed > 0
      /\ session_spoken' = session_spoken + 1
      /\ session_owed' = IF nl /\ session_owed > 0 THEN session_owed - 1 ELSE session_owed
      /\ UNCHANGED <<session_signals, session_permits, session_behaved, session_session, session_stdin,
                     session_stdout, session_pc, session_lines, session_finalizing, session_timer,
                     session_written, session_response, session_received, session_replies,
                     session_calls, session_helper, session_inpipe, session_got>>
  BY DEF Helper!HelperWrites, Helper!ownerVars, Helper!ownVars, Helper!callVars
<1>2. c \in Helper!Chunk /\ c.born = session_calls /\ c.req = session_got \div ReqLen /\ c.nl = nl
  <2>1. session_got \in Nat /\ ReqLen \in Nat \ {0} /\ session_calls \in Nat
    BY DEF Helper!TypeOK, Helper!ConstantsOK
  <2>2. session_got \div ReqLen \in Nat
    BY ONLY <2>1
  <2> QED
    BY <2>1, <2>2 DEF Helper!Answering, Helper!Chunk
<1> HIDE DEF c
<1>3. /\ session_outpipe' \in Seq(Helper!Chunk) /\ session_outpipe' # <<>>
      /\ Helper!Newlines(session_outpipe') = Helper!Newlines(session_outpipe) + (IF nl THEN 1 ELSE 0)
      /\ Elements(session_outpipe') = Elements(session_outpipe) \cup {c}
      /\ session_outpipe'[Len(session_outpipe')] = c
  BY <1>1, <1>2, NewlinesAppend DEF Helper!TypeOK
<1>4. Helper!TypeOK'
  <2>1. session_owed' \in 0 .. MaxLines /\ session_spoken' \in 0 .. MaxChunks
    <3>1. /\ session_owed \in 0 .. MaxLines /\ session_spoken \in 0 .. MaxChunks
          /\ MaxLines \in Nat /\ MaxChunks \in Nat
      BY DEF Helper!TypeOK, Helper!ConstantsOK
    <3>2. /\ session_spoken < MaxChunks /\ session_spoken' = session_spoken + 1
          /\ session_owed' = IF nl /\ session_owed > 0 THEN session_owed - 1 ELSE session_owed
      BY <1>1
    <3> QED
      BY ONLY <3>1, <3>2
  <2>2. Helper!Newlines(session_response)' = Helper!Newlines(session_response)
    BY <1>1 DEF Helper!Newlines
  <2> QED
    BY <1>1, <1>3, <2>1, <2>2 DEF Helper!TypeOK
<1>5. session_session = "open"
  BY <1>1 DEF Helper!ClosedIsReaped
<1>6. CallsInv'
  BY <1>1, <1>5 DEF CallsInv
<1>7. FreshInv'
  <2>1. Elements(session_response') = Elements(session_response)
    BY <1>1
  <2> QED
    BY <1>1, <1>2, <1>3, <2>1 DEF FreshInv
<1>8. StepInv'
  <2> SUFFICES ASSUME session_behaved PROVE session_pc # "idle" /\ InExchange'
    BY <1>1 DEF StepInv
  <2>1. session_pc # "idle" /\ InExchange /\ session_calls > 0
    BY <1>1, <1>5 DEF StepInv, CallsInv
  <2>2. /\ session_calls \in Nat \ {0} /\ ReqLen \in Nat \ {0} /\ session_got \in Nat
        /\ session_got <= session_calls * ReqLen /\ (session_calls - 1) * ReqLen <= session_got
        /\ session_calls * ReqLen \in Int
    <3>1. InExchange
      BY <2>1
    <3> QED
      BY <2>1, <3>1, RequestBounds DEF InExchange
  <2>3. session_got = session_calls * ReqLen
    BY <1>1, <2>1, <2>2 DEF InExchange
  <2>4. c.req = session_calls
    BY <1>2, <2>2, <2>3, RequestsRead
  <2>5. Helper!Newlines(session_response) + Helper!Newlines(session_outpipe) + session_owed = session_lines
    BY <2>1, <2>3 DEF InExchange
  <2>6. Helper!Newlines(session_response) \in Nat /\ Helper!Newlines(session_outpipe) \in Nat
            /\ session_owed \in Nat
    BY NewlinesCount DEF Helper!TypeOK
  <2>7. Helper!Newlines(session_response) + Helper!Newlines(session_outpipe') + session_owed' = session_lines
    BY <1>1, <1>3, <2>5, <2>6
  <2>8. session_owed' = 0 => session_outpipe'[Len(session_outpipe')].nl
    BY <1>1, <1>2, <1>3, <2>6
  <2>9. \A d \in Elements(session_response) \cup Elements(session_outpipe') : d.req = session_calls
    BY <1>3, <2>1, <2>4 DEF InExchange
  <2>10. session_response' = session_response /\ session_got' = session_calls' * ReqLen
             /\ ~(session_got' < session_calls' * ReqLen)
    BY <1>1, <2>2, <2>3
  <2> QED
    BY <1>1, <2>1, <2>7, <2>8, <2>9, <2>10 DEF InExchange
<1>9. Helper!ClosedIsReaped' /\ Helper!NoRetry' /\ Helper!QueuedNeverReply' /\ Helper!ReplyAnswersRequest'
  BY <1>1 DEF Helper!ClosedIsReaped, Helper!NoRetry, Helper!QueuedNeverReply, Helper!ReplyAnswersRequest
<1> QED
  BY <1>4, <1>6, <1>7, <1>8, <1>9

\* A drain and what follows: another turn, or the reply.
LEMMA ReceiveKeeps ==
  ASSUME Helper!ConstantsOK, SessionInv, Helper!Receive
  PROVE  SessionInv'
<1> USE DEF SessionInv
<1> DEFINE r == session_response \o Helper!Taken
           n == session_received + Helper!Newlines(Helper!Taken)
<1>1. CASE Helper!FailExchange
  BY <1>1, FailKeeps
<1>2. /\ Helper!Taken \in Seq(Helper!Chunk) /\ Helper!Left \in Seq(Helper!Chunk)
      /\ session_outpipe = Helper!Taken \o Helper!Left
      /\ ~session_stdout => Helper!Taken = <<>> /\ Helper!Left = session_outpipe
      /\ session_response \in Seq(Helper!Chunk) /\ session_received = Helper!Newlines(session_response)
  BY DrainTakes DEF Helper!TypeOK
<1>3. /\ r \in Seq(Helper!Chunk) /\ n = Helper!Newlines(r)
      /\ Elements(r) = Elements(session_response) \cup Elements(Helper!Taken)
      /\ Elements(session_outpipe) = Elements(Helper!Taken) \cup Elements(Helper!Left)
      /\ Helper!Newlines(r) = Helper!Newlines(session_response) + Helper!Newlines(Helper!Taken)
      /\ Helper!Newlines(session_outpipe) = Helper!Newlines(Helper!Taken) + Helper!Newlines(Helper!Left)
      /\ Helper!Left # <<>>
           => session_outpipe # <<>> /\ session_outpipe[Len(session_outpipe)] = Helper!Left[Len(Helper!Left)]
      /\ Helper!Newlines(session_response) \in Nat /\ Helper!Newlines(Helper!Taken) \in Nat
      /\ Helper!Newlines(Helper!Left) \in Nat
      /\ Helper!Newlines(r) \in Nat
  BY <1>2, NewlinesAdd, NewlinesCount
<1>4. session_pc = "receive" /\ session_session = "open" /\ session_calls > 0 /\ session_lines > 0
  BY DEF Helper!Receive, CallsInv
<1>5. \A c \in Elements(r) : c.born = session_calls
  <2>1. \A c \in Elements(session_response) : c.born = session_calls
    BY <1>4 DEF FreshInv
  <2>2. \A c \in Elements(Helper!Taken) : c.born = session_calls
    <3>1. CASE session_stdout
      BY <1>3, <1>4, <3>1 DEF FreshInv
    <3>2. CASE ~session_stdout
      BY <1>2, <3>2 DEF Elements
    <3> QED
      BY <3>1, <3>2
  <2> QED
    BY <1>3, <2>1, <2>2
<1>6. ASSUME session_behaved
      PROVE  /\ \A c \in Elements(r) \cup Elements(Helper!Left) : c.req = session_calls
             /\ session_got < session_calls * ReqLen => r = <<>> /\ Helper!Left = <<>> /\ session_owed = 0
             /\ session_got = session_calls * ReqLen
                  => Helper!Newlines(r) + Helper!Newlines(Helper!Left) + session_owed = session_lines
             /\ session_owed = 0 /\ Helper!Left # <<>> => Helper!Left[Len(Helper!Left)].nl
             /\ session_inpipe + session_got = (session_calls - 1) * ReqLen + session_written
             /\ (session_calls - 1) * ReqLen <= session_got
             /\ session_owed \in Nat
  <2>1. InExchange
    BY <1>4, <1>6 DEF StepInv
  <2>2. \A c \in Elements(r) \cup Elements(Helper!Left) : c.req = session_calls
    BY <1>3, <2>1 DEF InExchange
  <2>3. ASSUME session_got < session_calls * ReqLen PROVE r = <<>> /\ Helper!Left = <<>> /\ session_owed = 0
    <3>1. session_outpipe = <<>> /\ session_response = <<>> /\ session_owed = 0
      BY <2>1, <2>3 DEF InExchange
    <3>2. Helper!Left = <<>>
      BY <1>3, <3>1
    <3>3. Helper!Taken = <<>>
      BY <1>2, <3>1, <3>2, ConcatEmptySeq
    <3>4. r = <<>>
      BY <1>2, <3>1, <3>3, ConcatEmptySeq
    <3> QED
      BY <3>1, <3>2, <3>4
  <2>4. session_owed \in Nat
    BY DEF Helper!TypeOK
  <2>5. session_got = session_calls * ReqLen
            => Helper!Newlines(r) + Helper!Newlines(Helper!Left) + session_owed = session_lines
    BY <1>3, <2>1, <2>4 DEF InExchange
  <2>6. session_owed = 0 /\ Helper!Left # <<>> => Helper!Left[Len(Helper!Left)].nl
    BY <1>3, <2>1 DEF InExchange
  <2> QED
    BY <2>1, <2>2, <2>3, <2>4, <2>5, <2>6 DEF InExchange
<1> HIDE DEF r, n
<1>7. CASE ~Helper!FailExchange /\ Helper!Enough(n)
  <2>1. /\ Helper!WellFramed(r, n) /\ session_pc' = "idle"
        /\ session_replies' = Append(session_replies, [call |-> session_calls, chunks |-> r])
        /\ session_outpipe' = Helper!Left /\ session_stdout' = (session_stdout /\ ~Helper!AtEof)
        /\ UNCHANGED <<session_signals, session_permits, session_behaved, session_session,
                       session_stdin, session_lines, session_finalizing, session_timer, session_written,
                       session_response, session_received, session_calls, session_helper,
                       session_inpipe, session_got, session_owed, session_spoken>>
    BY <1>7 DEF Helper!Receive, r, n, Helper!callVars
  <2>2. n = session_lines /\ session_written = ReqLen
    BY <2>1 DEF Helper!WellFramed
  <2> DEFINE e == [call |-> session_calls, chunks |-> r]
  <2>3. /\ e \in [call : 1 .. MaxExchanges, chunks : Seq(Helper!Chunk)]
        /\ e.call = session_calls /\ e.chunks = r /\ session_calls \in Nat
    BY <1>3, <1>4 DEF Helper!TypeOK, Helper!ConstantsOK
  <2> HIDE DEF e
  <2>4. /\ session_replies' \in Seq([call : 1 .. MaxExchanges, chunks : Seq(Helper!Chunk)])
        /\ Len(session_replies') = Len(session_replies) + 1 /\ Len(session_replies) = session_calls - 1
        /\ DOMAIN session_replies' = 1 .. session_calls
        /\ \A i \in 1 .. session_calls - 1 :
             i \in DOMAIN session_replies /\ session_replies'[i] = session_replies[i]
        /\ session_replies'[session_calls] = e
    <3> DEFINE E == [call : 1 .. MaxExchanges, chunks : Seq(Helper!Chunk)]
    <3>1. session_replies \in Seq(E) /\ e \in E /\ session_replies' = Append(session_replies, e)
      BY <2>1, <2>3 DEF Helper!TypeOK, e
    <3> HIDE DEF E
    <3>2. /\ session_replies' \in Seq(E) /\ Len(session_replies') = Len(session_replies) + 1
          /\ \A i \in 1 .. Len(session_replies) : session_replies'[i] = session_replies[i]
          /\ session_replies'[Len(session_replies) + 1] = e
      BY <3>1, AppendProperties
    <3>3. Len(session_replies) = session_calls - 1
      BY <1>4 DEF CallsInv
    <3>4. DOMAIN session_replies' = 1 .. Len(session_replies')
              /\ DOMAIN session_replies = 1 .. Len(session_replies)
      BY <3>1, <3>2, LenProperties
    <3>5. session_calls - 1 + 1 = session_calls
      BY <2>3
    <3> QED
      BY <3>2, <3>3, <3>4, <3>5 DEF E
  <2>5. \A i \in DOMAIN session_replies' :
            \/ i \in DOMAIN session_replies /\ session_replies'[i] = session_replies[i]
            \/ i = session_calls /\ session_replies'[i] = e
    <3> SUFFICES ASSUME NEW i \in DOMAIN session_replies'
                 PROVE  \/ i \in DOMAIN session_replies /\ session_replies'[i] = session_replies[i]
                        \/ i = session_calls /\ session_replies'[i] = e
      OBVIOUS
    <3>1. i \in 1 .. session_calls - 1 \/ i = session_calls
      <4>1. i \in 1 .. session_calls
        BY <2>4
      <4> QED
        BY <2>3, <4>1
    <3>2. CASE i \in 1 .. session_calls - 1
      BY <2>4, <3>2
    <3>3. CASE i = session_calls
      BY <2>4, <3>3
    <3> QED
      BY <3>1, <3>2, <3>3
  <2>6. Helper!TypeOK'
    <3>1. session_stdout' \in BOOLEAN
      BY <2>1 DEF Helper!TypeOK
    <3> QED
      BY <1>2, <2>1, <2>4, <3>1 DEF Helper!TypeOK, Helper!Newlines
  <2>7. CallsInv'
    <3>1. Len(session_replies') = session_calls
      BY <2>3, <2>4
    <3> QED
      BY <1>4, <2>1, <3>1 DEF CallsInv
  <2>8. FreshInv' /\ Helper!ClosedIsReaped'
    BY <1>4, <2>1 DEF FreshInv, Helper!ClosedIsReaped
  <2>9. Helper!NoRetry'
    BY <2>3, <2>5 DEF Helper!NoRetry
  <2>10. Helper!QueuedNeverReply'
    <3>1. \A j \in DOMAIN r : r[j].born = session_calls
      BY <1>5 DEF Elements
    <3> QED
      BY <2>3, <2>5, <3>1 DEF Helper!QueuedNeverReply
  <2>11. Helper!ReplyAnswersRequest'
    <3> SUFFICES ASSUME session_behaved
                 PROVE  \A i \in DOMAIN session_replies' : \A j \in DOMAIN session_replies'[i].chunks :
                          session_replies'[i].chunks[j].req = session_replies'[i].call
      BY <2>1 DEF Helper!ReplyAnswersRequest
    <3>1. \A j \in DOMAIN r : r[j].req = session_calls
      BY <1>6 DEF Elements
    <3> QED
      BY <2>3, <2>5, <3>1 DEF Helper!ReplyAnswersRequest
  <2>12. StepInv'
    <3> SUFFICES ASSUME session_behaved
                 PROVE  session_inpipe = 0 /\ session_got = session_calls * ReqLen /\ session_owed = 0
                            /\ Helper!Left = <<>>
      BY <2>1 DEF StepInv
    <3>1. InExchange
      BY <1>4 DEF StepInv
    <3>2. /\ session_calls * ReqLen = (session_calls - 1) * ReqLen + ReqLen
          /\ (session_calls - 1) * ReqLen \in Nat
          /\ session_got \in Nat /\ ReqLen \in Nat /\ session_got <= session_calls * ReqLen
      BY <1>4, <3>1, RequestBounds
    <3>3. r # <<>>
      BY <1>3, <1>4, <2>2, NewlinesCount
    <3>4. session_got = session_calls * ReqLen
      BY <1>6, <3>2, <3>3
    <3>5. Helper!Newlines(Helper!Left) = 0 /\ session_owed = 0
      BY <1>3, <1>6, <2>2, <3>4
    <3>6. Helper!Left = <<>>
      BY <1>2, <1>6, <3>5, NewlinesCount
    <3>7. session_inpipe = 0
      <4>1. session_inpipe \in Nat
        BY DEF Helper!TypeOK
      <4> QED
        BY <1>6, <2>2, <3>2, <3>4, <4>1
    <3> QED
      BY <3>4, <3>5, <3>6, <3>7
  <2> QED
    BY <2>6, <2>7, <2>8, <2>9, <2>10, <2>11, <2>12
<1>8. CASE ~Helper!FailExchange /\ ~Helper!Enough(n)
  <2>1. /\ session_pc' = "check" /\ session_response' = r /\ session_received' = n
        /\ session_outpipe' = Helper!Left
        /\ UNCHANGED <<session_signals, session_permits, session_behaved, session_session,
                       session_stdin, session_stdout, session_lines, session_finalizing, session_timer,
                       session_written, session_replies, session_calls, session_helper, session_inpipe,
                       session_got, session_owed, session_spoken>>
    BY <1>8 DEF Helper!Receive, r, n, Helper!ownVars
  <2>2. Helper!TypeOK'
    <3>1. session_received' = Helper!Newlines(session_response')
      BY <1>3, <2>1
    <3> QED
      BY <1>2, <1>3, <2>1, <3>1 DEF Helper!TypeOK
  <2>3. CallsInv'
    BY <1>4, <2>1 DEF CallsInv
  <2>4. FreshInv'
    <3>1. session_stdout => \A c \in Elements(Helper!Left) : c.born = session_calls
      BY <1>3, <1>4 DEF FreshInv
    <3> QED
      BY <1>5, <2>1, <3>1 DEF FreshInv
  <2>5. StepInv'
    <3> SUFFICES ASSUME session_behaved PROVE InExchange'
      BY <2>1 DEF StepInv
    <3> QED
      BY <1>6, <2>1 DEF InExchange
  <2>6. Helper!ClosedIsReaped' /\ Helper!NoRetry' /\ Helper!QueuedNeverReply' /\ Helper!ReplyAnswersRequest'
    BY <2>1 DEF Helper!ClosedIsReaped, Helper!NoRetry, Helper!QueuedNeverReply,
       Helper!ReplyAnswersRequest
  <2> QED
    BY <2>2, <2>3, <2>4, <2>5, <2>6
<1> QED
  BY <1>1, <1>7, <1>8

\* Every step of the session, its caller, the helper, the user and the clock.
LEMMA SessionNext == Helper!ConstantsOK /\ SessionInv /\ [Helper!Next]_(Helper!vars) => SessionInv'
<1> SUFFICES ASSUME Helper!ConstantsOK, SessionInv, [Helper!Next]_(Helper!vars) PROVE SessionInv'
  OBVIOUS
<1>1. CASE Helper!Session
  BY <1>1, StartKeeps, LookKeeps, WriteKeeps, ReceiveKeeps, FailKeeps DEF Helper!Session, Helper!IoFails
<1>2. CASE Helper!Caller
  BY <1>2, BeginKeeps, FailKeeps DEF Helper!Caller, Helper!Drop
<1>3. CASE Helper!Helper
  BY <1>3, HelperReadsKeeps, HelperWritesKeeps, UserKeeps DEF Helper!Helper
<1>4. CASE Helper!UserSignal \/ Helper!Tick \/ UNCHANGED Helper!vars
  BY <1>4, UserKeeps
<1> QED
  BY <1>1, <1>2, <1>3, <1>4 DEF Helper!Next

\* What an exchange returns was written for it, and answers it if the helper only
\* answers what it is asked: output that was queued, a late reply and a partial
\* one never pass for the answer to the next request.
THEOREM ExchangeAnswers ==
  ASSUME Helper!ConstantsOK
  PROVE  Helper!Spec => []Helper!RepliesAnswer
<1>1. Helper!Init => SessionInv
  BY SessionInit
<1>2. SessionInv /\ [Helper!Next]_(Helper!vars) => SessionInv'
  BY SessionNext
<1>3. SessionInv => Helper!RepliesAnswer
  BY DEF SessionInv, Helper!RepliesAnswer, Helper!InStep, StepInv
<1> QED
  BY <1>1, <1>2, <1>3, PTL DEF Helper!Spec

\* A failed exchange ends the session for good: its helper is reaped, and the
\* calls that succeeded come before every one that failed.
THEOREM FailureIsFinal ==
  ASSUME Helper!ConstantsOK
  PROVE  Helper!Spec => []Helper!FailureCloses
<1>1. Helper!Init => SessionInv
  BY SessionInit
<1>2. SessionInv /\ [Helper!Next]_(Helper!vars) => SessionInv'
  BY SessionNext
<1>3. SessionInv => Helper!FailureCloses
  BY DEF SessionInv, Helper!FailureCloses
<1> QED
  BY <1>1, <1>2, <1>3, PTL DEF Helper!Spec

-----------------------------------------------------------------------------
(* Exit codes.  What the code is going to be is followed from the first      *)
(* failure on: it is settled once the process leaves (Decided).              *)

Calls == {"enter", "flags", "back"} \cup Writing
Decided == pc \in {"leave", "exit?", "exit"} \/ caller = "drop"

\* A failure with a reader that stays is on its way to a code that is not 0.
Blamed ==
    \/ pc = "back" /\ ret = "io" /\ caller # "drop"
    \/ result = "err" /\ ~Decided /\ (pc \in {"flush", "inner"} \/ caller = "flush")
    \/ code # 0 /\ Decided

Earned ==
    /\ caller = "drop" => pc \in Calls \cup {"exit?", "exit"}
    /\ caller = "flush" => pc \notin {"produce", "flush"}
    /\ mode = "status" /\ ~ioerror => /\ result = "ok" \/ first # 0
                                      /\ Decided => code # 0
    /\ (pc = "leave" /\ buf > 0) \/ caller = "drop" => code # 0 \/ closed \/ first # 0
    /\ ioerror /\ ~closed /\ first = 0 => Blamed
    /\ pc = "exit" /\ first # 0 => code # 0

\* No command starts with a failure, or with its exit code settled.
LEMMA InitEarned == Init => Earned
BY DEF Init, Earned, Decided, Calls, Writing

\* Every step keeps the exit code on its way.
LEMMA NextEarned == OutputInv /\ Earned /\ Next => Earned'
<1> SUFFICES ASSUME OutputInv, Earned, Next PROVE Earned'
  OBVIOUS
<1> TypeOK /\ Blame /\ Flow
  BY DEF OutputInv
<1> USE DEF Writing, Calls, Decided, Blamed, Cancelled, fixed, channel, flags, signal
<1>1. CASE Enter
  BY <1>1 DEF Enter, Earned, TypeOK, SwitchesOK, Blame, Flow
<1>2. CASE SetFlags
  BY <1>2 DEF SetFlags, Earned, TypeOK, SwitchesOK, Blame, Flow
<1>3. CASE Look
  BY <1>3 DEF Look, Return, Earned, TypeOK, SwitchesOK, Blame, Flow
<1>4. CASE TryWrite
  BY <1>4 DEF TryWrite, Return, Taken, Earned, TypeOK, SwitchesOK, Blame, Flow
<1>5. CASE Poll
  BY <1>5 DEF Poll, Return, Earned, TypeOK, SwitchesOK, Blame, Flow
<1>6. CASE Produce
  BY <1>6 DEF Produce, Call, Earned, TypeOK, SwitchesOK, Blame, Flow
<1>7. CASE Produced
  BY <1>7 DEF Produced, Earned, TypeOK, SwitchesOK, Blame, Flow
<1>8. CASE Continue
  BY <1>8 DEF Continue, Call, Earned, TypeOK, SwitchesOK, Blame, Flow
<1>9. CASE ProduceFails
  BY <1>9 DEF ProduceFails, Earned, TypeOK, SwitchesOK, Blame, Flow, Whole
<1>10. CASE Flush
  BY <1>10 DEF Flush, Call, BrokenPipeCode, OrSignal, CommandCode, WORKLOAD, SIGINT,
     Earned, TypeOK, SwitchesOK, Blame, Flow
<1>11. CASE FlushFails
  BY <1>11 DEF FlushFails, BrokenPipeCode, OrSignal, CommandCode, WORKLOAD, SIGINT,
     Earned, TypeOK, SwitchesOK, Blame, Flow
<1>12. CASE InnerFlush
  BY <1>12 DEF InnerFlush, CommandCode, WORKLOAD, Earned, TypeOK, SwitchesOK, Blame,
     Flow
<1>13. CASE Leave
  BY <1>13 DEF Leave, Call, Earned, TypeOK, SwitchesOK, Blame, Flow
<1>14. CASE DropFails
  BY <1>14 DEF DropFails, Earned, TypeOK, SwitchesOK, Blame, Flow
<1>15. CASE Exit
  BY <1>15 DEF Exit, OrSignal, SIGINT, Earned, TypeOK, SwitchesOK, Blame, Flow
<1>16. CASE Signal
  BY <1>16 DEF Signal, SIGINT, Earned, TypeOK, SwitchesOK, Blame, Flow
<1>17. CASE ReaderDrains
  BY <1>17 DEF ReaderDrains, Earned, TypeOK, SwitchesOK, Blame, Flow
<1>18. CASE ReaderCloses
  BY <1>18 DEF ReaderCloses, Earned, TypeOK, SwitchesOK, Blame, Flow
<1> QED
  BY <1>1, <1>2, <1>3, <1>4, <1>5, <1>6, <1>7, <1>8, <1>9, <1>10, <1>11, <1>12, <1>13,
     <1>14, <1>15, <1>16, <1>17, <1>18 DEF Next, Process

\* Earned is inductive together with OutputInv.
LEMMA AlwaysEarned == Spec => []Earned
<1>1. Earned /\ UNCHANGED vars => Earned'
  BY DEF vars, Earned, Blamed, Decided
<1>2. OutputInv /\ Earned /\ [Next]_vars => Earned'
  BY NextEarned, <1>1
<1> QED
  BY InitEarned, AlwaysOutput, <1>2, PTL DEF Spec

\* Exit code 0 is earned: the output was delivered to a reader that stayed, and
\* the workload of a profile succeeded (BrokenPipeCode is `result.unwrap_or(0)' of
\* run_cli_to_writers; main lets the cancellation decide).
THEOREM ZeroIsEarned == Spec => []ZeroEarned
<1>1. OutputInv /\ Earned /\ ErrorTextDelivered => ZeroMeansDelivered
  BY DEF OutputInv, TypeOK, Earned, Blamed, ErrorTextDelivered, ZeroMeansDelivered,
     Calls, Decided, Writing
<1>2. Earned => StatusKept
  BY DEF Earned, Decided, StatusKept
<1> QED
  BY <1>1, <1>2, AlwaysOutput, AlwaysEarned, TextDelivered, PTL DEF ZeroEarned

-----------------------------------------------------------------------------
(* The suite implements the specifications of its parts.                     *)

\* A step of the suite is a step of the output or leaves it alone.
LEMMA OutputStays == [MCNext]_suiteVars => [Next]_vars
  BY DEF MCNext, OutputStep, SessionStep, suiteVars

\* A step of the suite is a step of the profile run or leaves it alone.
LEMMA ProfileStep == [MCNext]_suiteVars => [Profile!Next]_(Profile!vars)
  BY DEF MCNext, OutputStep, SessionStep, suiteVars, profileVars, Profile!vars

\* A step of the suite is a step of the helper's session or leaves it alone.
LEMMA HelperStep == [MCNext]_suiteVars => [Helper!Next]_(Helper!vars)
  BY DEF MCNext, OutputStep, SessionStep, suiteVars, sessionVars, Helper!vars,
         Helper!ownVars, Helper!callVars, Helper!helperVars

\* A step of the suite is a step of the launch or leaves it alone.
LEMMA LaunchStep == [MCNext]_suiteVars => [Launch!Next]_(Launch!vars)
  BY DEF MCNext, OutputStep, SessionStep, suiteVars, launchVars, Launch!vars,
         Launch!shellVars, Launch!childVars, Launch!traceVars, Launch!userVars

\* A step of the suite is a step of the scopes or leaves them alone.
LEMMA ScopesStep == [MCNext]_suiteVars => [Scopes!Next]_(Scopes!vars)
  BY DEF MCNext, OutputStep, SessionStep, suiteVars, scopeVars, Scopes!vars

\* The suite implements the output.
LEMMA ImplementsOutput == MCSpec => Spec
<1>1. MCInit => Init
  BY DEF MCInit
<1> QED
  BY <1>1, OutputStays, PTL DEF MCSpec, Spec

\* The suite implements the profile run.
LEMMA ImplementsProfile == MCSpec => Profile!Spec
<1>1. MCInit => Profile!Init
  BY DEF MCInit
<1> QED
  BY <1>1, ProfileStep, PTL DEF MCSpec, Profile!Spec

\* The suite implements the helper's session.
LEMMA ImplementsHelper == MCSpec => Helper!Spec
<1>1. MCInit => Helper!Init
  BY DEF MCInit
<1> QED
  BY <1>1, HelperStep, PTL DEF MCSpec, Helper!Spec

\* The suite implements the launch.
LEMMA ImplementsLaunch == MCSpec => Launch!Spec
<1>1. MCInit => Launch!Init
  BY DEF MCInit
<1> QED
  BY <1>1, LaunchStep, PTL DEF MCSpec, Launch!Spec

\* The suite implements the cancellation scopes.
LEMMA ImplementsScopes == MCSpec => Scopes!Spec
<1>1. MCInit => Scopes!Init
  BY DEF MCInit
<1> QED
  BY <1>1, ScopesStep, PTL DEF MCSpec, Scopes!Spec

-----------------------------------------------------------------------------
(* The theorems.                                                             *)

\* The output's descriptor is as it was found, its text delivered or its loss
\* reported, and exit code 0 earned, whatever part the suite runs.
THEOREM SuiteOutput == MCSpec => [](FlagsRestored /\ OutputExact /\ ZeroEarned)
<1> QED
  BY ImplementsOutput, DescriptorRestored, OutputIsExact, ZeroIsEarned, PTL

\* A run.json of this run names only complete files of this run; a failed run
\* leaves no manifest and nothing of an earlier run that passes for its result.
THEOREM SuiteArtifacts == MCSpec => []ArtifactsTruthful
<1>1. Profile!Spec => []Profile!ArtifactsTruthful
  BY ProfileConstants, Profile!ArtifactsAreTrue
<1> QED
  BY <1>1, ImplementsProfile, PTL DEF ArtifactsTruthful

\* When the workload starts the directory is clear and every tool that finalizes
\* the recording has been found.
THEOREM SuitePrepared == MCSpec => []RecordingPrepared
<1>1. Profile!Spec => []Profile!RecordingPrepared
  BY ProfileConstants, Profile!RecordingIsPrepared
<1> QED
  BY <1>1, ImplementsProfile, PTL DEF RecordingPrepared

\* One signal that stops the recorder does not cost the recording: the run is
\* finalized and its manifest written.
THEOREM SuiteFinalized == MCSpec => []Finalized
<1>1. Profile!Spec => []Profile!Finalized
  BY ProfileConstants, Profile!StoppedIsFinalized
<1> QED
  BY <1>1, ImplementsProfile, PTL DEF Finalized

\* Exit code 0 means a manifest, and evidence that the workload succeeded or was
\* meant to be stopped.
THEOREM SuiteExits == MCSpec => []ExitHonest
<1>1. Profile!Spec => []Profile!ExitHonest
  BY ProfileConstants, Profile!ExitIsHonest
<1> QED
  BY <1>1, ImplementsProfile, PTL DEF ExitHonest

\* Each reply of a helper that only answers answers its own request, and a failed
\* exchange ends the session for good.
THEOREM SuiteReplies == MCSpec => []RepliesAnswer
<1>1. Helper!Spec => []Helper!RepliesAnswer
  BY HelperConstants, ExchangeAnswers
<1>2. Helper!Spec => []Helper!FailureCloses
  BY HelperConstants, FailureIsFinal
<1> QED
  BY <1>1, <1>2, ImplementsHelper, PTL DEF RepliesAnswer

\* The supervisor that ends by itself leaves no workload and a whole status file,
\* and what the profile says of the workload is what happened to it.
THEOREM SuiteAccounted == MCSpec => []WorkloadAccounted
<1>1. Launch!Spec => []Launch!WorkloadAccounted
  BY LaunchConstants, LaunchAccounted
<1> QED
  BY <1>1, ImplementsLaunch, PTL DEF WorkloadAccounted

\* Every scope of a thread reads the first and the number of the signals sent since
\* its outermost one was entered; handlers are registered exactly for the outermost
\* scopes held; a cancelled thread records nothing more.
THEOREM SuiteScopes == MCSpec => []ScopesExact
<1>1. Scopes!Spec => []Scopes!ScopesExact
  BY ScopeConstants, ScopesAreExact
<1> QED
  BY <1>1, ImplementsScopes, PTL DEF ScopesExact
=============================================================================
