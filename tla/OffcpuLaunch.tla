---------------------------- MODULE OffcpuLaunch ----------------------------
(***************************************************************************)
(* The supervised workload of src/backends/offcpu.rs: bpftrace, which      *)
(* starts a private shell with -c, the shell that starts the workload,     *)
(* waits once for it and writes how it ended to a status file, and         *)
(* pyroclast, which reads the file when the process group is gone.         *)
(*                                                                         *)
(* A step of the shell is one of its commands; a signal interrupts between *)
(* two of them, or inside `wait`.  A shell without job control has its     *)
(* background children ignore SIGINT.  What bpftrace and the shell do of   *)
(* themselves is modelled from how the script uses them.                   *)
(***************************************************************************)
EXTENDS Integers

CONSTANTS
  Statuses,    \* exit codes of the workload
  MaxSignals   \* bound on the signals sent to the group

LaunchAssumption == Statuses \subseteq 0..127 /\ MaxSignals \in Nat

\* The status a shell gives a child that died of a signal.
Terminated == 143
Killed == 137

NoChild == -1  \* before the fork
Running == -2

Absent == -1   \* the status file before it is opened, truncated, and after `stop`
Cut == -2
Stopped == -3

VARIABLES
  pc,         \* the next command of the shell, or "dead", "exited"
  pending,    \* whether a signal waits for the shell's trap
  bang, workload,  \* whether `$!` and `workload` are set
  child,      \* the workload: NoChild, Running or its status
  obstinate,  \* whether it survives SIGTERM
  status,     \* what `$status` holds
  file,       \* the status file: Absent, Cut, Stopped or a status
  recorder,   \* bpftrace: "run", "ending", or what became of it
  limited,    \* whether @duration_limited is set
  cancelled,  \* whether pyroclast's scope saw a signal
  outcome,    \* what the profile says of the workload, "none" before
  signals, told, alone  \* signals sent; whether the shell was told to stop;
                        \* whether the workload ended before that

shellVars == <<pc, pending, bang, workload, status, file>>
childVars == <<child, obstinate, alone>>
traceVars == <<recorder, limited>>
userVars == <<cancelled, signals, told>>
vars == <<shellVars, childVars, traceVars, userVars, outcome>>

ShellLives == pc \notin {"dead", "exited"}

\* Commands during which `trap stop INT TERM` is in force.
Trapped == {"redirect", "fork", "assign", "close", "wait", "status", "ignore"}

Init ==
  /\ pc = "trap" /\ pending = FALSE /\ bang = FALSE /\ workload = FALSE
  /\ child = NoChild /\ obstinate \in BOOLEAN /\ alone = FALSE
  /\ status = 0 /\ file = Absent
  /\ recorder = "run" /\ limited = FALSE
  /\ cancelled = FALSE /\ signals = 0 /\ told = FALSE /\ outcome = "none"

-----------------------------------------------------------------------------
(* Signals.                                                                 *)

\* A SIGINT or SIGTERM for the shell: its trap keeps it, the ignored signals
\* are lost, and before the trap is set it is fatal.
TellShell ==
  /\ told' = (told \/ ShellLives)
  /\ IF pc \in Trapped THEN pending' = TRUE /\ UNCHANGED pc
     ELSE /\ pc' = IF pc = "trap" THEN "dead" ELSE pc
          /\ UNCHANGED pending

\* SIGTERM for the workload.
TellChild ==
  child' = IF child = Running /\ ~obstinate THEN Terminated ELSE child

\* A signal of the terminal, or one that pyroclast forwards, for the group.  A
\* recorder that is told to stop returns what it has, or dies of it.
GroupSignal(sig, forwarded) ==
  /\ outcome = "none" /\ signals < MaxSignals
  /\ signals' = signals + 1
  /\ cancelled' = (cancelled \/ forwarded)
  /\ TellShell
  /\ IF sig = "term" THEN TellChild ELSE UNCHANGED child
  /\ IF recorder = "run" THEN recorder' \in {"ending", sig} ELSE UNCHANGED recorder
  /\ UNCHANGED <<bang, workload, status, file, obstinate, alone, limited, outcome>>

\* interval:s: bpftrace prints @duration_limited and ends.
DurationElapsed ==
  /\ recorder = "run" /\ limited' = TRUE /\ recorder' = "ending"
  /\ UNCHANGED <<shellVars, childVars, userVars, outcome>>

\* It also ends when its -c child has, or fails.
RecorderStops ==
  /\ recorder = "run"
  /\ \/ ~ShellLives /\ recorder' = "ending"
     \/ recorder' = "failed"
  /\ UNCHANGED <<shellVars, childVars, limited, userVars, outcome>>

\* An ending bpftrace terminates its child, or kills it.
RecorderTerminates ==
  /\ recorder = "ending" /\ ShellLives
  /\ \/ ~told /\ TellShell
     \/ pc' = "dead" /\ told' = TRUE /\ UNCHANGED pending
  /\ UNCHANGED <<bang, workload, status, file, childVars, traceVars, cancelled, signals, outcome>>

RecorderExits ==
  /\ recorder = "ending" /\ recorder' = "ok"
  /\ UNCHANGED <<shellVars, childVars, limited, userVars, outcome>>

-----------------------------------------------------------------------------
(* The workload and the shell's commands.                                   *)

WorkloadEnds ==
  /\ child = Running /\ child' \in Statuses
  /\ alone' = ~told
  /\ UNCHANGED <<shellVars, obstinate, traceVars, userVars, outcome>>

At(p) == pc = p /\ ~pending

GoTo(p) == pc' = p /\ UNCHANGED pending

\* The shell takes the trap before its next command.
Interrupt ==
  /\ pending /\ ShellLives /\ pc' = "silence" /\ pending' = FALSE
  /\ UNCHANGED <<bang, workload, status, file, childVars, traceVars, userVars, outcome>>

\* The script up to `wait`: the child exists before `workload` names it.
Launch ==
  /\ \/ At("trap") /\ GoTo("redirect") /\ UNCHANGED <<child, bang, workload>>
     \/ At("redirect") /\ GoTo("fork") /\ UNCHANGED <<child, bang, workload>>
     \/ At("fork") /\ GoTo("assign") /\ child' = Running /\ bang' = TRUE /\ UNCHANGED workload
     \/ At("assign") /\ GoTo("close") /\ workload' = TRUE /\ UNCHANGED <<child, bang>>
     \/ At("close") /\ GoTo("wait") /\ UNCHANGED <<child, bang, workload>>
  /\ UNCHANGED <<status, file, obstinate, alone, traceVars, userVars, outcome>>

\* The script after it; writing a file truncates it first.
Report ==
  /\ \/ At("wait") /\ child # Running /\ GoTo("status") /\ UNCHANGED <<status, file>>
     \/ At("status") /\ status' = child /\ GoTo("ignore") /\ UNCHANGED file
     \/ At("ignore") /\ GoTo("open") /\ UNCHANGED <<status, file>>
     \/ At("open") /\ file' = Cut /\ GoTo("write") /\ UNCHANGED status
     \/ At("write") /\ file' = status /\ GoTo("exited") /\ UNCHANGED status
  /\ UNCHANGED <<bang, workload, childVars, traceVars, userVars, outcome>>

\* Mutant: `stop` knows the workload only by its variable.
NamedChild == workload

\* ${workload:-$!}.
KnownChild == workload \/ bang

\* `stop`: the file is written before the workload is waited for.
Stop ==
  /\ \/ At("silence") /\ GoTo("stop_open") /\ UNCHANGED <<workload, child, file>>
     \/ At("stop_open") /\ file' = Cut /\ GoTo("stop_write") /\ UNCHANGED <<workload, child>>
     \/ At("stop_write") /\ file' = Stopped /\ GoTo("name") /\ UNCHANGED <<workload, child>>
     \/ /\ At("name") /\ workload' = KnownChild
        /\ GoTo(IF KnownChild THEN "kill" ELSE "exited") /\ UNCHANGED <<child, file>>
     \/ At("kill") /\ TellChild /\ GoTo("stop_wait") /\ UNCHANGED <<workload, file>>
     \/ At("stop_wait") /\ child # Running /\ GoTo("exited") /\ UNCHANGED <<workload, child, file>>
  /\ UNCHANGED <<bang, status, obstinate, alone, traceVars, userVars, outcome>>

-----------------------------------------------------------------------------
(* pyroclast.                                                               *)

KillGroup ==
  /\ pc' = IF ShellLives THEN "dead" ELSE pc
  /\ child' = IF child = Running THEN Killed ELSE child

\* The runner's last resort, when nothing has ended after a cancellation.
Escalate ==
  /\ cancelled /\ recorder \in {"run", "ending"}
  /\ recorder' = "killed" /\ KillGroup
  /\ UNCHANGED <<pending, bang, workload, status, file, obstinate, alone, limited, userVars, outcome>>

\* profile_with_bpftrace: what the file, the data and the statuses say.
Classified(duration_limited) ==
  CASE recorder \notin {"ok", "int", "term"} /\ ~cancelled -> "error"
    [] file = Stopped -> IF duration_limited /\ ~cancelled THEN "duration_limited" ELSE "interrupted"
    [] file = Cut -> "error"
    [] file >= 0 -> "completed"
    [] OTHER -> IF cancelled THEN "interrupted"
                ELSE IF duration_limited THEN "duration_limited"
                ELSE IF recorder \in {"int", "term"} THEN "interrupted" ELSE "incomplete"

\* The runner returns when bpftrace has exited and kills what is left of the
\* group; a recorder that did not end by itself may have left no data, or not all.
Collect ==
  /\ recorder \notin {"run", "ending"} /\ outcome = "none"
  /\ KillGroup
  /\ \/ outcome' \in {Classified(duration_limited) :
                        duration_limited \in IF recorder = "ok" THEN {limited} ELSE {FALSE, limited}}
     \/ recorder # "ok" /\ outcome' = "error"
  /\ UNCHANGED <<pending, bang, workload, status, file, obstinate, alone, traceVars, userVars>>

Next ==
  \/ \E sig \in {"int", "term"}, forwarded \in BOOLEAN : GroupSignal(sig, forwarded)
  \/ DurationElapsed \/ RecorderStops \/ RecorderTerminates \/ RecorderExits
  \/ WorkloadEnds \/ Interrupt \/ Launch \/ Report \/ Stop
  \/ Escalate \/ Collect

Spec == Init /\ [][Next]_vars

-----------------------------------------------------------------------------
(* Properties.                                                              *)

Outcomes == {"completed", "duration_limited", "interrupted", "incomplete", "error"}

TypeOK ==
  /\ pc \in Trapped \cup {"trap", "open", "write", "silence", "stop_open", "stop_write",
                          "name", "kill", "stop_wait", "dead", "exited"}
  /\ {pending, bang, workload, obstinate, alone, limited, cancelled, told} \subseteq BOOLEAN
  /\ child \in {NoChild, Running, Terminated, Killed} \cup Statuses
  /\ status \in {Terminated} \cup Statuses \cup {0}
  /\ file \in {Absent, Cut, Stopped, Terminated} \cup Statuses
  /\ recorder \in {"run", "ending", "ok", "int", "term", "failed", "killed"}
  /\ outcome \in Outcomes \cup {"none"} /\ signals \in 0..MaxSignals

\* A shell that ends by itself leaves no workload behind, wherever a signal met
\* it, and a whole status file.
NoneLeft == pc = "exited" => child # Running /\ file # Cut /\ file # Absent

\* What the profile says is what happened: a completed workload ended before
\* anything was told to stop, with that status; a duration-limited one ran into
\* the limit; an interrupted one had a signal; an incomplete one lost its shell.
OutcomeTrue ==
  /\ outcome = "completed" => alone /\ child = file
  /\ outcome = "duration_limited" => limited /\ ~cancelled
  /\ outcome = "interrupted" => told \/ signals > 0
  /\ outcome = "incomplete" => pc = "dead" /\ ~cancelled

\* The workload's end is accounted for.
WorkloadAccounted == TypeOK /\ NoneLeft /\ OutcomeTrue
=============================================================================
