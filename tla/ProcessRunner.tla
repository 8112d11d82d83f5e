--------------------------- MODULE ProcessRunner ---------------------------
(***************************************************************************)
(* The owned-process runner of src/process.rs: one command is checked,     *)
(* spawned into a process group of its own, served (its output drained,    *)
(* its input fed), cancelled on request, cleaned up and reaped.            *)
(*                                                                         *)
(* Four kinds of actor interleave here: the runner thread (one action per  *)
(* step of run_owned_process between two system calls), the user who sends *)
(* signals to the CLI, the processes of the child's group, which fork,     *)
(* stop, leave the group, write, read and exit as they please, and time.   *)
(*                                                                         *)
(* The signal handlers run on the runner's own thread, so one arrival is   *)
(* one atomic action.  Deadlines are kept as remaining ticks.  They tick   *)
(* only where the passing of time can be seen: before the Instant::now()   *)
(* that opens a turn and before the at.elapsed() that may end the loop.    *)
(***************************************************************************)
EXTENDS Integers, Sequences, FiniteSets

CONSTANTS
  Descendants,  \* processes the leader or another descendant may fork
  Outputs,      \* the output pipes explored: stdout, stderr
  Stdio,        \* what commands do with them: records of terminal, input, outputs
  MaxSignals,   \* bound on the signals the user sends to the CLI
  MaxChunks,    \* bound on the chunks written to each output pipe
  DrainTurn,    \* reads per pipe and turn (8 in drain_pipe)
  MaxInput,     \* chunks of configured stdin
  StdinRoom,    \* chunks the stdin pipe holds before a write would block
  GraceStop,    \* ticks from a forwarded signal to SIGTERM, and on to SIGKILL
  GraceExit,    \* ticks from the leader's exit to SIGTERM, and on to SIGKILL
  GraceKill     \* ticks from SIGKILL until held-open pipes are abandoned

ASSUME ConstantsOK ==
  /\ "leader" \notin Descendants
  /\ Outputs \subseteq {"stdout", "stderr"}
  /\ Stdio \subseteq [terminal : BOOLEAN, input : BOOLEAN, outputs : SUBSET Outputs]
  /\ \A s \in Stdio : s.terminal => ~s.input   \* spawn_process refuses both
  /\ \A n \in {MaxSignals, MaxChunks, MaxInput} : n \in Nat
  /\ \A n \in {DrainTurn, StdinRoom, GraceStop, GraceExit, GraceKill} : n \in Nat \ {0}

VARIABLES
  first, signals,            \* State of the cancellation scope
  purpose, scoped,           \* CommandPurpose; inside a FinalizationScope
  inputLen,                  \* chunks of stdin in the CommandSpec
  stdio,                     \* its terminal, its stdin bytes, its captured outputs
  pc, todo, ret,             \* runner: step, signals left to send, where to go on
  forwarded, stopping, terminated, killed,
  leader_completed, finalizing,
  open,                      \* the runner's ends of the pipes that are Some
  written, captured,         \* chunks fed to stdin, chunks kept per output
  reaped, terminal,          \* OwnedProcess.reaped; TerminalForeground.active
  result,                    \* what run returned
  pstate, pgrp, holds,       \* the processes, their group, their pipe ends
  sent, buffered, fed,       \* chunks written by them, in the pipes, in stdin
  fg,                        \* the terminal's foreground group
  delivered, forced          \* history: forwarded signals that reached the
                             \* leader; SIGTERM/SIGKILL sent to a live leader

scopeVars == <<first, signals>>
specVars  == <<purpose, scoped, inputLen, stdio>>
stepVars  == <<pc, todo, ret>>
stopVars  == <<forwarded, stopping, terminated, killed, leader_completed, finalizing>>
ioVars    == <<open, written, captured>>
ownVars   == <<reaped, terminal, result>>
procVars  == <<pstate, pgrp, holds>>
pipeVars  == <<sent, buffered, fed>>
histVars  == <<delivered, forced>>
vars == <<scopeVars, specVars, stepVars, stopVars, ioVars, ownVars, procVars,
          pipeVars, fg, histVars>>

Leader  == "leader"
Procs   == {Leader} \cup Descendants
Ends    == Outputs \cup {"stdin"}
Interactive == stdio.terminal
Purposes == {"Preparation", "Recording", "Finalization"}
Causes  == {"INT", "TERM"}
Signals == Causes \cup {"CONT", "KILL"}
NoTimer == -1

Steps == {"check1", "check2", "check3", "spawn", "handoff", "serve", "group",
          "leader", "watch", "reapable", "escalate", "drain", "feed", "decide",
          "restore", "wait", "dropTerminal", "done"}

Min2(a, b) == IF a < b THEN a ELSE b
Live(p) == pstate[p] \in {"running", "stopped"}

-----------------------------------------------------------------------------
(* The cancellation scope: signal(), repeated(), permits_finalization(). *)

Cancelled == first # "none"
Repeated  == signals > 1

PermitsFinalization ==
  \/ purpose = "Finalization"
  \/ purpose = "Preparation" /\ scoped

\* check_cancellation: a cancelled run may only go on with finalization work,
\* and not after a second signal.
Forbidden == Cancelled /\ (~PermitsFinalization \/ Repeated)

\* The handler of CancellationScope::enter: keep the first cause, count all.
UserSignal(s) ==
  /\ signals < MaxSignals
  /\ first' = IF Cancelled THEN first ELSE s
  /\ signals' = signals + 1
  /\ UNCHANGED <<specVars, stepVars, stopVars, ioVars, ownVars, procVars,
                 pipeVars, fg, histVars>>

-----------------------------------------------------------------------------
(* Before the launch. *)

Fail(step) == pc' = step /\ result' = "error"

\* The three checks on the way to spawn: in RealCommandRunner::run, on entry
\* to spawn_process and right before Command::spawn.
CheckCancellation ==
  /\ pc \in {"check1", "check2", "check3"}
  /\ \/ /\ Forbidden
        /\ Fail("done")
     \/ /\ ~Forbidden
        /\ pc' = (CASE pc = "check1" -> "check2"
                    [] pc = "check2" -> "check3"
                    [] OTHER -> "spawn")
        /\ UNCHANGED result
  /\ UNCHANGED <<scopeVars, specVars, todo, ret, stopVars, ioVars, reaped,
                 terminal, procVars, pipeVars, fg, histVars>>

\* Command::spawn: the child leads a new group and holds the far pipe ends.
Spawn ==
  /\ pc = "spawn"
  /\ pc' = "handoff"
  /\ pstate' = [pstate EXCEPT ![Leader] = "running"]
  /\ holds'  = [holds EXCEPT ![Leader] = open]
  /\ reaped' = FALSE
  /\ UNCHANGED <<scopeVars, specVars, todo, ret, stopVars, ioVars, terminal,
                 result, pgrp, pipeVars, fg, histVars>>

SpawnFails ==
  /\ pc = "spawn"
  /\ Fail("done")
  /\ UNCHANGED <<scopeVars, specVars, todo, ret, stopVars, ioVars, reaped,
                 terminal, procVars, pipeVars, fg, histVars>>

\* The queue of signals owned.signal() is to send before going on at step r.
Send(sigs, r) == pc' = "group" /\ todo' = sigs /\ ret' = r

\* TerminalForeground::handoff, and the SIGCONT for a child that read the
\* terminal too early.  Only the current foreground group may pass it on.
Handoff ==
  /\ pc = "handoff"
  /\ IF Interactive /\ fg = "self"
       THEN /\ fg' = "child"
            /\ terminal' = "active"
            /\ Send(<<"CONT">>, "serve")
       ELSE /\ pc' = "serve"
            /\ UNCHANGED <<fg, terminal, todo, ret>>
  /\ UNCHANGED <<scopeVars, specVars, stopVars, ioVars, reaped, result,
                 procVars, pipeVars, histVars>>

HandoffFails ==
  /\ pc = "handoff"
  /\ Interactive /\ fg = "self"
  /\ Fail("dropTerminal")
  /\ UNCHANGED <<scopeVars, specVars, todo, ret, stopVars, ioVars, reaped,
                 terminal, procVars, pipeVars, fg, histVars>>

\* The pipes become nonblocking and the loop's locals are set up; whether this
\* command finalizes a run that was already cancelled is decided once, here.
Serve ==
  /\ pc = "serve"
  /\ pc' = "watch"
  /\ finalizing' = (PermitsFinalization /\ Cancelled)
  /\ UNCHANGED <<scopeVars, specVars, todo, ret, forwarded, stopping,
                 terminated, killed, leader_completed, ioVars, ownVars,
                 procVars, pipeVars, fg, histVars>>

-----------------------------------------------------------------------------
(* OwnedProcess::signal_with: the group first, then a leader that has left it,
   or any leader when the signal is SIGKILL. *)

Sig == Head(todo)

\* What delivering SIGKILL or SIGCONT does; the other signals are the
\* receiver's business (it may exit at any time while it runs).
Hit(ps) ==
  pstate' = [p \in Procs |->
               CASE p \in ps /\ Live(p) /\ Sig = "KILL" -> "dead"
                 [] p \in ps /\ pstate[p] = "stopped" /\ Sig = "CONT" -> "running"
                 [] OTHER -> pstate[p]]

\* A killed process gives up its pipe ends.
Release(ps) ==
  holds' = [p \in Procs |-> IF p \in ps /\ Sig = "KILL" THEN {} ELSE holds[p]]

Note(ps) ==
  /\ delivered' = IF Leader \in ps /\ Live(Leader) /\ forwarded /\ ~terminated
                     /\ Sig \in Causes
                  THEN delivered + 1 ELSE delivered
  /\ forced' = (forced \/ (/\ Leader \in ps /\ Live(Leader)
                           /\ \/ Sig = "KILL"
                              \/ Sig = "TERM" /\ terminated))

\* Mutant: kill(pid) instead of kill(-pgid).
GroupOnlyLeader == {p \in {Leader} : pgrp[p] = "own"}
Group == {p \in Procs : pgrp[p] = "own"}

Direct == IF pgrp[Leader] # "own" \/ Sig = "KILL" THEN {Leader} ELSE {}

SignalGroup ==
  /\ pc = "group"
  /\ Hit(Group) /\ Release(Group) /\ Note(Group)
  /\ pc' = "leader"
  /\ UNCHANGED <<scopeVars, specVars, todo, ret, stopVars, ioVars, ownVars,
                 pgrp, pipeVars, fg>>

SignalLeader ==
  /\ pc = "leader"
  /\ Hit(Direct) /\ Release(Direct) /\ Note(Direct)
  /\ todo' = Tail(todo)
  /\ pc' = IF Len(todo) = 1 THEN ret ELSE "group"
  /\ UNCHANGED <<scopeVars, specVars, ret, stopVars, ioVars, ownVars, pgrp,
                 pipeVars, fg>>

-----------------------------------------------------------------------------
(* One turn of the loop in run_owned_process. *)

\* Recorders get no deadline, since perf may take long to write its output.
\* Mutant: they get one.
StopDeadlineForAll == GraceStop
StopDeadline == IF purpose = "Recording" THEN stopping ELSE GraceStop

\* A first cancellation is forwarded once, with SIGCONT behind it.
Forward ==
  /\ pc = "watch"
  /\ IF Cancelled /\ ~forwarded /\ (~finalizing \/ Repeated)
       THEN /\ forwarded' = TRUE
            /\ stopping' = StopDeadline
            /\ open' = open \ {"stdin"}
            /\ Send(<<first, "CONT">>, "reapable")
       ELSE /\ pc' = "reapable"
            /\ UNCHANGED <<forwarded, stopping, open, todo, ret>>
  /\ UNCHANGED <<scopeVars, specVars, terminated, killed, leader_completed,
                 finalizing, written, captured, ownVars, procVars, pipeVars,
                 fg, histVars>>

\* OwnedProcess::completed looks at the leader without reaping it.
Completed ==
  /\ pc = "reapable"
  /\ leader_completed' = (leader_completed \/ pstate[Leader] = "dead")
  /\ IF stopping = NoTimer /\ leader_completed'
       THEN stopping' = GraceExit /\ open' = open \ {"stdin"}
       ELSE UNCHANGED <<stopping, open>>
  /\ pc' = "escalate"
  /\ UNCHANGED <<scopeVars, specVars, todo, ret, forwarded, terminated, killed,
                 finalizing, written, captured, ownVars, procVars, pipeVars,
                 fg, histVars>>

\* SIGKILL at once on a second signal; otherwise SIGTERM at the deadline and
\* SIGKILL at the next one.  Mutant: the second signal is forgotten.
MustKillAtDeadline == stopping = 0 /\ terminated
MustKill == Repeated \/ (stopping = 0 /\ terminated)

Escalate ==
  /\ pc = "escalate"
  /\ \/ /\ killed = NoTimer /\ MustKill
        /\ killed' = GraceKill
        /\ Send(<<"KILL">>, "drain")
        /\ UNCHANGED <<terminated, stopping>>
     \/ /\ killed = NoTimer /\ ~MustKill /\ stopping = 0
        /\ terminated' = TRUE
        /\ stopping' = IF forwarded THEN GraceStop ELSE GraceExit
        /\ Send(<<"TERM">>, "drain")
        /\ UNCHANGED killed
     \/ /\ killed # NoTimer \/ (~MustKill /\ stopping # 0)
        /\ pc' = "drain"
        /\ UNCHANGED <<todo, ret, killed, terminated, stopping>>
  /\ UNCHANGED <<scopeVars, specVars, forwarded, leader_completed, finalizing,
                 ioVars, ownVars, procVars, pipeVars, fg, histVars>>

\* drain_pipe on each open output: at most DrainTurn reads, of which the one
\* that finds the pipe empty with no writer left closes it.
Holders(e) == {p \in Procs : Live(p) /\ e \in holds[p]}
\* Mutant: a drain that keeps the whole buffer, however little was read.
ReadsFullTurn(o) == IF o \in open THEN DrainTurn ELSE 0
Reads(o) == IF o \in open THEN Min2(buffered[o], DrainTurn) ELSE 0
AtEof(o) == buffered[o] < DrainTurn /\ Holders(o) = {}

Drain ==
  /\ pc = "drain"
  /\ captured' = [o \in Outputs |-> captured[o] + Reads(o)]
  /\ buffered' = [o \in Outputs |-> buffered[o] - Reads(o)]
  /\ open' = {e \in open : e = "stdin" \/ ~AtEof(e)}
  /\ pc' = "feed"
  /\ UNCHANGED <<scopeVars, specVars, todo, ret, stopVars, written, ownVars,
                 procVars, sent, fed, fg, histVars>>

\* write_child_stdin: what fits, nothing when it would block, and the pipe is
\* closed once everything is written or nobody reads it any more.
ClosesStdin(n) == Holders("stdin") = {} \/ written + n = inputLen

Feed ==
  /\ pc = "feed"
  /\ LET n == IF "stdin" \in open /\ Holders("stdin") # {}
                THEN Min2(inputLen - written, StdinRoom - fed) ELSE 0
     IN /\ written' = written + n
        /\ fed' = fed + n
        /\ open' = IF ClosesStdin(n) THEN open \ {"stdin"} ELSE open
  /\ pc' = "decide"
  /\ UNCHANGED <<scopeVars, specVars, todo, ret, stopVars, captured, ownVars,
                 procVars, sent, buffered, fg, histVars>>

\* Leave the loop when the leader is gone and both outputs ended, or after a
\* SIGKILL when the outputs ended or their grace is over.  Mutant: the outputs
\* are not waited for.
FinishedOnExit == leader_completed \/ killed # NoTimer
Finished ==
  LET ended == open \cap Outputs = {}
  IN (leader_completed /\ ended) \/ (killed # NoTimer /\ (ended \/ killed = 0))

Decide ==
  /\ pc = "decide"
  /\ IF Finished
       THEN open' = {} /\ Send(<<"KILL">>, "restore")
       ELSE pc' = "watch" /\ UNCHANGED <<open, todo, ret>>
  /\ UNCHANGED <<scopeVars, specVars, stopVars, written, captured, ownVars,
                 procVars, pipeVars, fg, histVars>>

\* Mutant: the guard stays armed.
StillActive == terminal
Deactivated == IF terminal = "active" THEN "inactive" ELSE terminal

\* TerminalForeground::restore: give the terminal back only if the child's
\* group still has it; an error drops the owned process instead.
\* Mutant: the flag is cleared before it is looked at.
RestoredLate == IF Deactivated = "active" /\ fg = "child" THEN "self" ELSE fg
Restored == IF terminal = "active" /\ fg = "child" THEN "self" ELSE fg

Restore ==
  /\ pc = "restore"
  /\ fg' = Restored
  /\ terminal' = Deactivated
  /\ pc' = "wait"
  /\ UNCHANGED <<scopeVars, specVars, todo, ret, stopVars, ioVars, reaped,
                 result, procVars, pipeVars, histVars>>

RestoreFails ==
  /\ pc = "restore"
  /\ terminal = "active"
  /\ Fail("dropTerminal")
  /\ UNCHANGED <<scopeVars, specVars, todo, ret, stopVars, ioVars, reaped,
                 terminal, procVars, pipeVars, fg, histVars>>

\* child.wait() blocks until the leader is dead; reaping frees its identity.
Wait ==
  /\ pc = "wait"
  /\ pstate[Leader] = "dead"
  /\ reaped' = TRUE
  /\ result' = IF result = "error" THEN "error" ELSE "output"
  /\ pc' = "done"
  /\ UNCHANGED <<scopeVars, specVars, todo, ret, stopVars, ioVars, terminal,
                 procVars, pipeVars, fg, histVars>>

\* Any system call of the loop or its setup (fcntl, waitid, read, write, poll,
\* wait) may fail and leave through `?`.
IoFails ==
  /\ \/ pc \in {"serve", "reapable", "drain", "feed"}
     \/ pc = "decide" /\ ~Finished
     \/ pc = "wait" /\ result # "error"
  /\ Fail("dropTerminal")
  /\ UNCHANGED <<scopeVars, specVars, todo, ret, stopVars, ioVars, reaped,
                 terminal, procVars, pipeVars, fg, histVars>>

\* The locals are dropped in reverse order: pipes, terminal, owned process.
\* A failing restore is ignored there, and the Drop of OwnedProcess kills.
DropTerminal ==
  /\ pc = "dropTerminal"
  /\ open' = {}
  /\ fg' \in {Restored, fg}
  /\ terminal' = Deactivated
  /\ Send(<<"KILL">>, "wait")
  /\ UNCHANGED <<scopeVars, specVars, stopVars, written, captured, reaped,
                 result, procVars, pipeVars, histVars>>

-----------------------------------------------------------------------------
(* The child's processes, which the runner does not control. *)

runnerVars == <<scopeVars, specVars, stepVars, stopVars, ioVars, ownVars, histVars>>

Fork(p, q) ==
  /\ pstate[p] = "running" /\ pstate[q] = "none"
  /\ pstate' = [pstate EXCEPT ![q] = "running"]
  /\ pgrp'   = [pgrp EXCEPT ![q] = pgrp[p]]
  /\ holds'  = [holds EXCEPT ![q] = holds[p]]
  /\ UNCHANGED <<runnerVars, pipeVars, fg>>

\* setsid or setpgid; nobody comes back to the original group.
LeaveGroup(p) ==
  /\ pstate[p] = "running" /\ pgrp[p] = "own"
  /\ pgrp' = [pgrp EXCEPT ![p] = "other"]
  /\ UNCHANGED <<runnerVars, pstate, holds, pipeVars, fg>>

Exit(p) ==
  /\ pstate[p] = "running"
  /\ pstate' = [pstate EXCEPT ![p] = "dead"]
  /\ holds'  = [holds EXCEPT ![p] = {}]
  /\ UNCHANGED <<runnerVars, pgrp, pipeVars, fg>>

\* SIGTTIN, SIGSTOP or a debugger.  A stopped descendant is like an idle one.
Stop ==
  /\ pstate[Leader] = "running"
  /\ pstate' = [pstate EXCEPT ![Leader] = "stopped"]
  /\ UNCHANGED <<runnerVars, pgrp, holds, pipeVars, fg>>

CloseEnd(p, e) ==
  /\ pstate[p] = "running" /\ e \in holds[p]
  /\ holds' = [holds EXCEPT ![p] = @ \ {e}]
  /\ UNCHANGED <<runnerVars, pstate, pgrp, pipeVars, fg>>

Write(p, o) ==
  /\ pstate[p] = "running" /\ o \in holds[p] /\ o \in open
  /\ sent[o] < MaxChunks
  /\ sent' = [sent EXCEPT ![o] = @ + 1]
  /\ buffered' = [buffered EXCEPT ![o] = @ + 1]
  /\ UNCHANGED <<runnerVars, procVars, fed, fg>>

ReadStdin(p) ==
  /\ pstate[p] = "running" /\ "stdin" \in holds[p] /\ fed > 0
  /\ fed' = fed - 1
  /\ UNCHANGED <<runnerVars, procVars, sent, buffered, fg>>

\* Job control elsewhere: a live process of the child's group takes the
\* terminal, or a shell gives it to the CLI or to some other group.
TakeTerminal ==
  /\ Interactive
  /\ fg' \in {"self", "other"} \cup (IF \E p \in Procs : Live(p) /\ pgrp[p] = "own"
                               THEN {"child"} ELSE {})
  /\ UNCHANGED <<runnerVars, procVars, pipeVars>>

Tick ==
  /\ pc \in {"watch", "decide"}
  /\ stopping > 0 \/ killed > 0
  /\ stopping' = IF stopping > 0 THEN stopping - 1 ELSE stopping
  /\ killed' = IF killed > 0 THEN killed - 1 ELSE killed
  /\ UNCHANGED <<scopeVars, specVars, stepVars, forwarded, terminated,
                 leader_completed, finalizing, ioVars, ownVars, procVars,
                 pipeVars, fg, histVars>>

-----------------------------------------------------------------------------
Init ==
  /\ first = "none" /\ signals = 0
  /\ purpose \in Purposes
  /\ scoped \in BOOLEAN /\ (scoped => purpose = "Preparation")  \* no other looks at it
  /\ stdio \in Stdio
  /\ inputLen \in IF stdio.input THEN 0 .. MaxInput ELSE {0}
  /\ open = stdio.outputs \cup (IF stdio.input THEN {"stdin"} ELSE {})
  /\ pc = "check1" /\ todo = <<>> /\ ret = "done"
  /\ forwarded = FALSE /\ stopping = NoTimer /\ terminated = FALSE
  /\ killed = NoTimer /\ leader_completed = FALSE /\ finalizing = FALSE
  /\ written = 0 /\ captured = [o \in Outputs |-> 0]
  /\ reaped = TRUE /\ terminal = "none" /\ result = "none"
  /\ pstate = [p \in Procs |-> "none"]
  /\ pgrp = [p \in Procs |-> "own"]
  /\ holds = [p \in Procs |-> {}]
  /\ sent = [o \in Outputs |-> 0] /\ buffered = [o \in Outputs |-> 0] /\ fed = 0
  /\ fg = "self"
  /\ delivered = 0 /\ forced = FALSE

Launch == CheckCancellation \/ Spawn \/ SpawnFails \/ Handoff \/ HandoffFails \/ Serve
Loop   == SignalGroup \/ SignalLeader \/ Forward \/ Completed \/ Escalate
            \/ Drain \/ Feed \/ Decide
Ending == Restore \/ RestoreFails \/ Wait \/ IoFails \/ DropTerminal
Runner == Launch \/ Loop \/ Ending

Child ==
  \/ Stop
  \/ \E p \in Procs : LeaveGroup(p) \/ Exit(p) \/ ReadStdin(p)
  \/ \E p \in Procs, q \in Descendants : Fork(p, q)
  \/ \E p \in Procs, e \in Ends : CloseEnd(p, e)
  \/ \E p \in Procs, o \in Outputs : Write(p, o)

\* What escaped processes or the user do after the return is out of scope.
Environment ==
  pc # "done" /\ (Child \/ (\E s \in Causes : UserSignal(s)) \/ TakeTerminal)

Returned == pc = "done" /\ UNCHANGED vars

Next == Runner \/ Environment \/ Tick \/ Returned

Spec == Init /\ [][Next]_vars

\* The runner's thread is scheduled and time passes while the loop turns (each
\* turn polls); neither the user nor the child owes anything.
FairSpec == Spec /\ WF_vars(Runner) /\ SF_vars(Tick)

-----------------------------------------------------------------------------
(* Properties. *)

ScopeOK ==
  /\ first \in Causes \cup {"none"} /\ signals \in Nat
  /\ purpose \in Purposes /\ scoped \in BOOLEAN /\ inputLen \in Nat
  /\ stdio \in Stdio

StepOK ==
  /\ pc \in Steps /\ ret \in Steps /\ todo \in Seq(Signals)
  /\ result \in {"none", "output", "error"}

StopOK ==
  /\ stopping \in Nat \cup {NoTimer} /\ killed \in Nat \cup {NoTimer}
  /\ forwarded \in BOOLEAN /\ terminated \in BOOLEAN
  /\ leader_completed \in BOOLEAN /\ finalizing \in BOOLEAN
  /\ delivered \in Nat /\ forced \in BOOLEAN

PipesOK ==
  /\ open \subseteq Ends
  /\ written \in 0 .. inputLen /\ fed \in 0 .. StdinRoom
  /\ captured \in [Outputs -> Nat]
  /\ sent \in [Outputs -> Nat] /\ buffered \in [Outputs -> Nat]

ProcsOK ==
  /\ reaped \in BOOLEAN /\ terminal \in {"none", "active", "inactive"}
  /\ pstate \in [Procs -> {"none", "running", "stopped", "dead"}]
  /\ pgrp \in [Procs -> {"own", "other"}]
  /\ holds \in [Procs -> SUBSET Ends]
  /\ fg \in {"self", "child", "other"}

\* Every variable keeps its type; drains never take more than a pipe holds and
\* writes never go past the configured input (drain_pipe, write_child_stdin).
TypeOK == ScopeOK /\ StepOK /\ StopOK /\ PipesOK /\ ProcsOK

\* Whatever way the runner returns (output, or an error from any step), the
\* leader is dead and reaped and no process of its group survives; only
\* processes that left the group may (run_owned_process, OwnedProcess::drop).
CleanReturn ==
  pc = "done" =>
    /\ reaped
    /\ \A p \in Procs : Live(p) => pgrp[p] = "other" /\ p # Leader

\* A signal is only sent, and the terminal only handled, while the unreaped
\* leader still pins its process and group ids (OwnedProcess::signal_with).
PinnedIdentity ==
  (pc \in {"group", "leader", "restore", "dropTerminal"} \/ terminal = "active")
    => ~reaped

\* A live leader is sent SIGTERM as an escalation, or SIGKILL, only after a
\* repeated signal, a failed system call, or a forwarded cancellation whose
\* deadline ran out, and such a deadline is never set for a recorder or for
\* finalization work that began after the cancellation.
NoPrematureForce ==
  forced => \/ Repeated
            \/ result = "error"
            \/ forwarded /\ purpose # "Recording" /\ ~finalizing

\* Once the cancellation is forwarded a leader that is still alive has got it,
\* whether or not it left its group meanwhile, and a leader that stayed in its
\* group got it only once (signal_with: "a second send can run its handler
\* twice").
LeaderSignalled ==
  /\ (forwarded /\ Live(Leader) /\ pc \in {"reapable", "escalate", "drain", "feed",
                                          "decide", "watch"})
       => delivered > 0
  /\ delivered > 1 => pgrp[Leader] = "other"

\* Output is complete when the runner did not have to kill: everything the
\* child's processes wrote before their pipes closed has been captured.
OutputComplete ==
  (result = "output" /\ killed = NoTimer) => captured = sent

\* The child's stdin is closed with input left over only when a cancellation was
\* forwarded, the leader is gone, nobody can read it, or the runner gave up
\* (write_child_stdin keeps a pipe whose write would block).
InputNotCut ==
  (stdio.input /\ "stdin" \notin open /\ written < inputLen)
    => \/ forwarded \/ leader_completed \/ result = "error" \/ killed # NoTimer
       \/ Holders("stdin") = {}

\* After a successful run whose child was given the terminal, the foreground is
\* not left with the dead group, even if its processes grabbed it in between.
TerminalReturned == (result = "output" /\ terminal = "inactive") => fg # "child"

\* A stop is orderly: every leader is told before any is forced.
OrderlyStop == NoPrematureForce /\ LeaderSignalled

\* No pipe is cut short: neither the child's output nor its input.
PipesComplete == OutputComplete /\ InputNotCut

\* A command ends after a repeated signal, whatever its processes do; after a
\* forwarded cancellation, unless it is a recorder; and after its leader has
\* exited, even while escaped descendants hold its pipes open.
CommandStops ==
  (Repeated \/ (forwarded /\ purpose # "Recording") \/ pstate[Leader] = "dead") ~> pc = "done"
=============================================================================
