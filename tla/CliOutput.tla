----------------------------- MODULE CliOutput -----------------------------
(***************************************************************************)
(* The last part of a process: what a command returned is written to       *)
(* standard output through BufWriter, PipeWriter and CliWriter, and an     *)
(* exit code is chosen (run_cli_to_writers, output.rs, CliWriter, main).   *)
(* The other actors are the user's signals and the reader of the pipe.     *)
(* The Cargo wrapper (bin/cargo_pyroclast.rs) has neither buffer nor       *)
(* PipeWriter.  Output is counted in units; BufWriter is the standard      *)
(* library's and modelled from its use.                                    *)
(***************************************************************************)
EXTENDS Integers

CONSTANTS
    Length,      \* units of output
    BufCap,      \* capacity of the BufWriter
    PipeCap,     \* capacity of the pipe
    MaxSignals,  \* signals the user sends
    Fronts,      \* entry points explored, a subset of {"direct", "cargo"}
    Modes        \* results explored, a subset of AllModes

\* "ok": a command that succeeded with output.  "status": a profile whose
\* workload did not exit with 0.  "failed": a profile with --json that failed,
\* whose output is the JSON error.  "cut": a streamed fold that fails after it
\* wrote.  "stream": one that does not.
AllModes == {"ok", "status", "failed", "cut", "stream"}

Whole == {"ok", "status", "failed"}

ASSUME SizesAssumption == Length \in Nat /\ BufCap \in Nat \ {0} /\ PipeCap \in Nat \ {0}
ASSUME ModesAssumption == Modes \subseteq AllModes /\ Fronts \subseteq {"direct", "cargo"}
ASSUME SignalsAssumption == MaxSignals \in Nat

SIGINT == 2
WORKLOAD == 7    \* CliOutput.exit_code of mode "status"

VARIABLES
    front, mode,
    pc,        \* "produce", "write" ... "exit"
    caller,    \* who called CliWriter::write: "produce", "flush" or "drop"
    todo,      \* units the command has still to hand over
    buf,       \* units in the BufWriter, or in the slice being written
    sent,      \* units the pipe took
    pipe,      \* units in the pipe
    closed,    \* the reader is gone
    nonblock,  \* O_NONBLOCK of the shared open file description
    before,    \* history: O_NONBLOCK when the process started
    saved,     \* FileFlags.previous
    first, signals,
    broken,    \* PipeWriter.broken_pipe
    ret,       \* result of the last CliWriter::write
    result,    \* result of the command: "ok" or "err"
    code,      \* value of run(), then the exit code
    ioerror    \* history: a write failed for a reason of its own

vars == <<front, mode, pc, caller, todo, buf, sent, pipe, closed, nonblock, before,
          saved, first, signals, broken, ret, result, code, ioerror>>

channel == <<sent, pipe, closed>>
flags == <<nonblock, saved>>
fixed == <<front, mode, before>>
signal == <<first, signals>>

Init ==
    /\ front \in Fronts /\ mode \in (IF front = "cargo" THEN Modes \cap Whole ELSE Modes)
    /\ pc = "produce" /\ caller = "produce"
    /\ todo = Length /\ buf = 0
    /\ sent = 0 /\ pipe = 0 /\ closed = FALSE
    /\ before \in BOOLEAN /\ nonblock = before /\ saved = before
    /\ first = 0 /\ signals = 0
    /\ broken = FALSE /\ ret = "ok"
    /\ result = IF mode \in {"failed", "cut"} THEN "err" ELSE "ok"
    /\ code = 0
    /\ ioerror = FALSE

Cancelled == first # 0

\* cancellation.exit_code(): the signal decides, if there was one.
OrSignal(c) == IF Cancelled THEN 128 + first ELSE c

\* The exit code inside the result of the command.
CommandCode == IF mode = "status" THEN WORKLOAD ELSE 0

----------------------------------------------------------------------------
(* The environment.                                                         *)

Signal ==
    /\ signals < MaxSignals /\ pc # "exit"
    /\ signals' = signals + 1
    /\ first' = IF first = 0 THEN SIGINT ELSE first
    /\ UNCHANGED <<fixed, pc, caller, todo, buf, channel, flags, broken, ret, result, code, ioerror>>

ReaderDrains ==
    /\ ~closed /\ pipe > 0
    /\ pipe' = pipe - 1
    /\ UNCHANGED <<fixed, pc, caller, todo, buf, sent, closed, flags, signal, broken, ret, result, code, ioerror>>

ReaderCloses ==
    /\ ~closed /\ pc # "exit"
    /\ closed' = TRUE
    /\ UNCHANGED <<fixed, pc, caller, todo, buf, sent, pipe, flags, signal, broken, ret, result, code, ioerror>>

----------------------------------------------------------------------------
(* CliWriter::write, one step per system call or check.                     *)

\* The call: cancellation is checked before the flags are touched.
Enter ==
    /\ pc = "enter"
    /\ IF Cancelled THEN pc' = "back" /\ ret' = "cancelled" ELSE pc' = "flags" /\ UNCHANGED ret
    /\ UNCHANGED <<fixed, caller, todo, buf, channel, flags, signal, broken, result, code, ioerror>>

\* FileFlags::nonblocking, which may fail before anything is changed.
SetFlags ==
    /\ pc = "flags"
    /\ \/ /\ saved' = nonblock /\ nonblock' = TRUE
          /\ pc' = "look" /\ UNCHANGED <<ret, ioerror>>
       \/ /\ pc' = "back" /\ ret' = "io" /\ ioerror' = TRUE /\ UNCHANGED flags
    /\ UNCHANGED <<fixed, caller, todo, buf, channel, signal, broken, result, code>>

ReturnForgetful(r) ==
    ret' = r /\ pc' = "back" /\ UNCHANGED saved
    /\ nonblock' = IF r = "cancelled" THEN nonblock ELSE saved

\* The guard is dropped on every way out.
Return(r) == ret' = r /\ pc' = "back" /\ nonblock' = saved /\ UNCHANGED saved

LookNever ==
    /\ pc = "look" /\ pc' = "try"
    /\ UNCHANGED <<fixed, caller, todo, buf, channel, flags, signal, broken, ret, result, code, ioerror>>

\* check_output_cancellation at the head of the loop.
Look ==
    /\ pc = "look"
    /\ IF Cancelled THEN Return("cancelled") ELSE pc' = "try" /\ UNCHANGED <<flags, ret>>
    /\ UNCHANGED <<fixed, caller, todo, buf, channel, signal, broken, result, code, ioerror>>

\* n units go to the pipe.
Taken(n) == sent' = sent + n /\ pipe' = pipe + n /\ buf' = buf - n

\* write(2): some units, EPIPE, EAGAIN on a full pipe, or another error.  An
\* interrupted call starts the loop again.
TryWrite ==
    /\ pc = "try"
    /\ \/ /\ ~closed /\ pipe < PipeCap
          /\ \E n \in 1..(IF buf < PipeCap - pipe THEN buf ELSE PipeCap - pipe) : Taken(n)
          /\ Return("ok") /\ UNCHANGED ioerror
       \/ /\ closed
          /\ Return("pipe") /\ UNCHANGED <<sent, pipe, buf, ioerror>>
       \/ /\ ~closed /\ pipe = PipeCap
          /\ pc' = "poll" /\ UNCHANGED <<sent, pipe, buf, flags, ret, ioerror>>
       \/ /\ pc' = "look" /\ UNCHANGED <<sent, pipe, buf, flags, ret, ioerror>>
       \/ /\ Return("io") /\ ioerror' = TRUE /\ UNCHANGED <<sent, pipe, buf>>
    /\ UNCHANGED <<fixed, caller, todo, closed, signal, broken, result, code>>

\* poll returns when the pipe has room, when a signal comes or after 20 ms; or
\* it fails.
Poll ==
    /\ pc = "poll"
    /\ \/ pc' = "look" /\ UNCHANGED <<flags, ret, ioerror>>
       \/ Return("io") /\ ioerror' = TRUE
    /\ UNCHANGED <<fixed, caller, todo, buf, channel, signal, broken, result, code>>

----------------------------------------------------------------------------
(* The callers.                                                             *)

Call(who) == pc' = "enter" /\ caller' = who

\* BufWriter takes what fits and writes when it is full; the Cargo wrapper
\* hands its text to write_all.
Produce ==
    /\ pc = "produce" /\ todo > 0
    /\ IF front = "cargo" THEN buf' = todo /\ todo' = 0 /\ Call("produce")
       ELSE IF buf < BufCap THEN buf' = buf + 1 /\ todo' = todo - 1 /\ UNCHANGED <<pc, caller>>
       ELSE Call("produce") /\ UNCHANGED <<buf, todo>>
    /\ UNCHANGED <<fixed, channel, flags, signal, broken, ret, result, code, ioerror>>

\* The command has handed everything over.
Produced ==
    /\ pc = "produce" /\ todo = 0
    /\ pc' = "flush"
    /\ UNCHANGED <<fixed, caller, todo, buf, channel, flags, signal, broken, ret, result, code, ioerror>>

\* A partial write is continued by write_all and flush_buf.
Continue ==
    /\ pc = "back" /\ ret = "ok"
    /\ IF buf > 0 THEN Call(caller)
       ELSE /\ pc' = CASE caller = "produce" -> "produce"
                       [] caller = "flush" -> "inner"
                       [] caller = "drop" -> "exit?"
            /\ UNCHANGED caller
    /\ UNCHANGED <<fixed, todo, buf, channel, flags, signal, broken, ret, result, code, ioerror>>

\* An error while the command writes.  Only write_cli_output forgives a broken
\* pipe; the JSON error of a failed profile is written with `?`, in the Cargo
\* wrapper with `let _`; a stream fails.
ProduceFails ==
    /\ pc = "back" /\ ret # "ok" /\ caller = "produce"
    /\ broken' = (broken \/ (front = "direct" /\ ret = "pipe"))
    /\ todo' = 0
    /\ IF mode = "failed" THEN pc' = "leave" /\ code' = 1 /\ UNCHANGED result
       ELSE IF front = "cargo" /\ ret # "pipe" THEN pc' = "leave" /\ code' = 1 /\ UNCHANGED result
       ELSE /\ result' = IF mode \in Whole /\ ret = "pipe" THEN "ok" ELSE "err"
            /\ pc' = "flush" /\ UNCHANGED code
    /\ buf' = IF front = "cargo" THEN 0 ELSE buf
    /\ UNCHANGED <<fixed, caller, channel, flags, signal, ret, ioerror>>

BrokenPipeZero == OrSignal(0)

\* What a broken pipe makes of the result: `result.unwrap_or(0)`.
BrokenPipeCode == OrSignal(IF result = "ok" THEN CommandCode ELSE 0)

\* An error that leaves through process::exit before the flush.
FlushSkipped ==
    /\ pc = "flush"
    /\ IF broken THEN code' = BrokenPipeCode /\ pc' = "leave" /\ UNCHANGED caller
       ELSE IF result = "err" THEN code' = 1 /\ pc' = "exit?" /\ UNCHANGED caller
       ELSE IF buf > 0 THEN Call("flush") /\ UNCHANGED code
       ELSE pc' = "inner" /\ UNCHANGED <<caller, code>>
    /\ UNCHANGED <<fixed, todo, buf, channel, flags, signal, broken, ret, result, ioerror>>

\* run_cli_to_writers after the command: a broken pipe ends it, else it flushes,
\* also after an error.
Flush ==
    /\ pc = "flush"
    /\ IF broken THEN code' = BrokenPipeCode /\ pc' = "leave" /\ UNCHANGED caller
       ELSE IF buf > 0 THEN Call("flush") /\ UNCHANGED code
       ELSE pc' = "inner" /\ UNCHANGED <<caller, code>>
    /\ UNCHANGED <<fixed, todo, buf, channel, flags, signal, broken, ret, result, ioerror>>

\* A flush that fails for another reason than a closed pipe is an error.
FlushFails ==
    /\ pc = "back" /\ ret # "ok" /\ caller = "flush"
    /\ broken' = (ret = "pipe")
    /\ code' = IF ret = "pipe" THEN BrokenPipeCode ELSE 1
    /\ pc' = "leave"
    /\ UNCHANGED <<fixed, caller, todo, buf, channel, flags, signal, ret, result, ioerror>>

\* CliWriter::flush, then the code of the command.
InnerFlush ==
    /\ pc = "inner"
    /\ code' = IF Cancelled \/ result = "err" THEN 1 ELSE CommandCode
    /\ pc' = "leave"
    /\ UNCHANGED <<fixed, caller, todo, buf, channel, flags, signal, broken, ret, result, ioerror>>

\* Dropping the BufWriter writes what it still holds and forgets an error.
Leave ==
    /\ pc = "leave"
    /\ IF buf > 0 THEN Call("drop") ELSE pc' = "exit?" /\ UNCHANGED caller
    /\ UNCHANGED <<fixed, todo, buf, channel, flags, signal, broken, ret, result, code, ioerror>>

DropFails ==
    /\ pc = "back" /\ ret # "ok" /\ caller = "drop"
    /\ pc' = "exit?"
    /\ UNCHANGED <<fixed, caller, todo, buf, channel, flags, signal, broken, ret, result, code, ioerror>>

\* main: the cancellation decides the exit code.
Exit ==
    /\ pc = "exit?"
    /\ code' = OrSignal(code)
    /\ pc' = "exit"
    /\ UNCHANGED <<fixed, caller, todo, buf, channel, flags, signal, broken, ret, result, ioerror>>

Process ==
    \/ Enter \/ SetFlags \/ Look \/ TryWrite \/ Poll \/ Produce \/ Produced
    \/ Continue \/ ProduceFails \/ Flush \/ FlushFails \/ InnerFlush \/ Leave
    \/ DropFails \/ Exit

Next == Process \/ Signal \/ ReaderDrains \/ ReaderCloses

Spec == Init /\ [][Next]_vars

\* The process is scheduled and its system calls return, because none of them
\* blocks longer than poll's 20 ms; a signal does not interrupt every write.
Fairness == WF_vars(Process)

FairSpec == Spec /\ Fairness

----------------------------------------------------------------------------
(* Properties.                                                              *)

SwitchesOK ==
    /\ closed \in BOOLEAN /\ broken \in BOOLEAN /\ ioerror \in BOOLEAN
    /\ nonblock \in BOOLEAN /\ before \in BOOLEAN /\ saved \in BOOLEAN

\* Every variable stays in its domain; exit codes fit into a byte.
TypeOK ==
    /\ front \in {"direct", "cargo"} /\ mode \in AllModes
    /\ pc \in {"produce", "enter", "flags", "look", "try", "poll", "back", "flush",
               "inner", "leave", "exit?", "exit"}
    /\ caller \in {"produce", "flush", "drop"}
    /\ SwitchesOK
    /\ todo \in 0..Length /\ buf \in 0..Length
    /\ sent \in 0..Length /\ pipe \in 0..PipeCap
    /\ first \in {0, SIGINT} /\ signals \in 0..MaxSignals
    /\ ret \in {"ok", "pipe", "cancelled", "io"} /\ result \in {"ok", "err"}
    /\ code \in 0..255

\* The descriptor is shared with the shell and with other processes: outside of a
\* write its O_NONBLOCK is what it was, on every path out of a write.
FlagsRestored == pc \notin {"look", "try", "poll"} => nonblock = before

\* Partial writes neither lose nor repeat a unit: what the pipe took, what is
\* buffered and what is to come add up until a failure cuts the output.
NothingTwice ==
    /\ sent + buf + todo <= Length
    /\ ~closed /\ first = 0 /\ ~ioerror => sent + buf + todo = Length

\* What was produced before a parse error, and the text of an error, reach a
\* reader that stays.
ErrorTextDelivered ==
    pc = "exit" /\ ~closed /\ first = 0 /\ ~ioerror => sent = Length

\* The output is exact: each unit once and all of it, and every variable, exit
\* codes included, in its domain.
OutputExact == TypeOK /\ NothingTwice /\ ErrorTextDelivered

\* Exit code 0 with a reader that stayed means that it was given everything.
ZeroMeansDelivered == pc = "exit" /\ code = 0 /\ ~closed => sent = Length

\* A reader that closes the pipe at any time does not hide that the workload
\* failed, if no write fails for another reason.
StatusKept == pc = "exit" /\ mode = "status" /\ ~ioerror => code # 0

\* Exit code 0 is earned: by output that was delivered to a reader that stayed,
\* and by a workload that succeeded, whether or not the reader stayed.
ZeroEarned == ZeroMeansDelivered /\ StatusKept

\* A failed profile exits with a nonzero status, whatever happens to its output.
FailedNonzero == pc = "exit" /\ mode = "failed" => code # 0

\* A signal ends the process even if the reader never reads again.
CancelEnds == first # 0 ~> pc = "exit"

============================================================================
