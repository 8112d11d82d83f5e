--------------------------- MODULE CommandSession ---------------------------
(***************************************************************************)
(* CommandSession of src/process/session.rs: a long-lived helper process   *)
(* answers newline-framed requests over its pipes.  Nothing in the pipes   *)
(* says which request a line answers, so the session must never let a      *)
(* late, an unsolicited or a partial reply pass for the next one: it       *)
(* refuses output queued before a request, counts lines, and closes for    *)
(* good on any failure.                                                    *)
(*                                                                         *)
(* The helper, the user's signals and time interleave with every step of   *)
(* exchange.  Bytes are chunks; a chunk remembers the exchange during      *)
(* which it was written (born) and the last request the helper had read in *)
(* full by then (req), which the session itself cannot see.                *)
(***************************************************************************)
EXTENDS Integers, Sequences, FiniteSets

CONSTANTS
  MaxExchanges,  \* bound on exchange_lines calls
  MaxLines,      \* largest line count asked for
  MaxChunks,     \* bound on the chunks the helper writes
  ReqLen,        \* chunks of a request
  StdinRoom,     \* chunks the stdin pipe holds
  DrainTurn,     \* reads per drain_pipe
  Timeout        \* ticks until the response deadline

ConstantsOK ==
  \A n \in {MaxExchanges, MaxLines, MaxChunks, ReqLen, StdinRoom, DrainTurn, Timeout} :
    n \in Nat \ {0}

VARIABLES
  behaved,                      \* the helper writes only the lines it was asked for
  signals, permits,             \* cancellation scope; purpose.permits_finalization()
  session, stdin, stdout,       \* CommandSession: process, stdin and stdout are Some
  pc, lines, finalizing, timer, \* exchange: step, arguments and locals
  written, response, received,
  replies,                      \* history: what each successful exchange returned
  calls,                        \* history: exchanges begun
  helper, inpipe, got, outpipe, \* the helper: state, request chunks queued and read,
  owed, spoken                  \*   its unread output, lines it still owes, chunks written

callVars   == <<lines, finalizing, timer, written, response, received>>
ownVars    == <<session, stdin, stdout>>
helperVars == <<helper, inpipe, got, outpipe, owed, spoken>>
vars == <<behaved, signals, permits, ownVars, pc, callVars, replies, calls, helperVars>>

Chunk == [born : Nat, req : Nat, nl : BOOLEAN]
Min2(a, b) == IF a < b THEN a ELSE b
Newlines(s) == Cardinality({i \in DOMAIN s : s[i].nl})

Cancelled == signals > 0
Repeated  == signals > 1

UserSignal ==
  /\ signals < 2
  /\ signals' = signals + 1
  /\ UNCHANGED <<permits, behaved, ownVars, pc, callVars, replies, calls, helperVars>>

-----------------------------------------------------------------------------
(* Opening and closing. *)

\* start_session and CommandSession::start: the same cancellation checks as any
\* command; a failing fcntl drops the owned child again.
Start ==
  /\ session = "none"
  /\ \/ /\ ~(Cancelled /\ (~permits \/ Repeated))
        /\ session' = "open" /\ stdin' = TRUE /\ stdout' = TRUE /\ helper' = "alive"
     \/ session' = "refused" /\ UNCHANGED <<stdin, stdout, helper>>
  /\ UNCHANGED <<signals, permits, behaved, pc, callVars, replies, calls, inpipe, got,
                 outpipe, owed, spoken>>

\* Every error of exchange drops the pipes and then the process, whose Drop kills
\* and reaps the group.
Closes ==
  /\ pc' = "idle"
  /\ session' = "closed" /\ stdin' = FALSE /\ stdout' = FALSE
  /\ helper' = "reaped" /\ inpipe' = 0 /\ outpipe' = <<>>

FailExchange ==
  /\ Closes
  /\ UNCHANGED <<signals, permits, behaved, callVars, replies, calls, got, owed, spoken>>

Drop ==
  /\ session = "open" /\ pc = "idle"
  /\ FailExchange

-----------------------------------------------------------------------------
(* exchange_lines. *)

\* n = 0 stands for an empty request or a zero line count.
Begin(n) ==
  /\ pc = "idle" /\ calls < MaxExchanges
  /\ session \in {"open", "closed"}
  /\ calls' = calls + 1
  /\ IF session = "closed" \/ n = 0
       THEN /\ Closes
            /\ UNCHANGED callVars
       ELSE /\ pc' = "check"
            /\ lines' = n /\ timer' = Timeout
            /\ finalizing' = (permits /\ Cancelled)
            /\ written' = 0 /\ response' = <<>> /\ received' = 0
            /\ UNCHANGED <<ownVars, helper, inpipe, outpipe>>
  /\ UNCHANGED <<signals, permits, behaved, replies, got, owed, spoken>>

Interrupted == Cancelled /\ (~finalizing \/ Repeated)

\* Mutant: the deadline is never looked at.
NeverTimedOut == FALSE
TimedOut == timer = 0

\* The top of the loop: cancellation, then the deadline.
Check ==
  /\ pc = "check"
  /\ IF Interrupted \/ TimedOut
       THEN FailExchange
       ELSE /\ pc' = "before"
            /\ UNCHANGED <<signals, permits, behaved, ownVars, callVars, replies, calls,
                           helperVars>>

\* drain_pipe: at most DrainTurn reads; end of file once the helper is gone.
Taken == IF stdout THEN SubSeq(outpipe, 1, Min2(DrainTurn, Len(outpipe))) ELSE <<>>
Left  == IF stdout THEN SubSeq(outpipe, Len(Taken) + 1, Len(outpipe)) ELSE outpipe
AtEof == Len(outpipe) < DrainTurn /\ helper # "alive"

\* Until the first byte of the request is out, any output is unsolicited.
\* Mutant: the look before the request is skipped.
NeverUnsolicited == FALSE
Unsolicited == written = 0 /\ Taken # <<>>

Before ==
  /\ pc = "before"
  /\ IF Unsolicited
       THEN FailExchange
       ELSE /\ pc' = "write"
            /\ stdout' = (stdout /\ ~(written = 0 /\ AtEof))
            /\ UNCHANGED <<signals, permits, behaved, session, stdin, callVars, replies,
                           calls, helperVars>>

Writes == Min2(ReqLen - written, StdinRoom - inpipe)

\* write_request: nothing left, what fits, or EPIPE when the helper is gone.
WriteRequest ==
  /\ pc = "write"
  /\ IF written < ReqLen /\ helper # "alive"
       THEN FailExchange
       ELSE /\ pc' = "receive"
            /\ written' = written + Writes
            /\ inpipe' = inpipe + Writes
            /\ UNCHANGED <<signals, permits, behaved, ownVars, lines, finalizing, timer,
                           response, received, replies, calls, helper, got,
                           outpipe, owed, spoken>>

Enough(n) == n >= lines

\* validate_response_framing.
WellFramed(r, n) == n = lines /\ r[Len(r)].nl /\ written = ReqLen

\* The drain, the count, the validation and the end-of-file check.  The chunks
\* read before a failure are gone with the session.
Receive ==
  /\ pc = "receive"
  /\ LET r == response \o Taken
         n == received + Newlines(Taken)
     IN IF Enough(n)
          THEN IF WellFramed(r, n)
                 THEN /\ pc' = "idle"
                      /\ replies' = Append(replies, [call |-> calls, chunks |-> r])
                      /\ outpipe' = Left
                      /\ stdout' = (stdout /\ ~AtEof)
                      /\ UNCHANGED <<signals, permits, behaved, session, stdin, callVars, calls,
                                     helper, inpipe, got, owed, spoken>>
                 ELSE FailExchange
          ELSE IF ~stdout \/ AtEof
                 THEN FailExchange
                 ELSE /\ pc' = "check"
                      /\ response' = r /\ received' = n
                      /\ outpipe' = Left
                      /\ UNCHANGED <<signals, permits, behaved, ownVars, lines, finalizing, timer,
                                     written, replies, calls, helper, inpipe, got, owed, spoken>>

\* Any fcntl, read, write or poll of the loop may fail.
IoFails ==
  /\ pc \in {"before", "write", "receive"}
  /\ FailExchange

-----------------------------------------------------------------------------
(* The helper and the clock. *)

ownerVars == <<signals, permits, behaved, ownVars, pc, callVars, replies, calls>>

HelperReads ==
  /\ helper = "alive" /\ inpipe > 0
  /\ inpipe' = inpipe - 1
  /\ got' = got + 1
  /\ behaved => owed = 0
  /\ owed' = IF (got + 1) % ReqLen = 0 THEN lines ELSE owed
  /\ UNCHANGED <<ownerVars, helper, outpipe, spoken>>

\* The request being owed is the last one read in full.
Answering == got \div ReqLen

HelperWrites(nl) ==
  /\ helper = "alive" /\ spoken < MaxChunks
  /\ behaved => owed > 0
  /\ outpipe' = Append(outpipe, [born |-> calls, req |-> Answering, nl |-> nl])
  /\ spoken' = spoken + 1
  /\ owed' = IF nl /\ owed > 0 THEN owed - 1 ELSE owed
  /\ UNCHANGED <<ownerVars, helper, inpipe, got>>

HelperExits ==
  /\ helper = "alive"
  /\ helper' = "dead"
  /\ UNCHANGED <<ownerVars, inpipe, got, outpipe, owed, spoken>>

Tick ==
  /\ pc = "check" /\ timer > 0
  /\ timer' = timer - 1
  /\ UNCHANGED <<signals, permits, behaved, ownVars, pc, lines, finalizing, written, response,
                 received, replies, calls, helperVars>>

-----------------------------------------------------------------------------
Init ==
  /\ behaved \in BOOLEAN /\ signals = 0 /\ permits \in BOOLEAN
  /\ session = "none" /\ stdin = FALSE /\ stdout = FALSE
  /\ pc = "idle" /\ lines = 0 /\ finalizing = FALSE /\ timer = 0
  /\ written = 0 /\ response = <<>> /\ received = 0
  /\ replies = <<>> /\ calls = 0
  /\ helper = "none" /\ inpipe = 0 /\ got = 0 /\ outpipe = <<>> /\ owed = 0 /\ spoken = 0

Session == Start \/ Check \/ Before \/ WriteRequest \/ Receive \/ IoFails
Caller  == Drop \/ \E n \in 0 .. MaxLines : Begin(n)
Helper  == HelperReads \/ HelperExits \/ \E nl \in BOOLEAN : HelperWrites(nl)

Next == Session \/ Caller \/ Helper \/ UserSignal \/ Tick

Spec == Init /\ [][Next]_vars

\* The calling thread runs and, while it loops, time passes.
FairSpec == Spec /\ WF_vars(Session) /\ SF_vars(Tick)

-----------------------------------------------------------------------------
(* Properties. *)

\* Every variable keeps its type, a request is never overwritten and a response
\* never counts more lines than it holds.
TypeOK ==
  /\ behaved \in BOOLEAN /\ signals \in 0 .. 2 /\ permits \in BOOLEAN
  /\ session \in {"none", "refused", "open", "closed"}
  /\ stdin \in BOOLEAN /\ stdout \in BOOLEAN
  /\ pc \in {"idle", "check", "before", "write", "receive"}
  /\ lines \in 0 .. MaxLines /\ finalizing \in BOOLEAN /\ timer \in 0 .. Timeout
  /\ written \in 0 .. ReqLen /\ response \in Seq(Chunk) /\ received = Newlines(response)
  /\ calls \in 0 .. MaxExchanges
  /\ replies \in Seq([call : 1 .. MaxExchanges, chunks : Seq(Chunk)])
  /\ helper \in {"none", "alive", "dead", "reaped"}
  /\ inpipe \in 0 .. StdinRoom /\ got \in Nat /\ owed \in 0 .. MaxLines /\ spoken \in 0 .. MaxChunks
  /\ outpipe \in Seq(Chunk)

\* Output that was in the pipe before exchange_lines was called never becomes
\* part of its answer, whatever the helper does ("Output already queued before a
\* request is unsolicited and closes the session rather than becoming that
\* reply").
QueuedNeverReply ==
  \A i \in DOMAIN replies : \A j \in DOMAIN replies[i].chunks :
    replies[i].chunks[j].born = replies[i].call

\* If the helper only answers what it is asked, each reply answers the request
\* it is returned for, even when earlier exchanges timed out or were cancelled
\* with their answer still on the way.
ReplyAnswersRequest ==
  behaved =>
    \A i \in DOMAIN replies : \A j \in DOMAIN replies[i].chunks :
      replies[i].chunks[j].req = replies[i].call

\* With such a helper a session left open for the next request is in step: no
\* part of a reply is left in the pipe.
InStep == (behaved /\ session = "open" /\ pc = "idle") => outpipe = <<>>

\* A session that is not open owns no process: the helper was never started or
\* has been killed and reaped.
ClosedIsReaped == session # "open" => helper \in {"none", "reaped"}

\* No successful exchange after a failed one: the calls that succeeded are a
\* prefix of the calls made ("later calls cannot retry a partially consumed
\* protocol").
NoRetry == \A i \in DOMAIN replies : replies[i].call = i

\* Every exchange ends, with an answer, an error or at its deadline, even if the
\* helper never reads, never answers or never stops writing.
ExchangeEnds == (pc # "idle") ~> (pc = "idle")

\* What exchange_lines returns is the answer to what it was asked.
RepliesAnswer == QueuedNeverReply /\ ReplyAnswersRequest /\ InStep

\* A failed exchange ends the session for good: its helper is reaped and no later
\* call succeeds; and the variables keep their types.
FailureCloses == TypeOK /\ ClosedIsReaped /\ NoRetry
=============================================================================
