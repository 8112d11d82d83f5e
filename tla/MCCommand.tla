----------------------------- MODULE MCCommand -----------------------------
(***************************************************************************)
(* One command of the program at a time: its output (CliOutput), a profile *)
(* run (ProfileRun), a supervised workload (OffcpuLaunch), a session with  *)
(* a helper (CommandSession) or the cancellation scopes of the threads     *)
(* that run commands (CancellationScopes), on small instances.  They are   *)
(* checked in one run; `part` says which of them runs, and the others rest *)
(* in one initial state.  A part is instantiated from the module of its    *)
(* proofs if it has one, so that what is proved of it holds of the suite   *)
(* (CommandProofs, which proves the other parts).                          *)
(***************************************************************************)
EXTENDS CliOutput, Sequences, FiniteSets

CONSTANTS
  MaxExchanges, MaxLines, MaxChunks, ReqLen, StdinRoom, DrainTurn, Timeout,
  \* The constants above are CommandSession's; the Statuses of OffcpuLaunch:
  WorkloadStatuses,
  Threads, Main, MaxNested, MaxStates  \* of CancellationScopes

VARIABLES
  part,
  profile_req, profile_backend, profile_todo, profile_first,
  profile_signals, profile_depth, profile_cached, profile_files,
  profile_live, profile_shield, profile_rec, profile_snapshot,
  profile_evidence, profile_result, profile_code, profile_cause,
  profile_fault,
  session_behaved, session_signals, session_permits, session_session,
  session_stdin, session_stdout, session_pc, session_lines,
  session_finalizing, session_timer, session_written, session_response,
  session_received, session_replies, session_calls, session_helper,
  session_inpipe, session_got, session_outpipe, session_owed, session_spoken,
  launch_pc, launch_pending, launch_bang, launch_workload, launch_child,
  launch_obstinate, launch_status, launch_file, launch_recorder,
  launch_limited, launch_cancelled, launch_outcome, launch_signals,
  launch_told, launch_alone,
  scope_first, scope_signals, scope_registered, scope_current, scope_scopes,
  scope_entering, scope_finalizing, scope_made, scope_running, scope_sent,
  scope_early, scope_heard

profileVars ==
  <<profile_req, profile_backend, profile_todo, profile_first,
    profile_signals, profile_depth, profile_cached, profile_files,
    profile_live, profile_shield, profile_rec, profile_snapshot,
    profile_evidence, profile_result, profile_code, profile_cause,
    profile_fault>>
sessionVars ==
  <<session_behaved, session_signals, session_permits, session_session,
    session_stdin, session_stdout, session_pc, session_lines,
    session_finalizing, session_timer, session_written, session_response,
    session_received, session_replies, session_calls, session_helper,
    session_inpipe, session_got, session_outpipe, session_owed,
    session_spoken>>
launchVars ==
  <<launch_pc, launch_pending, launch_bang, launch_workload, launch_child,
    launch_obstinate, launch_status, launch_file, launch_recorder,
    launch_limited, launch_cancelled, launch_outcome, launch_signals,
    launch_told, launch_alone>>
scopeVars ==
  <<scope_first, scope_signals, scope_registered, scope_current,
    scope_scopes, scope_entering, scope_finalizing, scope_made,
    scope_running, scope_sent, scope_early, scope_heard>>
suiteVars == <<part, vars, profileVars, sessionVars, launchVars, scopeVars>>

\* Plain requests of every backend, and each oddity with one or two of them.
MCRequests ==
  LET P == [backend : {"perf", "heaptrack", "strace", "sched", "bpftrace", "xctrace", "auto"},
            misfit : BOOLEAN, cargo : BOOLEAN, inferno : BOOLEAN]
  IN {r \in P :
        /\ r.misfit => ~r.cargo /\ ~r.inferno /\ r.backend \in {"heaptrack", "auto"}
        /\ r.cargo => ~r.inferno /\ r.backend \in {"perf", "strace"}
        /\ r.inferno => r.backend = "perf"}

Profile == INSTANCE ProfileRunProofs WITH
  Requests <- MCRequests, MaxSignals <- MaxSignals, req <- profile_req,
  backend <- profile_backend, todo <- profile_todo, first <- profile_first,
  signals <- profile_signals, depth <- profile_depth, cached <-
  profile_cached, files <- profile_files, live <- profile_live, shield <-
  profile_shield, rec <- profile_rec, snapshot <- profile_snapshot, evidence
  <- profile_evidence, result <- profile_result, code <- profile_code, cause
  <- profile_cause, fault <- profile_fault

Helper == INSTANCE CommandSession WITH
  behaved <- session_behaved, signals <- session_signals, permits <-
  session_permits, session <- session_session, stdin <- session_stdin,
  stdout <- session_stdout, pc <- session_pc, lines <- session_lines,
  finalizing <- session_finalizing, timer <- session_timer, written <-
  session_written, response <- session_response, received <-
  session_received, replies <- session_replies, calls <- session_calls,
  helper <- session_helper, inpipe <- session_inpipe, got <- session_got,
  outpipe <- session_outpipe, owed <- session_owed, spoken <- session_spoken

Launch == INSTANCE OffcpuLaunch WITH
  Statuses <- WorkloadStatuses,
  pc <- launch_pc, pending <- launch_pending, bang <- launch_bang, workload
  <- launch_workload, child <- launch_child, obstinate <- launch_obstinate,
  status <- launch_status, file <- launch_file, recorder <- launch_recorder,
  limited <- launch_limited, cancelled <- launch_cancelled, outcome <-
  launch_outcome, signals <- launch_signals, told <- launch_told, alone <-
  launch_alone

Scopes == INSTANCE CancellationScopes WITH
  first <- scope_first, signals <- scope_signals, registered <-
  scope_registered, current <- scope_current, scopes <- scope_scopes,
  entering <- scope_entering, finalizing <- scope_finalizing, made <-
  scope_made, running <- scope_running, sent <- scope_sent, early <-
  scope_early, heard <- scope_heard

ASSUME LaunchConstants == Launch!LaunchAssumption
ASSUME ProfileConstants == Profile!RequestsAssumption /\ Profile!SignalsAssumption
ASSUME HelperConstants == Helper!ConstantsOK
ASSUME ScopeConstants == Scopes!ScopesAssumption

MCInit ==
  /\ part \in {"output", "profile", "session", "launch", "scopes"}
  /\ Init /\ Profile!Init /\ Helper!Init /\ Launch!Init /\ Scopes!Init
  /\ part # "output" => front = "direct" /\ mode = "ok" /\ ~before
  /\ part # "profile" =>
       /\ profile_req = [backend |-> "perf", misfit |-> FALSE, cargo |-> FALSE, inferno |-> FALSE]
       /\ profile_files["run"] = "none"
  /\ part # "launch" => ~launch_obstinate
  /\ part # "session" => ~session_behaved /\ ~session_permits

OutputStep(step) ==
  part = "output" /\ step /\ UNCHANGED <<part, profileVars, sessionVars, launchVars, scopeVars>>
SessionStep(step) ==
  part = "session" /\ step /\ UNCHANGED <<part, vars, profileVars, launchVars, scopeVars>>

MCNext ==
  \/ OutputStep(Next)
  \/ part = "profile" /\ Profile!Next /\ UNCHANGED <<part, vars, sessionVars, launchVars, scopeVars>>
  \/ part = "launch" /\ Launch!Next /\ UNCHANGED <<part, vars, profileVars, sessionVars, scopeVars>>
  \/ part = "scopes" /\ Scopes!Next /\ UNCHANGED <<part, vars, profileVars, sessionVars, launchVars>>
  \/ SessionStep(Helper!Next)

\* The fairness of CliOutput and of CommandSession.
MCSpec ==
  /\ MCInit /\ [][MCNext]_suiteVars
  /\ WF_suiteVars(OutputStep(Process))
  /\ WF_suiteVars(SessionStep(Helper!Session))
  /\ SF_suiteVars(SessionStep(Helper!Tick))

-----------------------------------------------------------------------------
(* The properties of the instances, under this suite's variables; those of   *)
(* CliOutput come with it.                                                   *)

\* A run.json of this run names only complete files of this run; a failed run
\* leaves no manifest and nothing of an earlier run that passes for its result.
ArtifactsTruthful == Profile!ArtifactsTruthful

\* When the workload starts the directory is clear and every tool that finalizes
\* the recording has been found.
RecordingPrepared == Profile!RecordingPrepared

\* One signal that stops the recorder does not cost the recording: the run is
\* finalized and its manifest written.
Finalized == Profile!Finalized

\* Exit code 0 means a manifest, and evidence that the workload succeeded or was
\* meant to be stopped.
ExitHonest == Profile!ExitHonest

\* Output queued before exchange_lines is called never becomes part of its answer;
\* if the helper only answers what it is asked, each reply answers the request it
\* is returned for, and an open session has no part of a reply in the pipe.  A
\* failed exchange ends the session for good: its helper is killed and reaped, and
\* no later call succeeds.
RepliesAnswer == Helper!RepliesAnswer /\ Helper!FailureCloses

\* However signals, the recorder and the workload meet, the supervisor that ends
\* by itself leaves no workload and a whole status file, and what the profile says
\* of the workload is what happened to it.
WorkloadAccounted == Launch!WorkloadAccounted

\* Every scope of a thread reads the first and the number of the signals sent
\* since its outermost one was entered; handlers are registered exactly for the
\* outermost scopes held; a cancelled thread records nothing more.
ScopesExact == Scopes!ScopesExact

\* Every exchange ends, with an answer, an error or at its deadline, even if the
\* helper never reads, never answers or never stops writing.
ExchangeEnds == Helper!ExchangeEnds
=============================================================================
