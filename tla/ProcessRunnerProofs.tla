------------------------ MODULE ProcessRunnerProofs ------------------------
(***************************************************************************)
(* Proofs about ProcessRunner, for any number of descendants, pipes,       *)
(* signals, chunks and any deadlines.                                      *)
(*                                                                         *)
(* CleanReturn is not inductive: that nothing of the group survives the    *)
(* return rests on what the last SIGKILL did two steps earlier, and on the *)
(* fact that nobody who left the group comes back to it.  Flow says which  *)
(* signals are pending on the way out, Owned ties the reaped flag to the   *)
(* runner's step, and Cleaned carries the effect of the two kills.         *)
(***************************************************************************)
EXTENDS ProcessRunner, SequenceTheorems, TLAPS

Before == {"check1", "check2", "check3", "spawn"}
Sending == {"group", "leader"}
LeavingBy == {"restore", "wait"}

\* The signals still to be sent, and where the runner goes on after them.
Flow ==
  pc \in Sending =>
    /\ todo # <<>>
    /\ ret \in {"serve", "reapable", "drain", "restore", "wait"}
    /\ ret \in LeavingBy => todo = <<"KILL">>

\* The child exists, unreaped, exactly between the spawn and the return.
Owned ==
  /\ reaped <=> pc \in Before \cup {"done"}
  /\ pc \in Before => \A p \in Procs : pstate[p] = "none"
  /\ pc \notin Before \cup {"done"} => pstate[Leader] # "none"

GroupGone == \A p \in Procs : Live(p) => pgrp[p] = "other"

Cleaned ==
  /\ (pc = "leader" /\ ret \in LeavingBy) => GroupGone
  /\ pc \in LeavingBy => GroupGone /\ pstate[Leader] = "dead"
  /\ pc = "done" => GroupGone /\ ~Live(Leader)

\* The terminal guard is disarmed on every way out.
Disarmed ==
  (pc \in Before \cup {"handoff", "wait", "done"} \/ (pc \in Sending /\ ret = "wait"))
    => terminal # "active"

IInv == TypeOK /\ Flow /\ Owned /\ Cleaned /\ Disarmed
-----------------------------------------------------------------------------
USE DEF vars, scopeVars, specVars, stepVars, stopVars, ioVars, ownVars, procVars,
        pipeVars, histVars, runnerVars

\* Every queue of signals the runner builds is a nonempty sequence of signals.
LEMMA QueueFacts ==
  /\ <<>> \in Seq(Signals)
  /\ \A s \in Signals : <<s>> \in Seq(Signals) /\ <<s>> # <<>> /\ Len(<<s>>) = 1
  /\ \A s, t \in Signals : <<s, t>> \in Seq(Signals) /\ <<s, t>> # <<>>
  /\ \A q \in Seq(Signals) :
       q # <<>> => Tail(q) \in Seq(Signals) /\ (Len(q) # 1 => Tail(q) # <<>>)
<1>1. <<>> \in Seq(Signals)
  OBVIOUS
<1>2. ASSUME NEW s \in Signals
      PROVE  <<s>> \in Seq(Signals) /\ <<s>> # <<>> /\ Len(<<s>>) = 1
  OBVIOUS
<1>3. ASSUME NEW s \in Signals, NEW t \in Signals
      PROVE  <<s, t>> \in Seq(Signals) /\ <<s, t>> # <<>>
  OBVIOUS
<1>4. ASSUME NEW q \in Seq(Signals), q # <<>>
      PROVE  Tail(q) \in Seq(Signals) /\ (Len(q) # 1 => Tail(q) # <<>>)
  <2>1. Tail(q) \in Seq(Signals) /\ Len(Tail(q)) = Len(q) - 1
    BY <1>4, HeadTailProperties
  <2>2. Len(q) \in Nat /\ Len(<<>>) = 0
    OBVIOUS
  <2> QED BY <2>1, <2>2
<1> QED BY <1>1, <1>2, <1>3, <1>4

LEMMA InitIInv == Init => IInv
<1> SUFFICES ASSUME Init PROVE IInv
  OBVIOUS
<1>1. ScopeOK
  BY ConstantsOK DEF Init, ScopeOK, Causes, Purposes
<1>2. StepOK
  BY QueueFacts DEF Init, StepOK, Steps, Signals
<1>3. StopOK
  BY DEF Init, StopOK, NoTimer
<1>4. PipesOK
  BY ConstantsOK DEF Init, PipesOK, Ends
<1>5. ProcsOK
  BY DEF Init, ProcsOK, Procs, Ends
<1>6. Flow /\ Owned /\ Cleaned /\ Disarmed
  BY DEF Init, Flow, Owned, Cleaned, Disarmed, Before, Sending, LeavingBy, Leader, Procs
<1> QED
  BY <1>1, <1>2, <1>3, <1>4, <1>5, <1>6 DEF IInv, TypeOK

\* Each step of the runner keeps the invariant.
LEMMA RunnerIInv == IInv /\ Runner => IInv'
<1> SUFFICES ASSUME IInv, Runner PROVE IInv'
  OBVIOUS
<1> USE DEF Before, Sending, LeavingBy, Leader
<1> TypeOK /\ Flow /\ Owned /\ Cleaned /\ Disarmed
  BY DEF IInv
<1> ScopeOK /\ StepOK /\ StopOK /\ PipesOK /\ ProcsOK
  BY DEF TypeOK
<1>1. CASE CheckCancellation
  <2>1. ScopeOK' /\ StopOK' /\ PipesOK' /\ ProcsOK'
    BY <1>1 DEF CheckCancellation, ScopeOK, StopOK, PipesOK, ProcsOK
  <2>2. StepOK'
    BY <1>1, QueueFacts DEF CheckCancellation, Fail, StepOK, Steps, Signals,
       Causes
  <2>3. Flow'
    BY <1>1, QueueFacts DEF CheckCancellation, Fail, Flow, StepOK, ScopeOK,
       Signals, Causes
  <2>4. Owned'
    BY <1>1 DEF CheckCancellation, Fail, Owned, StepOK, ProcsOK, Flow, Procs
  <2>5. Cleaned'
    BY <1>1 DEF CheckCancellation, Fail, Cleaned, Owned, Flow, GroupGone, Live,
       StepOK, ProcsOK, Procs
  <2>6. Disarmed'
    BY <1>1 DEF CheckCancellation, Fail, Disarmed, Flow, StepOK, ProcsOK
  <2> QED
    BY <2>1, <2>2, <2>3, <2>4, <2>5, <2>6 DEF IInv, TypeOK
<1>2. CASE Spawn
  <2>1. ScopeOK' /\ StopOK' /\ PipesOK'
    BY <1>2 DEF Spawn, ScopeOK, StopOK, PipesOK
  <2>2. StepOK'
    BY <1>2, QueueFacts DEF Spawn, StepOK, Steps, Signals, Causes
  <2>3. ProcsOK'
    BY <1>2 DEF Spawn, ProcsOK, Procs, Ends, PipesOK
  <2>4. Flow'
    BY <1>2, QueueFacts DEF Spawn, Flow, StepOK, ScopeOK, Signals, Causes
  <2>5. Owned'
    BY <1>2 DEF Spawn, Owned, StepOK, ProcsOK, Flow, Procs
  <2>6. Cleaned'
    BY <1>2 DEF Spawn, Cleaned, Owned, Flow, GroupGone, Live, StepOK, ProcsOK,
       Procs
  <2>7. Disarmed'
    BY <1>2 DEF Spawn, Disarmed, Flow, StepOK, ProcsOK
  <2> QED
    BY <2>1, <2>2, <2>3, <2>4, <2>5, <2>6, <2>7 DEF IInv, TypeOK
<1>3. CASE SpawnFails
  <2>1. ScopeOK' /\ StopOK' /\ PipesOK' /\ ProcsOK'
    BY <1>3 DEF SpawnFails, ScopeOK, StopOK, PipesOK, ProcsOK
  <2>2. StepOK'
    BY <1>3, QueueFacts DEF SpawnFails, Fail, StepOK, Steps, Signals, Causes
  <2>3. Flow'
    BY <1>3, QueueFacts DEF SpawnFails, Fail, Flow, StepOK, ScopeOK, Signals,
       Causes
  <2>4. Owned'
    BY <1>3 DEF SpawnFails, Fail, Owned, StepOK, ProcsOK, Flow, Procs
  <2>5. Cleaned'
    BY <1>3 DEF SpawnFails, Fail, Cleaned, Owned, Flow, GroupGone, Live, StepOK,
       ProcsOK, Procs
  <2>6. Disarmed'
    BY <1>3 DEF SpawnFails, Fail, Disarmed, Flow, StepOK, ProcsOK
  <2> QED
    BY <2>1, <2>2, <2>3, <2>4, <2>5, <2>6 DEF IInv, TypeOK
<1>4. CASE Handoff
  <2>1. ScopeOK' /\ StopOK' /\ PipesOK'
    BY <1>4 DEF Handoff, ScopeOK, StopOK, PipesOK
  <2>2. StepOK'
    BY <1>4, QueueFacts DEF Handoff, Send, StepOK, Steps, Signals, Causes
  <2>3. ProcsOK'
    BY <1>4 DEF Handoff, Send, ProcsOK, Procs, Ends
  <2>4. Flow'
    BY <1>4, QueueFacts DEF Handoff, Send, Flow, StepOK, ScopeOK, Signals,
       Causes
  <2>5. Owned'
    BY <1>4 DEF Handoff, Send, Owned, StepOK, ProcsOK, Flow, Procs
  <2>6. Cleaned'
    BY <1>4 DEF Handoff, Send, Cleaned, Owned, Flow, GroupGone, Live, StepOK,
       ProcsOK, Procs
  <2>7. Disarmed'
    BY <1>4 DEF Handoff, Send, Disarmed, Flow, StepOK, ProcsOK
  <2> QED
    BY <2>1, <2>2, <2>3, <2>4, <2>5, <2>6, <2>7 DEF IInv, TypeOK
<1>5. CASE HandoffFails
  <2>1. ScopeOK' /\ StopOK' /\ PipesOK' /\ ProcsOK'
    BY <1>5 DEF HandoffFails, ScopeOK, StopOK, PipesOK, ProcsOK
  <2>2. StepOK'
    BY <1>5, QueueFacts DEF HandoffFails, Fail, StepOK, Steps, Signals, Causes
  <2>3. Flow'
    BY <1>5, QueueFacts DEF HandoffFails, Fail, Flow, StepOK, ScopeOK, Signals,
       Causes
  <2>4. Owned'
    BY <1>5 DEF HandoffFails, Fail, Owned, StepOK, ProcsOK, Flow, Procs
  <2>5. Cleaned'
    BY <1>5 DEF HandoffFails, Fail, Cleaned, Owned, Flow, GroupGone, Live,
       StepOK, ProcsOK, Procs
  <2>6. Disarmed'
    BY <1>5 DEF HandoffFails, Fail, Disarmed, Flow, StepOK, ProcsOK
  <2> QED
    BY <2>1, <2>2, <2>3, <2>4, <2>5, <2>6 DEF IInv, TypeOK
<1>6. CASE Serve
  <2>1. ScopeOK' /\ PipesOK' /\ ProcsOK'
    BY <1>6 DEF Serve, ScopeOK, PipesOK, ProcsOK
  <2>2. StepOK'
    BY <1>6, QueueFacts DEF Serve, PermitsFinalization, Cancelled, StepOK,
       Steps, Signals, Causes
  <2>3. StopOK'
    BY <1>6, ConstantsOK DEF Serve, PermitsFinalization, Cancelled, StopOK,
       NoTimer
  <2>4. Flow'
    BY <1>6, QueueFacts DEF Serve, PermitsFinalization, Cancelled, Flow, StepOK,
       ScopeOK, Signals, Causes
  <2>5. Owned'
    BY <1>6 DEF Serve, PermitsFinalization, Cancelled, Owned, StepOK, ProcsOK,
       Flow, Procs
  <2>6. Cleaned'
    BY <1>6 DEF Serve, PermitsFinalization, Cancelled, Cleaned, Owned, Flow,
       GroupGone, Live, StepOK, ProcsOK, Procs
  <2>7. Disarmed'
    BY <1>6 DEF Serve, PermitsFinalization, Cancelled, Disarmed, Flow, StepOK,
       ProcsOK
  <2> QED
    BY <2>1, <2>2, <2>3, <2>4, <2>5, <2>6, <2>7 DEF IInv, TypeOK
<1>7. CASE SignalGroup
  <2>1. ScopeOK' /\ PipesOK'
    BY <1>7 DEF SignalGroup, ScopeOK, PipesOK
  <2>2. StepOK'
    BY <1>7, QueueFacts DEF SignalGroup, Hit, Release, Note, Sig, StepOK, Steps,
       Signals, Causes, Flow
  <2>3. StopOK'
    BY <1>7, ConstantsOK DEF SignalGroup, Hit, Release, Note, Sig, StopOK,
       NoTimer
  <2>4. ProcsOK'
    BY <1>7 DEF SignalGroup, Hit, Release, Note, Sig, ProcsOK, Procs, Ends
  <2>5. Flow'
    BY <1>7, QueueFacts DEF SignalGroup, Hit, Release, Note, Sig, Group, Flow,
       StepOK, ScopeOK, Signals, Causes
  <2>6. Owned'
    BY <1>7 DEF SignalGroup, Hit, Release, Note, Sig, Group, Owned, StepOK,
       ProcsOK, Flow, Procs
  <2>7. Cleaned'
    BY <1>7 DEF SignalGroup, Hit, Release, Note, Sig, Group, Cleaned, Owned,
       Flow, GroupGone, Live, StepOK, ProcsOK, Procs
  <2>8. Disarmed'
    BY <1>7 DEF SignalGroup, Hit, Release, Note, Sig, Group, Disarmed, Flow,
       StepOK, ProcsOK
  <2> QED
    BY <2>1, <2>2, <2>3, <2>4, <2>5, <2>6, <2>7, <2>8 DEF IInv, TypeOK
<1>8. CASE SignalLeader
  <2>1. ScopeOK' /\ PipesOK'
    BY <1>8 DEF SignalLeader, ScopeOK, PipesOK
  <2>2. StepOK'
    BY <1>8, QueueFacts DEF SignalLeader, Hit, Release, Note, Sig, StepOK,
       Steps, Signals, Causes, Flow
  <2>3. StopOK'
    BY <1>8, ConstantsOK DEF SignalLeader, Hit, Release, Note, Sig, StopOK,
       NoTimer
  <2>4. ProcsOK'
    BY <1>8 DEF SignalLeader, Hit, Release, Note, Sig, ProcsOK, Procs, Ends
  <2>5. Flow'
    BY <1>8, QueueFacts DEF SignalLeader, Hit, Release, Note, Sig, Direct, Flow,
       StepOK, ScopeOK, Signals, Causes
  <2>6. Owned'
    BY <1>8 DEF SignalLeader, Hit, Release, Note, Sig, Direct, Owned, StepOK,
       ProcsOK, Flow, Procs
  <2>7. Cleaned'
    BY <1>8 DEF SignalLeader, Hit, Release, Note, Sig, Direct, Cleaned, Owned,
       Flow, GroupGone, Live, StepOK, ProcsOK, Procs
  <2>8. Disarmed'
    BY <1>8 DEF SignalLeader, Hit, Release, Note, Sig, Direct, Disarmed, Flow,
       StepOK, ProcsOK
  <2> QED
    BY <2>1, <2>2, <2>3, <2>4, <2>5, <2>6, <2>7, <2>8 DEF IInv, TypeOK
<1>9. CASE Forward
  <2>1. ScopeOK' /\ ProcsOK'
    BY <1>9 DEF Forward, ScopeOK, ProcsOK
  <2>2. StepOK'
    <3>1. Cancelled => first \in Signals
      BY DEF Cancelled, ScopeOK, Signals
    <3> QED
      BY <1>9, <3>1, QueueFacts DEF Forward, Send, StepOK, Steps, Signals
  <2>3. StopOK'
    BY <1>9, ConstantsOK DEF Forward, StopDeadline, Cancelled, Send, StopOK,
       NoTimer
  <2>4. PipesOK'
    BY <1>9, ConstantsOK DEF Forward, StopDeadline, Cancelled, Send, PipesOK,
       Ends, ScopeOK
  <2>5. Flow'
    BY <1>9, QueueFacts DEF Forward, StopDeadline, Cancelled, Send, Flow,
       StepOK, ScopeOK, Signals, Causes
  <2>6. Owned'
    BY <1>9 DEF Forward, StopDeadline, Cancelled, Send, Owned, StepOK, ProcsOK,
       Flow, Procs
  <2>7. Cleaned'
    BY <1>9 DEF Forward, StopDeadline, Cancelled, Send, Cleaned, Owned, Flow,
       GroupGone, Live, StepOK, ProcsOK, Procs
  <2>8. Disarmed'
    BY <1>9 DEF Forward, StopDeadline, Cancelled, Send, Disarmed, Flow, StepOK,
       ProcsOK
  <2> QED
    BY <2>1, <2>2, <2>3, <2>4, <2>5, <2>6, <2>7, <2>8 DEF IInv, TypeOK
<1>10. CASE Completed
  <2>1. ScopeOK' /\ ProcsOK'
    BY <1>10 DEF Completed, ScopeOK, ProcsOK
  <2>2. StepOK'
    BY <1>10, QueueFacts DEF Completed, StepOK, Steps, Signals, Causes
  <2>3. StopOK'
    BY <1>10, ConstantsOK DEF Completed, StopOK, NoTimer
  <2>4. PipesOK'
    BY <1>10, ConstantsOK DEF Completed, PipesOK, Ends
  <2>5. Flow'
    BY <1>10, QueueFacts DEF Completed, Flow, StepOK, ScopeOK, Signals, Causes
  <2>6. Owned'
    BY <1>10 DEF Completed, Owned, StepOK, ProcsOK, Flow, Procs
  <2>7. Cleaned'
    BY <1>10 DEF Completed, Cleaned, Owned, Flow, GroupGone, Live, StepOK,
       ProcsOK, Procs
  <2>8. Disarmed'
    BY <1>10 DEF Completed, Disarmed, Flow, StepOK, ProcsOK
  <2> QED
    BY <2>1, <2>2, <2>3, <2>4, <2>5, <2>6, <2>7, <2>8 DEF IInv, TypeOK
<1>11. CASE Escalate
  <2>1. ScopeOK' /\ PipesOK' /\ ProcsOK'
    BY <1>11 DEF Escalate, ScopeOK, PipesOK, ProcsOK
  <2>2. StepOK'
    BY <1>11, QueueFacts DEF Escalate, Send, StepOK, Steps, Signals, Causes
  <2>3. StopOK'
    BY <1>11, ConstantsOK DEF Escalate, Send, StopOK, NoTimer
  <2>4. Flow'
    BY <1>11, QueueFacts DEF Escalate, Send, Flow, StepOK, ScopeOK, Signals,
       Causes
  <2>5. Owned'
    BY <1>11 DEF Escalate, Send, Owned, StepOK, ProcsOK, Flow, Procs
  <2>6. Cleaned'
    BY <1>11 DEF Escalate, Send, Cleaned, Owned, Flow, GroupGone, Live, StepOK,
       ProcsOK, Procs
  <2>7. Disarmed'
    BY <1>11 DEF Escalate, Send, Disarmed, Flow, StepOK, ProcsOK
  <2> QED
    BY <2>1, <2>2, <2>3, <2>4, <2>5, <2>6, <2>7 DEF IInv, TypeOK
<1>12. CASE Drain
  <2>1. ScopeOK' /\ StopOK' /\ ProcsOK'
    BY <1>12 DEF Drain, ScopeOK, StopOK, ProcsOK
  <2>2. StepOK'
    BY <1>12, QueueFacts DEF Drain, Reads, Min2, StepOK, Steps, Signals, Causes
  <2>3. PipesOK'
    <3>1. \A o \in Outputs : Reads(o) \in Nat /\ buffered[o] - Reads(o) \in Nat
      BY ConstantsOK DEF Reads, Min2, PipesOK
    <3>2. captured' \in [Outputs -> Nat] /\ buffered' \in [Outputs -> Nat]
      BY <1>12, <3>1 DEF Drain, PipesOK
    <3> QED
      BY <1>12, <3>2 DEF Drain, PipesOK
  <2>4. Flow'
    BY <1>12, QueueFacts DEF Drain, Reads, Min2, Flow, StepOK, ScopeOK, Signals,
       Causes
  <2>5. Owned'
    BY <1>12 DEF Drain, Reads, Min2, Owned, StepOK, ProcsOK, Flow, Procs
  <2>6. Cleaned'
    BY <1>12 DEF Drain, Reads, Min2, Cleaned, Owned, Flow, GroupGone, Live,
       StepOK, ProcsOK, Procs
  <2>7. Disarmed'
    BY <1>12 DEF Drain, Reads, Min2, Disarmed, Flow, StepOK, ProcsOK
  <2> QED
    BY <2>1, <2>2, <2>3, <2>4, <2>5, <2>6, <2>7 DEF IInv, TypeOK
<1>13. CASE Feed
  <2>1. ScopeOK' /\ StopOK' /\ ProcsOK'
    BY <1>13 DEF Feed, ScopeOK, StopOK, ProcsOK
  <2>2. StepOK'
    BY <1>13, QueueFacts DEF Feed, Min2, StepOK, Steps, Signals, Causes, ScopeOK
  <2>3. PipesOK'
    BY <1>13, ConstantsOK DEF Feed, Min2, PipesOK, Ends, ScopeOK
  <2>4. Flow'
    BY <1>13, QueueFacts DEF Feed, Min2, Flow, StepOK, ScopeOK, Signals, Causes
  <2>5. Owned'
    BY <1>13 DEF Feed, Min2, Owned, StepOK, ProcsOK, Flow, Procs
  <2>6. Cleaned'
    BY <1>13 DEF Feed, Min2, Cleaned, Owned, Flow, GroupGone, Live, StepOK,
       ProcsOK, Procs
  <2>7. Disarmed'
    BY <1>13 DEF Feed, Min2, Disarmed, Flow, StepOK, ProcsOK
  <2> QED
    BY <2>1, <2>2, <2>3, <2>4, <2>5, <2>6, <2>7 DEF IInv, TypeOK
<1>14. CASE Decide
  <2>1. ScopeOK' /\ StopOK' /\ ProcsOK'
    BY <1>14 DEF Decide, ScopeOK, StopOK, ProcsOK
  <2>2. StepOK'
    BY <1>14, QueueFacts DEF Decide, Send, StepOK, Steps, Signals, Causes
  <2>3. PipesOK'
    BY <1>14, ConstantsOK DEF Decide, Send, PipesOK, Ends
  <2>4. Flow'
    BY <1>14, QueueFacts DEF Decide, Send, Flow, StepOK, ScopeOK, Signals,
       Causes
  <2>5. Owned'
    BY <1>14 DEF Decide, Send, Owned, StepOK, ProcsOK, Flow, Procs
  <2>6. Cleaned'
    BY <1>14 DEF Decide, Send, Cleaned, Owned, Flow, GroupGone, Live, StepOK,
       ProcsOK, Procs
  <2>7. Disarmed'
    BY <1>14 DEF Decide, Send, Disarmed, Flow, StepOK, ProcsOK
  <2> QED
    BY <2>1, <2>2, <2>3, <2>4, <2>5, <2>6, <2>7 DEF IInv, TypeOK
<1>15. CASE Restore
  <2>1. ScopeOK' /\ StopOK' /\ PipesOK'
    BY <1>15 DEF Restore, ScopeOK, StopOK, PipesOK
  <2>2. StepOK'
    BY <1>15, QueueFacts DEF Restore, Restored, Deactivated, StepOK, Steps,
       Signals, Causes
  <2>3. ProcsOK'
    BY <1>15 DEF Restore, Restored, Deactivated, ProcsOK, Procs, Ends
  <2>4. Flow'
    BY <1>15, QueueFacts DEF Restore, Restored, Deactivated, Flow, StepOK,
       ScopeOK, Signals, Causes
  <2>5. Owned'
    BY <1>15 DEF Restore, Restored, Deactivated, Owned, StepOK, ProcsOK, Flow,
       Procs
  <2>6. Cleaned'
    BY <1>15 DEF Restore, Restored, Deactivated, Cleaned, Owned, Flow,
       GroupGone, Live, StepOK, ProcsOK, Procs
  <2>7. Disarmed'
    BY <1>15 DEF Restore, Restored, Deactivated, Disarmed, Flow, StepOK, ProcsOK
  <2> QED
    BY <2>1, <2>2, <2>3, <2>4, <2>5, <2>6, <2>7 DEF IInv, TypeOK
<1>16. CASE RestoreFails
  <2>1. ScopeOK' /\ StopOK' /\ PipesOK' /\ ProcsOK'
    BY <1>16 DEF RestoreFails, ScopeOK, StopOK, PipesOK, ProcsOK
  <2>2. StepOK'
    BY <1>16, QueueFacts DEF RestoreFails, Fail, StepOK, Steps, Signals, Causes
  <2>3. Flow'
    BY <1>16, QueueFacts DEF RestoreFails, Fail, Flow, StepOK, ScopeOK, Signals,
       Causes
  <2>4. Owned'
    BY <1>16 DEF RestoreFails, Fail, Owned, StepOK, ProcsOK, Flow, Procs
  <2>5. Cleaned'
    BY <1>16 DEF RestoreFails, Fail, Cleaned, Owned, Flow, GroupGone, Live,
       StepOK, ProcsOK, Procs
  <2>6. Disarmed'
    BY <1>16 DEF RestoreFails, Fail, Disarmed, Flow, StepOK, ProcsOK
  <2> QED
    BY <2>1, <2>2, <2>3, <2>4, <2>5, <2>6 DEF IInv, TypeOK
<1>17. CASE Wait
  <2>1. ScopeOK' /\ StopOK' /\ PipesOK'
    BY <1>17 DEF Wait, ScopeOK, StopOK, PipesOK
  <2>2. StepOK'
    BY <1>17, QueueFacts DEF Wait, StepOK, Steps, Signals, Causes
  <2>3. ProcsOK'
    BY <1>17 DEF Wait, ProcsOK, Procs, Ends
  <2>4. Flow'
    BY <1>17, QueueFacts DEF Wait, Flow, StepOK, ScopeOK, Signals, Causes
  <2>5. Owned'
    BY <1>17 DEF Wait, Owned, StepOK, ProcsOK, Flow, Procs
  <2>6. Cleaned'
    BY <1>17 DEF Wait, Cleaned, Owned, Flow, GroupGone, Live, StepOK, ProcsOK,
       Procs
  <2>7. Disarmed'
    BY <1>17 DEF Wait, Disarmed, Flow, StepOK, ProcsOK
  <2> QED
    BY <2>1, <2>2, <2>3, <2>4, <2>5, <2>6, <2>7 DEF IInv, TypeOK
<1>18. CASE IoFails
  <2>1. ScopeOK' /\ StopOK' /\ PipesOK' /\ ProcsOK'
    BY <1>18 DEF IoFails, ScopeOK, StopOK, PipesOK, ProcsOK
  <2>2. StepOK'
    BY <1>18, QueueFacts DEF IoFails, Fail, StepOK, Steps, Signals, Causes
  <2>3. Flow'
    BY <1>18, QueueFacts DEF IoFails, Fail, Flow, StepOK, ScopeOK, Signals,
       Causes
  <2>4. Owned'
    BY <1>18 DEF IoFails, Fail, Owned, StepOK, ProcsOK, Flow, Procs
  <2>5. Cleaned'
    BY <1>18 DEF IoFails, Fail, Cleaned, Owned, Flow, GroupGone, Live, StepOK,
       ProcsOK, Procs
  <2>6. Disarmed'
    BY <1>18 DEF IoFails, Fail, Disarmed, Flow, StepOK, ProcsOK
  <2> QED
    BY <2>1, <2>2, <2>3, <2>4, <2>5, <2>6 DEF IInv, TypeOK
<1>19. CASE DropTerminal
  <2>1. ScopeOK' /\ StopOK'
    BY <1>19 DEF DropTerminal, ScopeOK, StopOK
  <2>2. StepOK'
    BY <1>19, QueueFacts DEF DropTerminal, Send, Restored, Deactivated, StepOK,
       Steps, Signals, Causes
  <2>3. PipesOK'
    BY <1>19, ConstantsOK DEF DropTerminal, Send, Restored, Deactivated,
       PipesOK, Ends
  <2>4. ProcsOK'
    BY <1>19 DEF DropTerminal, Send, Restored, Deactivated, ProcsOK, Procs, Ends
  <2>5. Flow'
    BY <1>19, QueueFacts DEF DropTerminal, Send, Restored, Deactivated, Flow,
       StepOK, ScopeOK, Signals, Causes
  <2>6. Owned'
    BY <1>19 DEF DropTerminal, Send, Restored, Deactivated, Owned, StepOK,
       ProcsOK, Flow, Procs
  <2>7. Cleaned'
    BY <1>19 DEF DropTerminal, Send, Restored, Deactivated, Cleaned, Owned,
       Flow, GroupGone, Live, StepOK, ProcsOK, Procs
  <2>8. Disarmed'
    BY <1>19 DEF DropTerminal, Send, Restored, Deactivated, Disarmed, Flow,
       StepOK, ProcsOK
  <2> QED
    BY <2>1, <2>2, <2>3, <2>4, <2>5, <2>6, <2>7, <2>8 DEF IInv, TypeOK
<1> QED
  BY <1>1, <1>2, <1>3, <1>4, <1>5, <1>6, <1>7, <1>8, <1>9, <1>10, <1>11, <1>12,
     <1>13, <1>14, <1>15, <1>16, <1>17, <1>18, <1>19 DEF Runner, Launch, Loop,
     Ending

\* So does everything the child's processes, the user and other terminals do:
\* the forks of processes that left the group stay outside it.
LEMMA EnvironmentIInv == IInv /\ Environment => IInv'
<1> SUFFICES ASSUME IInv, Environment PROVE IInv'
  OBVIOUS
<1> USE DEF Before, Sending, LeavingBy, Leader
<1> TypeOK /\ Flow /\ Owned /\ Cleaned /\ Disarmed /\ pc # "done"
  BY DEF IInv, Environment
<1> ScopeOK /\ StepOK /\ StopOK /\ PipesOK /\ ProcsOK
  BY DEF TypeOK
<1>1. CASE \E s \in Causes : UserSignal(s)
  <2>1. StepOK' /\ StopOK' /\ PipesOK' /\ ProcsOK'
    BY <1>1 DEF UserSignal, Cancelled, StepOK, StopOK, PipesOK, ProcsOK
  <2>2. ScopeOK'
    BY <1>1 DEF UserSignal, Cancelled, ScopeOK, Causes, Purposes
  <2>3. Flow' /\ Disarmed'
    BY <1>1 DEF UserSignal, Cancelled, Flow, Disarmed
  <2>4. Owned' /\ Cleaned'
    BY <1>1 DEF UserSignal, Cancelled, Owned, Cleaned, GroupGone, Live, ProcsOK,
       Procs
  <2> QED BY <2>1, <2>2, <2>3, <2>4 DEF IInv, TypeOK
<1>2. CASE Stop
  <2>1. ScopeOK' /\ StepOK' /\ StopOK' /\ PipesOK'
    BY <1>2 DEF Stop, ScopeOK, StepOK, StopOK, PipesOK
  <2>2. ProcsOK'
    BY <1>2 DEF Stop, ProcsOK, Procs, Ends
  <2>3. Flow' /\ Disarmed'
    BY <1>2 DEF Stop, Flow, Disarmed
  <2>4. Owned' /\ Cleaned'
    BY <1>2 DEF Stop, Owned, Cleaned, GroupGone, Live, ProcsOK, Procs
  <2> QED BY <2>1, <2>2, <2>3, <2>4 DEF IInv, TypeOK
<1>3. CASE \E p \in Procs : LeaveGroup(p)
  <2>1. ScopeOK' /\ StepOK' /\ StopOK' /\ PipesOK'
    BY <1>3 DEF LeaveGroup, ScopeOK, StepOK, StopOK, PipesOK
  <2>2. ProcsOK'
    BY <1>3 DEF LeaveGroup, ProcsOK, Procs, Ends
  <2>3. Flow' /\ Disarmed'
    BY <1>3 DEF LeaveGroup, Flow, Disarmed
  <2>4. Owned' /\ Cleaned'
    BY <1>3 DEF LeaveGroup, Owned, Cleaned, GroupGone, Live, ProcsOK, Procs
  <2> QED BY <2>1, <2>2, <2>3, <2>4 DEF IInv, TypeOK
<1>4. CASE \E p \in Procs : Exit(p)
  <2>1. ScopeOK' /\ StepOK' /\ StopOK' /\ PipesOK'
    BY <1>4 DEF Exit, ScopeOK, StepOK, StopOK, PipesOK
  <2>2. ProcsOK'
    BY <1>4 DEF Exit, ProcsOK, Procs, Ends
  <2>3. Flow' /\ Disarmed'
    BY <1>4 DEF Exit, Flow, Disarmed
  <2>4. Owned' /\ Cleaned'
    BY <1>4 DEF Exit, Owned, Cleaned, GroupGone, Live, ProcsOK, Procs
  <2> QED BY <2>1, <2>2, <2>3, <2>4 DEF IInv, TypeOK
<1>5. CASE \E p \in Procs : ReadStdin(p)
  <2>1. ScopeOK' /\ StepOK' /\ StopOK' /\ ProcsOK'
    BY <1>5 DEF ReadStdin, ScopeOK, StepOK, StopOK, ProcsOK
  <2>2. PipesOK'
    BY <1>5, ConstantsOK DEF ReadStdin, PipesOK, Ends
  <2>3. Flow' /\ Disarmed'
    BY <1>5 DEF ReadStdin, Flow, Disarmed
  <2>4. Owned' /\ Cleaned'
    BY <1>5 DEF ReadStdin, Owned, Cleaned, GroupGone, Live, ProcsOK, Procs
  <2> QED BY <2>1, <2>2, <2>3, <2>4 DEF IInv, TypeOK
<1>6. CASE \E p \in Procs, q \in Descendants : Fork(p, q)
  <2>1. ScopeOK' /\ StepOK' /\ StopOK' /\ PipesOK'
    BY <1>6 DEF Fork, ScopeOK, StepOK, StopOK, PipesOK
  <2>2. ProcsOK'
    BY <1>6 DEF Fork, ProcsOK, Procs, Ends
  <2>3. Flow' /\ Disarmed'
    BY <1>6 DEF Fork, Flow, Disarmed
  <2>4. Owned' /\ Cleaned'
    BY <1>6 DEF Fork, Owned, Cleaned, GroupGone, Live, ProcsOK, Procs
  <2> QED BY <2>1, <2>2, <2>3, <2>4 DEF IInv, TypeOK
<1>7. CASE \E p \in Procs, e \in Ends : CloseEnd(p, e)
  <2>1. ScopeOK' /\ StepOK' /\ StopOK' /\ PipesOK'
    BY <1>7 DEF CloseEnd, ScopeOK, StepOK, StopOK, PipesOK
  <2>2. ProcsOK'
    BY <1>7 DEF CloseEnd, ProcsOK, Procs, Ends
  <2>3. Flow' /\ Disarmed'
    BY <1>7 DEF CloseEnd, Flow, Disarmed
  <2>4. Owned' /\ Cleaned'
    BY <1>7 DEF CloseEnd, Owned, Cleaned, GroupGone, Live, ProcsOK, Procs
  <2> QED BY <2>1, <2>2, <2>3, <2>4 DEF IInv, TypeOK
<1>8. CASE \E p \in Procs, o \in Outputs : Write(p, o)
  <2>1. ScopeOK' /\ StepOK' /\ StopOK' /\ ProcsOK'
    BY <1>8 DEF Write, ScopeOK, StepOK, StopOK, ProcsOK
  <2>2. PipesOK'
    BY <1>8 DEF Write, PipesOK, Ends
  <2>3. Flow' /\ Disarmed'
    BY <1>8 DEF Write, Flow, Disarmed
  <2>4. Owned' /\ Cleaned'
    BY <1>8 DEF Write, Owned, Cleaned, GroupGone, Live, ProcsOK, Procs
  <2> QED BY <2>1, <2>2, <2>3, <2>4 DEF IInv, TypeOK
<1>9. CASE TakeTerminal
  <2>1. ScopeOK' /\ StepOK' /\ StopOK' /\ PipesOK'
    BY <1>9 DEF TakeTerminal, ScopeOK, StepOK, StopOK, PipesOK
  <2>2. ProcsOK'
    BY <1>9 DEF TakeTerminal, ProcsOK, Procs, Ends
  <2>3. Flow' /\ Disarmed'
    BY <1>9 DEF TakeTerminal, Flow, Disarmed
  <2>4. Owned' /\ Cleaned'
    BY <1>9 DEF TakeTerminal, Owned, Cleaned, GroupGone, Live, ProcsOK, Procs
  <2> QED BY <2>1, <2>2, <2>3, <2>4 DEF IInv, TypeOK
<1> QED
  BY <1>1, <1>2, <1>3, <1>4, <1>5, <1>6, <1>7, <1>8, <1>9 DEF Environment, Child

LEMMA TickIInv == IInv /\ Tick => IInv'
<1> SUFFICES ASSUME IInv, Tick PROVE IInv'
  OBVIOUS
<1>1. ScopeOK' /\ StepOK' /\ PipesOK' /\ ProcsOK'
  BY DEF IInv, TypeOK, Tick, ScopeOK, StepOK, PipesOK, ProcsOK
<1>2. StopOK'
  BY DEF IInv, TypeOK, Tick, StopOK, NoTimer
<1>3. Flow' /\ Owned' /\ Cleaned' /\ Disarmed'
  BY DEF IInv, Tick, Flow, Owned, Cleaned, Disarmed, GroupGone, Live
<1> QED
  BY <1>1, <1>2, <1>3 DEF IInv, TypeOK

LEMMA StutterIInv == IInv /\ UNCHANGED vars => IInv'
  BY DEF IInv, TypeOK, ScopeOK, StepOK, StopOK, PipesOK, ProcsOK, Flow, Owned,
         Cleaned, Disarmed, GroupGone, Live

LEMMA SpecIInv == Spec => []IInv
<1>1. IInv /\ [Next]_vars => IInv'
  BY RunnerIInv, EnvironmentIInv, TickIInv, StutterIInv DEF Next, Returned
<1> QED
  BY <1>1, InitIInv, PTL DEF Spec

-----------------------------------------------------------------------------
\* The model is type correct: in particular no drain takes more than its pipe
\* holds, and no write goes past the configured input.
THEOREM TypeCorrect == Spec => []TypeOK
  BY SpecIInv, PTL DEF IInv

\* However many processes the command forks and whatever they do, and on every
\* way out of run_owned_process (success, cancellation, an error of any system
\* call), the leader has been killed and reaped and its group is gone.
THEOREM NothingSurvives == Spec => []CleanReturn
<1>1. IInv => CleanReturn
  BY DEF IInv, TypeOK, ProcsOK, Owned, Cleaned, GroupGone, CleanReturn
<1> QED
  BY <1>1, SpecIInv, PTL

\* Signals and terminal calls only ever name ids that the unreaped child pins,
\* so neither can hit a process or group that reuses them.
THEOREM IdentityPinned == Spec => []PinnedIdentity
<1>1. IInv => PinnedIdentity
  BY DEF IInv, TypeOK, StepOK, Steps, Owned, Disarmed, PinnedIdentity, Before
<1> QED
  BY <1>1, SpecIInv, PTL

-----------------------------------------------------------------------------
(***************************************************************************)
(* How the runner stops a command: in order, with all of its output, and   *)
(* with the terminal given back.  The three invariants that the theorems   *)
(* below state speak of what a signal does when it is sent and of the end  *)
(* of the call.  StopInv follows the runner there: what is left of each    *)
(* queue of signals, the reasons behind a deadline that has been set, who  *)
(* has been told so far, and which pipes may be closed with something in   *)
(* them.                                                                   *)
(***************************************************************************)

\* What is left of each queue of signals, by where the runner goes on after it.
Queues ==
  pc \in Sending =>
    /\ ret = "serve" => todo = <<"CONT">>
    /\ ret = "reapable" => todo \in {<<"INT", "CONT">>, <<"TERM", "CONT">>, <<"CONT">>}
    /\ ret = "drain" => todo \in {<<"TERM">>, <<"KILL">>}

\* The error is on its way out, or the terminal has been given back.
Returning ==
  /\ pc = "dropTerminal" \/ (pc \in Sending /\ ret = "wait") => result = "error"
  /\ result = "output" => pc = "done"
  /\ (result # "error" /\ terminal = "inactive")
       => pc \in {"wait", "done"} /\ fg # "child"

\* A leader may be forced when it is gone, when the user insists, or when a
\* cancellation that was forwarded has not been obeyed in time.
Justified ==
  leader_completed \/ Repeated \/ (forwarded /\ purpose # "Recording" /\ ~finalizing)

Deadlines ==
  /\ leader_completed => pc \notin Before /\ pstate[Leader] = "dead"
  /\ (pc \in Before \cup {"handoff", "serve"} \/ (pc \in Sending /\ ret = "serve"))
       => ~forwarded
  /\ forwarded => ~finalizing \/ Repeated
  /\ (stopping # NoTimer \/ terminated)
       => leader_completed \/ (forwarded /\ purpose # "Recording")
  /\ killed # NoTimer => Justified

\* Behind a signal that forces there is a reason for it.
Forcing ==
  /\ pc \in Sending =>
       /\ ret = "drain" => IF todo = <<"KILL">> THEN killed # NoTimer ELSE terminated
       /\ ret = "restore" => Justified
  /\ NoPrematureForce

\* The forwarded signal on its way: to the group, and to a leader that has left
\* the group between the two steps.
CauseQueued == pc \in Sending /\ ret = "reapable" /\ todo # <<"CONT">>
InLoop == {"reapable", "escalate", "drain", "feed", "decide", "watch"}
Told ==
  /\ ~forwarded => delivered = 0
  /\ (pc \in Sending /\ ret = "reapable") => forwarded /\ (terminated => leader_completed)
  /\ (CauseQueued /\ pc = "group") => delivered = 0
  /\ (CauseQueued /\ pc = "leader") =>
       /\ delivered <= 1
       /\ Live(Leader) /\ pgrp[Leader] = "own" => delivered = 1
  /\ (/\ forwarded /\ Live(Leader) /\ ~CauseQueued
      /\ pc \in InLoop \/ (pc \in Sending /\ ret \in {"reapable", "drain"}))
       => delivered > 0
  /\ delivered > 1 => pgrp[Leader] = "other"

\* Output is in the pipe or captured, and a pipe that was closed was empty,
\* unless the runner gave up.
Drained ==
  /\ \A o \in Outputs : sent[o] = captured[o] + buffered[o]
  /\ \A o \in Outputs :
       o \notin open => buffered[o] = 0 \/ result = "error" \/ killed # NoTimer
  /\ (/\ result # "error"
      /\ pc \in {"restore", "wait", "done"} \/ (pc \in Sending /\ ret = "restore"))
       => open = {}

InputOpen ==
  /\ (pc \in Before /\ stdio.input) => "stdin" \in open
  /\ InputNotCut

StopInv == Queues /\ Returning /\ Deadlines /\ Forcing /\ Told /\ Drained /\ InputOpen

USE DEF vars, scopeVars, specVars, stepVars, stopVars, ioVars, ownVars, procVars,
        pipeVars, histVars, runnerVars

\* Short queues, element by element.
LEMMA QueueTails ==
  /\ \A s : Head(<<s>>) = s /\ Len(<<s>>) = 1
  /\ \A s, t : Head(<<s, t>>) = s /\ Tail(<<s, t>>) = <<t>> /\ Len(<<s, t>>) = 2
  /\ \A s, t : <<s>> = <<t>> => s = t
  /\ \A s, t, u : <<s>> # <<t, u>>
  /\ \A s, t, u, v : <<s, t>> = <<u, v>> => s = u /\ t = v
  /\ \A q \in {<<"INT", "CONT">>, <<"TERM", "CONT">>} :
       Head(q) \in {"INT", "TERM"} /\ Len(q) = 2 /\ Tail(q) = <<"CONT">> /\ q # <<"CONT">>
<1>1. \A s : Head(<<s>>) = s /\ Len(<<s>>) = 1
  OBVIOUS
<1>2. \A s, t : Head(<<s, t>>) = s /\ Tail(<<s, t>>) = <<t>> /\ Len(<<s, t>>) = 2
  OBVIOUS
<1>3. \A s, t : <<s>> = <<t>> => s = t
  OBVIOUS
<1>4. \A s, t, u : <<s>> # <<t, u>>
  OBVIOUS
<1>5. \A s, t, u, v : <<s, t>> = <<u, v>> => s = u /\ t = v
  OBVIOUS
<1>6. ASSUME NEW q \in {<<"INT", "CONT">>, <<"TERM", "CONT">>}
      PROVE  /\ Head(q) \in {"INT", "TERM"} /\ Len(q) = 2
            /\ Tail(q) = <<"CONT">> /\ q # <<"CONT">>
  <2>1. CASE q = <<"INT", "CONT">>
    BY <1>2, <1>4, <2>1
  <2>2. CASE q = <<"TERM", "CONT">>
    BY <1>2, <1>4, <2>2
  <2> QED BY <2>1, <2>2
<1> QED BY <1>1, <1>2, <1>3, <1>4, <1>5, <1>6

\* Every step of the runner keeps the invariant: a leaf per action and conjunct, and
\* steps of their own where a signal meets the leader.
LEMMA RunnerStop == IInv /\ StopInv /\ Runner => StopInv'
<1> SUFFICES ASSUME IInv, StopInv, Runner PROVE StopInv'
  OBVIOUS
<1> USE DEF Before, Sending, LeavingBy, Leader
<1> TypeOK /\ Flow /\ Owned /\ Cleaned /\ Disarmed
  BY DEF IInv
<1> ScopeOK /\ StepOK /\ StopOK /\ PipesOK /\ ProcsOK
  BY DEF TypeOK
<1> Queues /\ Returning /\ Deadlines /\ Forcing /\ Told /\ Drained /\ InputOpen
  BY DEF StopInv
<1>1. CASE CheckCancellation
  <2>1. Queues'
    BY <1>1, ConstantsOK, QueueTails DEF CheckCancellation, Fail, Queues,
       Flow, StepOK
  <2>2. Returning'
    BY <1>1, ConstantsOK, QueueTails DEF CheckCancellation, Fail, Returning,
       Flow, StepOK, ProcsOK
  <2>3. Deadlines'
    BY <1>1, ConstantsOK, QueueTails DEF CheckCancellation, Fail, Deadlines,
       Justified, Repeated, Owned, Flow, StepOK, StopOK, ScopeOK, ProcsOK,
       Procs
  <2>4. Forcing'
    BY <1>1, ConstantsOK, QueueTails DEF CheckCancellation, Fail, Forcing,
       NoPrematureForce, Deadlines, Justified, Repeated, Queues, Returning,
       Flow, StepOK, StopOK, ProcsOK, Procs, Live
  <2>5. Told'
    BY <1>1, ConstantsOK, QueueTails DEF CheckCancellation, Fail, Told,
       CauseQueued, InLoop, Queues, Deadlines, Flow, StepOK, StopOK, ScopeOK,
       ProcsOK, Procs, Live, Causes
  <2>6. Drained'
    BY <1>1, ConstantsOK, QueueTails DEF CheckCancellation, Fail, Drained,
       Returning, Flow, StepOK, StopOK, PipesOK, ProcsOK
  <2>7. InputOpen'
    BY <1>1, ConstantsOK, QueueTails DEF CheckCancellation, Fail, InputOpen,
       InputNotCut, Holders, Live, Flow, StepOK, StopOK, PipesOK, ProcsOK,
       Procs, Owned
  <2> QED
    BY <2>1, <2>2, <2>3, <2>4, <2>5, <2>6, <2>7 DEF StopInv
<1>2. CASE Spawn
  <2>1. Queues'
    BY <1>2, ConstantsOK, QueueTails DEF Spawn, Queues, Flow, StepOK
  <2>2. Returning'
    BY <1>2, ConstantsOK, QueueTails DEF Spawn, Returning, Flow, StepOK,
       ProcsOK
  <2>3. Deadlines'
    BY <1>2, ConstantsOK, QueueTails DEF Spawn, Deadlines, Justified,
       Repeated, Owned, Flow, StepOK, StopOK, ScopeOK, ProcsOK, Procs
  <2>4. Forcing'
    BY <1>2, ConstantsOK, QueueTails DEF Spawn, Forcing, NoPrematureForce,
       Deadlines, Justified, Repeated, Queues, Returning, Flow, StepOK,
       StopOK, ProcsOK, Procs, Live
  <2>5. Told'
    BY <1>2, ConstantsOK, QueueTails DEF Spawn, Told, CauseQueued, InLoop,
       Queues, Deadlines, Flow, StepOK, StopOK, ScopeOK, ProcsOK, Procs, Live,
       Causes
  <2>6. Drained'
    BY <1>2, ConstantsOK, QueueTails DEF Spawn, Drained, Returning, Flow,
       StepOK, StopOK, PipesOK, ProcsOK
  <2>7. InputOpen'
    BY <1>2, ConstantsOK, QueueTails DEF Spawn, InputOpen, InputNotCut,
       Holders, Live, Flow, StepOK, StopOK, PipesOK, ProcsOK, Procs, Owned
  <2> QED
    BY <2>1, <2>2, <2>3, <2>4, <2>5, <2>6, <2>7 DEF StopInv
<1>3. CASE SpawnFails
  <2>1. Queues'
    BY <1>3, ConstantsOK, QueueTails DEF SpawnFails, Fail, Queues, Flow,
       StepOK
  <2>2. Returning'
    BY <1>3, ConstantsOK, QueueTails DEF SpawnFails, Fail, Returning, Flow,
       StepOK, ProcsOK
  <2>3. Deadlines'
    BY <1>3, ConstantsOK, QueueTails DEF SpawnFails, Fail, Deadlines,
       Justified, Repeated, Owned, Flow, StepOK, StopOK, ScopeOK, ProcsOK,
       Procs
  <2>4. Forcing'
    BY <1>3, ConstantsOK, QueueTails DEF SpawnFails, Fail, Forcing,
       NoPrematureForce, Deadlines, Justified, Repeated, Queues, Returning,
       Flow, StepOK, StopOK, ProcsOK, Procs, Live
  <2>5. Told'
    BY <1>3, ConstantsOK, QueueTails DEF SpawnFails, Fail, Told, CauseQueued,
       InLoop, Queues, Deadlines, Flow, StepOK, StopOK, ScopeOK, ProcsOK,
       Procs, Live, Causes
  <2>6. Drained'
    BY <1>3, ConstantsOK, QueueTails DEF SpawnFails, Fail, Drained, Returning,
       Flow, StepOK, StopOK, PipesOK, ProcsOK
  <2>7. InputOpen'
    BY <1>3, ConstantsOK, QueueTails DEF SpawnFails, Fail, InputOpen,
       InputNotCut, Holders, Live, Flow, StepOK, StopOK, PipesOK, ProcsOK,
       Procs, Owned
  <2> QED
    BY <2>1, <2>2, <2>3, <2>4, <2>5, <2>6, <2>7 DEF StopInv
<1>4. CASE Handoff
  <2>1. Queues'
    BY <1>4, ConstantsOK, QueueTails DEF Handoff, Send, Queues, Flow, StepOK
  <2>2. Returning'
    BY <1>4, ConstantsOK, QueueTails DEF Handoff, Send, Returning, Flow,
       StepOK, ProcsOK
  <2>3. Deadlines'
    BY <1>4, ConstantsOK, QueueTails DEF Handoff, Send, Deadlines, Justified,
       Repeated, Owned, Flow, StepOK, StopOK, ScopeOK, ProcsOK, Procs
  <2>4. Forcing'
    BY <1>4, ConstantsOK, QueueTails DEF Handoff, Send, Forcing,
       NoPrematureForce, Deadlines, Justified, Repeated, Queues, Returning,
       Flow, StepOK, StopOK, ProcsOK, Procs, Live
  <2>5. Told'
    BY <1>4, ConstantsOK, QueueTails DEF Handoff, Send, Told, CauseQueued,
       InLoop, Queues, Deadlines, Flow, StepOK, StopOK, ScopeOK, ProcsOK,
       Procs, Live, Causes
  <2>6. Drained'
    BY <1>4, ConstantsOK, QueueTails DEF Handoff, Send, Drained, Returning,
       Flow, StepOK, StopOK, PipesOK, ProcsOK
  <2>7. InputOpen'
    BY <1>4, ConstantsOK, QueueTails DEF Handoff, Send, InputOpen,
       InputNotCut, Holders, Live, Flow, StepOK, StopOK, PipesOK, ProcsOK,
       Procs, Owned
  <2> QED
    BY <2>1, <2>2, <2>3, <2>4, <2>5, <2>6, <2>7 DEF StopInv
<1>5. CASE HandoffFails
  <2>1. Queues'
    BY <1>5, ConstantsOK, QueueTails DEF HandoffFails, Fail, Queues, Flow,
       StepOK
  <2>2. Returning'
    BY <1>5, ConstantsOK, QueueTails DEF HandoffFails, Fail, Returning, Flow,
       StepOK, ProcsOK
  <2>3. Deadlines'
    BY <1>5, ConstantsOK, QueueTails DEF HandoffFails, Fail, Deadlines,
       Justified, Repeated, Owned, Flow, StepOK, StopOK, ScopeOK, ProcsOK,
       Procs
  <2>4. Forcing'
    BY <1>5, ConstantsOK, QueueTails DEF HandoffFails, Fail, Forcing,
       NoPrematureForce, Deadlines, Justified, Repeated, Queues, Returning,
       Flow, StepOK, StopOK, ProcsOK, Procs, Live
  <2>5. Told'
    BY <1>5, ConstantsOK, QueueTails DEF HandoffFails, Fail, Told,
       CauseQueued, InLoop, Queues, Deadlines, Flow, StepOK, StopOK, ScopeOK,
       ProcsOK, Procs, Live, Causes
  <2>6. Drained'
    BY <1>5, ConstantsOK, QueueTails DEF HandoffFails, Fail, Drained,
       Returning, Flow, StepOK, StopOK, PipesOK, ProcsOK
  <2>7. InputOpen'
    BY <1>5, ConstantsOK, QueueTails DEF HandoffFails, Fail, InputOpen,
       InputNotCut, Holders, Live, Flow, StepOK, StopOK, PipesOK, ProcsOK,
       Procs, Owned
  <2> QED
    BY <2>1, <2>2, <2>3, <2>4, <2>5, <2>6, <2>7 DEF StopInv
<1>6. CASE Serve
  <2>1. Queues'
    BY <1>6, ConstantsOK, QueueTails DEF Serve, PermitsFinalization,
       Cancelled, Queues, Flow, StepOK
  <2>2. Returning'
    BY <1>6, ConstantsOK, QueueTails DEF Serve, PermitsFinalization,
       Cancelled, Returning, Flow, StepOK, ProcsOK
  <2>3. Deadlines'
    BY <1>6, ConstantsOK, QueueTails DEF Serve, PermitsFinalization,
       Cancelled, Deadlines, Justified, Repeated, Owned, Flow, StepOK, StopOK,
       ScopeOK, ProcsOK, Procs
  <2>4. Forcing'
    BY <1>6, ConstantsOK, QueueTails DEF Serve, PermitsFinalization,
       Cancelled, Forcing, NoPrematureForce, Deadlines, Justified, Repeated,
       Queues, Returning, Flow, StepOK, StopOK, ProcsOK, Procs, Live
  <2>5. Told'
    BY <1>6, ConstantsOK, QueueTails DEF Serve, PermitsFinalization,
       Cancelled, Told, CauseQueued, InLoop, Queues, Deadlines, Flow, StepOK,
       StopOK, ScopeOK, ProcsOK, Procs, Live, Causes
  <2>6. Drained'
    BY <1>6, ConstantsOK, QueueTails DEF Serve, PermitsFinalization,
       Cancelled, Drained, Returning, Flow, StepOK, StopOK, PipesOK, ProcsOK
  <2>7. InputOpen'
    BY <1>6, ConstantsOK, QueueTails DEF Serve, PermitsFinalization,
       Cancelled, InputOpen, InputNotCut, Holders, Live, Flow, StepOK, StopOK,
       PipesOK, ProcsOK, Procs, Owned
  <2> QED
    BY <2>1, <2>2, <2>3, <2>4, <2>5, <2>6, <2>7 DEF StopInv
<1>7. CASE SignalGroup
  <2>1. Queues'
    BY <1>7, ConstantsOK, QueueTails DEF SignalGroup, Hit, Release, Note, Sig,
       Group, Queues, Flow, StepOK
  <2>2. Returning'
    BY <1>7, ConstantsOK, QueueTails DEF SignalGroup, Hit, Release, Note, Sig,
       Group, Returning, Flow, StepOK, ProcsOK
  <2>3. Deadlines'
    BY <1>7, ConstantsOK, QueueTails DEF SignalGroup, Hit, Release, Note, Sig,
       Group, Deadlines, Justified, Repeated, Owned, Flow, StepOK, StopOK,
       ScopeOK, ProcsOK, Procs
  <2>4. Forcing'
    BY <1>7, ConstantsOK, QueueTails DEF SignalGroup, Hit, Release, Note, Sig,
       Group, Forcing, NoPrematureForce, Deadlines, Justified, Repeated,
       Queues, Returning, Flow, StepOK, StopOK, ProcsOK, Procs, Live
  <2>5. Told'
    <3>1. Leader \in Group <=> pgrp[Leader] = "own"
      BY DEF Group, Procs
    <3>2. CASE CauseQueued
      <4>1. Sig \in Causes
        BY <1>7, <3>2, QueueTails DEF SignalGroup, CauseQueued, Queues, Sig, Causes
      <4>2. Live(Leader) => ~terminated
        BY <1>7, <3>2 DEF SignalGroup, CauseQueued, Told, Deadlines, Live
      <4>3. delivered = 0 /\ forwarded
        BY <1>7, <3>2 DEF SignalGroup, CauseQueued, Told
      <4>4. delivered' =
               IF pgrp[Leader] = "own" /\ Live(Leader) THEN 1 ELSE 0
        BY <1>7, <3>1, <4>1, <4>2, <4>3 DEF SignalGroup, Note
      <4>5. Live(Leader)' => Live(Leader)
        BY <1>7, <4>1 DEF SignalGroup, Hit, Live, ProcsOK, Procs, Causes
      <4>6. /\ CauseQueued' /\ pc' = "leader"
            /\ UNCHANGED <<forwarded, terminated, leader_completed, pgrp>>
        BY <1>7, <3>2 DEF SignalGroup, CauseQueued
      <4>7. /\ terminated => leader_completed
            /\ delivered \in Nat /\ pgrp[Leader] \in {"own", "other"}
        BY <1>7, <3>2 DEF SignalGroup, CauseQueued, Told, StopOK, ProcsOK, Procs
      <4> QED
        BY <3>2, <4>3, <4>4, <4>5, <4>6, <4>7 DEF Told
    <3>3. CASE ~CauseQueued
      <4>1. Sig \in Causes /\ forwarded => terminated
        BY <1>7, <3>3, QueueTails DEF SignalGroup, CauseQueued, Queues, Flow, Forcing,
           Deadlines, Sig, Causes
      <4>2. UNCHANGED delivered
        BY <1>7, <4>1 DEF SignalGroup, Note
      <4>3. Live(Leader)' => Live(Leader)
        BY <1>7 DEF SignalGroup, Hit, Live, ProcsOK, Procs
      <4> QED
        BY <1>7, <3>3, <4>2, <4>3 DEF SignalGroup, Told, CauseQueued, InLoop
    <3> QED
      BY <3>2, <3>3
  <2>6. Drained'
    BY <1>7, ConstantsOK, QueueTails DEF SignalGroup, Hit, Release, Note, Sig,
       Group, Drained, Returning, Flow, StepOK, StopOK, PipesOK, ProcsOK
  <2>7. InputOpen'
    BY <1>7, ConstantsOK, QueueTails DEF SignalGroup, Hit, Release, Note, Sig,
       Group, InputOpen, InputNotCut, Holders, Live, Flow, StepOK, StopOK,
       PipesOK, ProcsOK, Procs, Owned
  <2> QED
    BY <2>1, <2>2, <2>3, <2>4, <2>5, <2>6, <2>7 DEF StopInv
<1>8. CASE SignalLeader
  <2>1. Queues'
    <3>1. CASE ret = "reapable" /\ Len(todo) # 1
      <4>1. todo \in {<<"INT", "CONT">>, <<"TERM", "CONT">>}
        BY <1>8, <3>1, QueueTails DEF SignalLeader, Queues
      <4>2. Tail(todo) = <<"CONT">>
        BY <4>1, QueueTails
      <4> QED
        BY <1>8, <3>1, <4>2 DEF SignalLeader, Queues
    <3>2. CASE ret # "reapable"
      <4>1. Len(todo) = 1
        BY <1>8, <3>2, QueueTails DEF SignalLeader, Queues, Flow
      <4> QED
        BY <1>8, <4>1 DEF SignalLeader, Queues, Flow
    <3>3. CASE ret = "reapable" /\ Len(todo) = 1
      BY <1>8, <3>3 DEF SignalLeader, Queues
    <3> QED
      BY <3>1, <3>2, <3>3
  <2>2. Returning'
    BY <1>8, ConstantsOK, QueueTails DEF SignalLeader, Hit, Release, Note,
       Sig, Direct, Returning, Flow, StepOK, ProcsOK
  <2>3. Deadlines'
    BY <1>8, ConstantsOK, QueueTails DEF SignalLeader, Hit, Release, Note,
       Sig, Direct, Deadlines, Justified, Repeated, Owned, Flow, StepOK,
       StopOK, ScopeOK, ProcsOK, Procs
  <2>4. Forcing'
    BY <1>8, ConstantsOK, QueueTails DEF SignalLeader, Hit, Release, Note,
       Sig, Direct, Forcing, NoPrematureForce, Deadlines, Justified, Repeated,
       Queues, Returning, Flow, StepOK, StopOK, ProcsOK, Procs, Live
  <2>5. Told'
    <3>1. Leader \in Direct <=> pgrp[Leader] # "own" \/ Sig = "KILL"
      BY DEF Direct
    <3>2. CASE CauseQueued
      <4>1. Sig \in Causes /\ Len(todo) = 2 /\ Tail(todo) = <<"CONT">>
        BY <1>8, <3>2, QueueTails DEF SignalLeader, CauseQueued, Queues, Sig, Causes
      <4>2. Live(Leader) => ~terminated
        BY <1>8, <3>2 DEF SignalLeader, CauseQueued, Told, Deadlines, Live
      <4>3. /\ delivered <= 1
            /\ (Live(Leader) /\ pgrp[Leader] = "own" => delivered = 1) /\ forwarded
        BY <1>8, <3>2 DEF SignalLeader, CauseQueued, Told
      <4>4. delivered' =
               IF pgrp[Leader] # "own" /\ Live(Leader) THEN delivered + 1 ELSE delivered
        BY <1>8, <3>1, <4>1, <4>2, <4>3 DEF SignalLeader, Note, Causes
      <4>5. Live(Leader)' => Live(Leader)
        BY <1>8, <4>1 DEF SignalLeader, Hit, Live, ProcsOK, Procs, Causes
      <4>6. /\ ~CauseQueued' /\ pc' = "group" /\ ret' = "reapable"
            /\ UNCHANGED <<forwarded, terminated, leader_completed, pgrp>>
        BY <1>8, <3>2, <4>1 DEF SignalLeader, CauseQueued
      <4>7. /\ terminated => leader_completed
            /\ delivered \in Nat /\ pgrp[Leader] \in {"own", "other"}
        BY <1>8, <3>2 DEF SignalLeader, CauseQueued, Told, StopOK, ProcsOK, Procs
      <4> QED
        BY <4>3, <4>4, <4>5, <4>6, <4>7 DEF Told
    <3>3. CASE ~CauseQueued
      <4>1. Sig \in Causes /\ forwarded => terminated
        BY <1>8, <3>3, QueueTails DEF SignalLeader, CauseQueued, Queues, Flow, Forcing,
           Deadlines, Sig, Causes
      <4>2. UNCHANGED delivered
        BY <1>8, <4>1 DEF SignalLeader, Note
      <4>3. Live(Leader)' => Live(Leader)
        BY <1>8 DEF SignalLeader, Hit, Live, ProcsOK, Procs
      <4>4. pc' = ret
        BY <1>8, <3>3, QueueTails DEF SignalLeader, CauseQueued, Queues, Flow
      <4> QED
        BY <1>8, <3>3, <4>2, <4>3, <4>4 DEF SignalLeader, Told, CauseQueued, InLoop,
           Flow, Deadlines
    <3> QED
      BY <3>2, <3>3
  <2>6. Drained'
    BY <1>8, ConstantsOK, QueueTails DEF SignalLeader, Hit, Release, Note,
       Sig, Direct, Drained, Returning, Flow, StepOK, StopOK, PipesOK, ProcsOK
  <2>7. InputOpen'
    BY <1>8, ConstantsOK, QueueTails DEF SignalLeader, Hit, Release, Note,
       Sig, Direct, InputOpen, InputNotCut, Holders, Live, Flow, StepOK,
       StopOK, PipesOK, ProcsOK, Procs, Owned
  <2> QED
    BY <2>1, <2>2, <2>3, <2>4, <2>5, <2>6, <2>7 DEF StopInv
<1>9. CASE Forward
  <2>1. Queues'
    <3>1. Cancelled => first \in Causes
      BY DEF Cancelled, ScopeOK
    <3> QED
      BY <1>9, <3>1 DEF Forward, Send, Queues, Causes
  <2>2. Returning'
    BY <1>9, ConstantsOK, QueueTails DEF Forward, StopDeadline, Cancelled,
       Send, Returning, Flow, StepOK, ProcsOK
  <2>3. Deadlines'
    BY <1>9, ConstantsOK, QueueTails DEF Forward, StopDeadline, Cancelled,
       Send, Deadlines, Justified, Repeated, Owned, Flow, StepOK, StopOK,
       ScopeOK, ProcsOK, Procs
  <2>4. Forcing'
    BY <1>9, ConstantsOK, QueueTails DEF Forward, StopDeadline, Cancelled,
       Send, Forcing, NoPrematureForce, Deadlines, Justified, Repeated,
       Queues, Returning, Flow, StepOK, StopOK, ProcsOK, Procs, Live
  <2>5. Told'
    BY <1>9, ConstantsOK, QueueTails DEF Forward, StopDeadline, Cancelled,
       Send, Told, CauseQueued, InLoop, Queues, Deadlines, Flow, StepOK,
       StopOK, ScopeOK, ProcsOK, Procs, Live, Causes
  <2>6. Drained'
    BY <1>9, ConstantsOK, QueueTails DEF Forward, StopDeadline, Cancelled,
       Send, Drained, Returning, Flow, StepOK, StopOK, PipesOK, ProcsOK
  <2>7. InputOpen'
    BY <1>9, ConstantsOK, QueueTails DEF Forward, StopDeadline, Cancelled,
       Send, InputOpen, InputNotCut, Holders, Live, Flow, StepOK, StopOK,
       PipesOK, ProcsOK, Procs, Owned
  <2> QED
    BY <2>1, <2>2, <2>3, <2>4, <2>5, <2>6, <2>7 DEF StopInv
<1>10. CASE Completed
  <2>1. Queues'
    BY <1>10, ConstantsOK, QueueTails DEF Completed, Queues, Flow, StepOK
  <2>2. Returning'
    BY <1>10, ConstantsOK, QueueTails DEF Completed, Returning, Flow, StepOK,
       ProcsOK
  <2>3. Deadlines'
    BY <1>10, ConstantsOK, QueueTails DEF Completed, Deadlines, Justified,
       Repeated, Owned, Flow, StepOK, StopOK, ScopeOK, ProcsOK, Procs
  <2>4. Forcing'
    BY <1>10, ConstantsOK, QueueTails DEF Completed, Forcing,
       NoPrematureForce, Deadlines, Justified, Repeated, Queues, Returning,
       Flow, StepOK, StopOK, ProcsOK, Procs, Live
  <2>5. Told'
    BY <1>10, ConstantsOK, QueueTails DEF Completed, Told, CauseQueued,
       InLoop, Queues, Deadlines, Flow, StepOK, StopOK, ScopeOK, ProcsOK,
       Procs, Live, Causes
  <2>6. Drained'
    BY <1>10, ConstantsOK, QueueTails DEF Completed, Drained, Returning, Flow,
       StepOK, StopOK, PipesOK, ProcsOK
  <2>7. InputOpen'
    BY <1>10, ConstantsOK, QueueTails DEF Completed, InputOpen, InputNotCut,
       Holders, Live, Flow, StepOK, StopOK, PipesOK, ProcsOK, Procs, Owned
  <2> QED
    BY <2>1, <2>2, <2>3, <2>4, <2>5, <2>6, <2>7 DEF StopInv
<1>11. CASE Escalate
  <2>1. Queues'
    BY <1>11, ConstantsOK, QueueTails DEF Escalate, Send, MustKill, Queues,
       Flow, StepOK
  <2>2. Returning'
    BY <1>11, ConstantsOK, QueueTails DEF Escalate, Send, MustKill, Returning,
       Flow, StepOK, ProcsOK
  <2>3. Deadlines'
    BY <1>11, ConstantsOK, QueueTails DEF Escalate, Send, MustKill, Deadlines,
       Justified, Repeated, Owned, Flow, StepOK, StopOK, ScopeOK, ProcsOK,
       Procs, NoTimer
  <2>4. Forcing'
    BY <1>11, ConstantsOK, QueueTails DEF Escalate, Send, MustKill, Forcing,
       NoPrematureForce, Deadlines, Justified, Repeated, Queues, Returning,
       Flow, StepOK, StopOK, ProcsOK, Procs, Live, NoTimer
  <2>5. Told'
    BY <1>11, ConstantsOK, QueueTails DEF Escalate, Send, MustKill, Told,
       CauseQueued, InLoop, Queues, Deadlines, Flow, StepOK, StopOK, ScopeOK,
       ProcsOK, Procs, Live, Causes
  <2>6. Drained'
    BY <1>11, ConstantsOK, QueueTails DEF Escalate, Send, MustKill, Drained,
       Returning, Flow, StepOK, StopOK, PipesOK, ProcsOK
  <2>7. InputOpen'
    BY <1>11, ConstantsOK, QueueTails DEF Escalate, Send, MustKill, InputOpen,
       InputNotCut, Holders, Live, Flow, StepOK, StopOK, PipesOK, ProcsOK,
       Procs, Owned
  <2> QED
    BY <2>1, <2>2, <2>3, <2>4, <2>5, <2>6, <2>7 DEF StopInv
<1>12. CASE Drain
  <2>1. Queues'
    BY <1>12, ConstantsOK, QueueTails DEF Drain, Reads, Min2, AtEof, Queues,
       Flow, StepOK
  <2>2. Returning'
    BY <1>12, ConstantsOK, QueueTails DEF Drain, Reads, Min2, AtEof,
       Returning, Flow, StepOK, ProcsOK
  <2>3. Deadlines'
    BY <1>12, ConstantsOK, QueueTails DEF Drain, Reads, Min2, AtEof,
       Deadlines, Justified, Repeated, Owned, Flow, StepOK, StopOK, ScopeOK,
       ProcsOK, Procs
  <2>4. Forcing'
    BY <1>12, ConstantsOK, QueueTails DEF Drain, Reads, Min2, AtEof, Forcing,
       NoPrematureForce, Deadlines, Justified, Repeated, Queues, Returning,
       Flow, StepOK, StopOK, ProcsOK, Procs, Live
  <2>5. Told'
    BY <1>12, ConstantsOK, QueueTails DEF Drain, Reads, Min2, AtEof, Told,
       CauseQueued, InLoop, Queues, Deadlines, Flow, StepOK, StopOK, ScopeOK,
       ProcsOK, Procs, Live, Causes
  <2>6. Drained'
    <3>1. ASSUME NEW o \in Outputs
          PROVE  sent'[o] = captured'[o] + buffered'[o]
      BY <1>12, ConstantsOK DEF Drain, Reads, Min2, Drained, PipesOK
    <3>2. ASSUME NEW o \in Outputs, o \notin open'
          PROVE  buffered'[o] = 0 \/ result' = "error" \/ killed' # NoTimer
      <4>1. CASE o \in open
        <5>1. o # "stdin" /\ buffered[o] \in Nat /\ DrainTurn \in Nat
          BY ConstantsOK DEF PipesOK
        <5>2. AtEof(o)
          BY <1>12, <3>2, <4>1, <5>1 DEF Drain
        <5>3. Reads(o) = buffered[o]
          BY <4>1, <5>1, <5>2 DEF AtEof, Reads, Min2
        <5> QED
          BY <1>12, <5>1, <5>3 DEF Drain
      <4>2. CASE o \notin open
        <5>1. Reads(o) = 0 /\ buffered[o] \in Nat
          BY <4>2 DEF Reads, PipesOK
        <5> QED
          BY <1>12, <4>2, <5>1 DEF Drain, Drained
      <4> QED
        BY <4>1, <4>2
    <3> QED
      BY <1>12, <3>1, <3>2 DEF Drain, Drained
  <2>7. InputOpen'
    BY <1>12, ConstantsOK, QueueTails DEF Drain, Reads, Min2, AtEof,
       InputOpen, InputNotCut, Holders, Live, Flow, StepOK, StopOK, PipesOK,
       ProcsOK, Procs, Owned
  <2> QED
    BY <2>1, <2>2, <2>3, <2>4, <2>5, <2>6, <2>7 DEF StopInv
<1>13. CASE Feed
  <2>1. Queues'
    BY <1>13, ConstantsOK, QueueTails DEF Feed, Min2, ClosesStdin, Queues,
       Flow, StepOK
  <2>2. Returning'
    BY <1>13, ConstantsOK, QueueTails DEF Feed, Min2, ClosesStdin, Returning,
       Flow, StepOK, ProcsOK
  <2>3. Deadlines'
    BY <1>13, ConstantsOK, QueueTails DEF Feed, Min2, ClosesStdin, Deadlines,
       Justified, Repeated, Owned, Flow, StepOK, StopOK, ScopeOK, ProcsOK,
       Procs
  <2>4. Forcing'
    BY <1>13, ConstantsOK, QueueTails DEF Feed, Min2, ClosesStdin, Forcing,
       NoPrematureForce, Deadlines, Justified, Repeated, Queues, Returning,
       Flow, StepOK, StopOK, ProcsOK, Procs, Live
  <2>5. Told'
    BY <1>13, ConstantsOK, QueueTails DEF Feed, Min2, ClosesStdin, Told,
       CauseQueued, InLoop, Queues, Deadlines, Flow, StepOK, StopOK, ScopeOK,
       ProcsOK, Procs, Live, Causes
  <2>6. Drained'
    BY <1>13, ConstantsOK, QueueTails DEF Feed, Min2, ClosesStdin, Drained,
       Returning, Flow, StepOK, StopOK, PipesOK, ProcsOK
  <2>7. InputOpen'
    BY <1>13, ConstantsOK, QueueTails DEF Feed, Min2, ClosesStdin, InputOpen,
       InputNotCut, Holders, Live, Flow, StepOK, StopOK, PipesOK, ProcsOK,
       Procs, Owned
  <2> QED
    BY <2>1, <2>2, <2>3, <2>4, <2>5, <2>6, <2>7 DEF StopInv
<1>14. CASE Decide
  <2>1. Queues'
    BY <1>14, ConstantsOK, QueueTails DEF Decide, Send, Finished, Queues,
       Flow, StepOK
  <2>2. Returning'
    BY <1>14, ConstantsOK, QueueTails DEF Decide, Send, Finished, Returning,
       Flow, StepOK, ProcsOK
  <2>3. Deadlines'
    BY <1>14, ConstantsOK, QueueTails DEF Decide, Send, Finished, Deadlines,
       Justified, Repeated, Owned, Flow, StepOK, StopOK, ScopeOK, ProcsOK,
       Procs
  <2>4. Forcing'
    BY <1>14, ConstantsOK, QueueTails DEF Decide, Send, Finished, Forcing,
       NoPrematureForce, Deadlines, Justified, Repeated, Queues, Returning,
       Flow, StepOK, StopOK, ProcsOK, Procs, Live
  <2>5. Told'
    BY <1>14, ConstantsOK, QueueTails DEF Decide, Send, Finished, Told,
       CauseQueued, InLoop, Queues, Deadlines, Flow, StepOK, StopOK, ScopeOK,
       ProcsOK, Procs, Live, Causes
  <2>6. Drained'
    BY <1>14, ConstantsOK, QueueTails DEF Decide, Send, Finished, Drained,
       Returning, Flow, StepOK, StopOK, PipesOK, ProcsOK
  <2>7. InputOpen'
    BY <1>14, ConstantsOK, QueueTails DEF Decide, Send, Finished, InputOpen,
       InputNotCut, Holders, Live, Flow, StepOK, StopOK, PipesOK, ProcsOK,
       Procs, Owned
  <2> QED
    BY <2>1, <2>2, <2>3, <2>4, <2>5, <2>6, <2>7 DEF StopInv
<1>15. CASE Restore
  <2>1. Queues'
    BY <1>15, ConstantsOK, QueueTails DEF Restore, Restored, Deactivated,
       Queues, Flow, StepOK
  <2>2. Returning'
    BY <1>15, ConstantsOK, QueueTails DEF Restore, Restored, Deactivated,
       Returning, Flow, StepOK, ProcsOK
  <2>3. Deadlines'
    BY <1>15, ConstantsOK, QueueTails DEF Restore, Restored, Deactivated,
       Deadlines, Justified, Repeated, Owned, Flow, StepOK, StopOK, ScopeOK,
       ProcsOK, Procs
  <2>4. Forcing'
    BY <1>15, ConstantsOK, QueueTails DEF Restore, Restored, Deactivated,
       Forcing, NoPrematureForce, Deadlines, Justified, Repeated, Queues,
       Returning, Flow, StepOK, StopOK, ProcsOK, Procs, Live
  <2>5. Told'
    BY <1>15, ConstantsOK, QueueTails DEF Restore, Restored, Deactivated,
       Told, CauseQueued, InLoop, Queues, Deadlines, Flow, StepOK, StopOK,
       ScopeOK, ProcsOK, Procs, Live, Causes
  <2>6. Drained'
    BY <1>15, ConstantsOK, QueueTails DEF Restore, Restored, Deactivated,
       Drained, Returning, Flow, StepOK, StopOK, PipesOK, ProcsOK
  <2>7. InputOpen'
    BY <1>15, ConstantsOK, QueueTails DEF Restore, Restored, Deactivated,
       InputOpen, InputNotCut, Holders, Live, Flow, StepOK, StopOK, PipesOK,
       ProcsOK, Procs, Owned
  <2> QED
    BY <2>1, <2>2, <2>3, <2>4, <2>5, <2>6, <2>7 DEF StopInv
<1>16. CASE RestoreFails
  <2>1. Queues'
    BY <1>16, ConstantsOK, QueueTails DEF RestoreFails, Fail, Queues, Flow,
       StepOK
  <2>2. Returning'
    BY <1>16, ConstantsOK, QueueTails DEF RestoreFails, Fail, Returning, Flow,
       StepOK, ProcsOK
  <2>3. Deadlines'
    BY <1>16, ConstantsOK, QueueTails DEF RestoreFails, Fail, Deadlines,
       Justified, Repeated, Owned, Flow, StepOK, StopOK, ScopeOK, ProcsOK,
       Procs
  <2>4. Forcing'
    BY <1>16, ConstantsOK, QueueTails DEF RestoreFails, Fail, Forcing,
       NoPrematureForce, Deadlines, Justified, Repeated, Queues, Returning,
       Flow, StepOK, StopOK, ProcsOK, Procs, Live
  <2>5. Told'
    BY <1>16, ConstantsOK, QueueTails DEF RestoreFails, Fail, Told,
       CauseQueued, InLoop, Queues, Deadlines, Flow, StepOK, StopOK, ScopeOK,
       ProcsOK, Procs, Live, Causes
  <2>6. Drained'
    BY <1>16, ConstantsOK, QueueTails DEF RestoreFails, Fail, Drained,
       Returning, Flow, StepOK, StopOK, PipesOK, ProcsOK
  <2>7. InputOpen'
    BY <1>16, ConstantsOK, QueueTails DEF RestoreFails, Fail, InputOpen,
       InputNotCut, Holders, Live, Flow, StepOK, StopOK, PipesOK, ProcsOK,
       Procs, Owned
  <2> QED
    BY <2>1, <2>2, <2>3, <2>4, <2>5, <2>6, <2>7 DEF StopInv
<1>17. CASE Wait
  <2>1. Queues'
    BY <1>17, ConstantsOK, QueueTails DEF Wait, Queues, Flow, StepOK
  <2>2. Returning'
    BY <1>17, ConstantsOK, QueueTails DEF Wait, Returning, Flow, StepOK,
       ProcsOK
  <2>3. Deadlines'
    BY <1>17, ConstantsOK, QueueTails DEF Wait, Deadlines, Justified,
       Repeated, Owned, Flow, StepOK, StopOK, ScopeOK, ProcsOK, Procs
  <2>4. Forcing'
    BY <1>17, ConstantsOK, QueueTails DEF Wait, Forcing, NoPrematureForce,
       Deadlines, Justified, Repeated, Queues, Returning, Flow, StepOK,
       StopOK, ProcsOK, Procs, Live
  <2>5. Told'
    BY <1>17, ConstantsOK, QueueTails DEF Wait, Told, CauseQueued, InLoop,
       Queues, Deadlines, Flow, StepOK, StopOK, ScopeOK, ProcsOK, Procs, Live,
       Causes
  <2>6. Drained'
    BY <1>17, ConstantsOK, QueueTails DEF Wait, Drained, Returning, Flow,
       StepOK, StopOK, PipesOK, ProcsOK
  <2>7. InputOpen'
    BY <1>17, ConstantsOK, QueueTails DEF Wait, InputOpen, InputNotCut,
       Holders, Live, Flow, StepOK, StopOK, PipesOK, ProcsOK, Procs, Owned
  <2> QED
    BY <2>1, <2>2, <2>3, <2>4, <2>5, <2>6, <2>7 DEF StopInv
<1>18. CASE IoFails
  <2>1. Queues'
    BY <1>18, ConstantsOK, QueueTails DEF IoFails, Fail, Finished, Queues,
       Flow, StepOK
  <2>2. Returning'
    BY <1>18, ConstantsOK, QueueTails DEF IoFails, Fail, Finished, Returning,
       Flow, StepOK, ProcsOK
  <2>3. Deadlines'
    BY <1>18, ConstantsOK, QueueTails DEF IoFails, Fail, Finished, Deadlines,
       Justified, Repeated, Owned, Flow, StepOK, StopOK, ScopeOK, ProcsOK,
       Procs
  <2>4. Forcing'
    BY <1>18, ConstantsOK, QueueTails DEF IoFails, Fail, Finished, Forcing,
       NoPrematureForce, Deadlines, Justified, Repeated, Queues, Returning,
       Flow, StepOK, StopOK, ProcsOK, Procs, Live
  <2>5. Told'
    BY <1>18, ConstantsOK, QueueTails DEF IoFails, Fail, Finished, Told,
       CauseQueued, InLoop, Queues, Deadlines, Flow, StepOK, StopOK, ScopeOK,
       ProcsOK, Procs, Live, Causes
  <2>6. Drained'
    BY <1>18, ConstantsOK, QueueTails DEF IoFails, Fail, Finished, Drained,
       Returning, Flow, StepOK, StopOK, PipesOK, ProcsOK
  <2>7. InputOpen'
    BY <1>18, ConstantsOK, QueueTails DEF IoFails, Fail, Finished, InputOpen,
       InputNotCut, Holders, Live, Flow, StepOK, StopOK, PipesOK, ProcsOK,
       Procs, Owned
  <2> QED
    BY <2>1, <2>2, <2>3, <2>4, <2>5, <2>6, <2>7 DEF StopInv
<1>19. CASE DropTerminal
  <2>1. Queues'
    BY <1>19, ConstantsOK, QueueTails DEF DropTerminal, Send, Restored,
       Deactivated, Queues, Flow, StepOK
  <2>2. Returning'
    BY <1>19, ConstantsOK, QueueTails DEF DropTerminal, Send, Restored,
       Deactivated, Returning, Flow, StepOK, ProcsOK
  <2>3. Deadlines'
    BY <1>19, ConstantsOK, QueueTails DEF DropTerminal, Send, Restored,
       Deactivated, Deadlines, Justified, Repeated, Owned, Flow, StepOK,
       StopOK, ScopeOK, ProcsOK, Procs
  <2>4. Forcing'
    BY <1>19, ConstantsOK, QueueTails DEF DropTerminal, Send, Restored,
       Deactivated, Forcing, NoPrematureForce, Deadlines, Justified, Repeated,
       Queues, Returning, Flow, StepOK, StopOK, ProcsOK, Procs, Live
  <2>5. Told'
    BY <1>19, ConstantsOK, QueueTails DEF DropTerminal, Send, Restored,
       Deactivated, Told, CauseQueued, InLoop, Queues, Deadlines, Flow,
       StepOK, StopOK, ScopeOK, ProcsOK, Procs, Live, Causes
  <2>6. Drained'
    BY <1>19, ConstantsOK, QueueTails DEF DropTerminal, Send, Restored,
       Deactivated, Drained, Returning, Flow, StepOK, StopOK, PipesOK, ProcsOK
  <2>7. InputOpen'
    BY <1>19, ConstantsOK, QueueTails DEF DropTerminal, Send, Restored,
       Deactivated, InputOpen, InputNotCut, Holders, Live, Flow, StepOK,
       StopOK, PipesOK, ProcsOK, Procs, Owned, Returning
  <2> QED
    BY <2>1, <2>2, <2>3, <2>4, <2>5, <2>6, <2>7 DEF StopInv
<1> QED
  BY <1>1, <1>2, <1>3, <1>4, <1>5, <1>6, <1>7, <1>8, <1>9, <1>10, <1>11,
     <1>12, <1>13, <1>14, <1>15, <1>16, <1>17, <1>18, <1>19 DEF Runner,
     Launch, Loop, Ending

\* The child's processes, the user and other terminals keep it: nobody comes back
\* to life or to the group, and whoever holds a pipe got it from a holder.
LEMMA EnvironmentStop == IInv /\ StopInv /\ Environment => StopInv'
<1> SUFFICES ASSUME IInv, StopInv, Environment PROVE StopInv'
  OBVIOUS
<1> USE DEF Before, Sending, LeavingBy, Leader
<1> TypeOK /\ Flow /\ Owned /\ Cleaned /\ Disarmed /\ pc # "done"
  BY DEF IInv, Environment
<1> ScopeOK /\ StepOK /\ StopOK /\ PipesOK /\ ProcsOK
  BY DEF TypeOK
<1> Queues /\ Returning /\ Deadlines /\ Forcing /\ Told /\ Drained /\ InputOpen
  BY DEF StopInv
<1>1. CASE \E s \in Causes : UserSignal(s)
  <2>1. Queues'
    BY <1>1 DEF UserSignal, Cancelled, Queues
  <2>2. Returning'
    BY <1>1 DEF UserSignal, Cancelled, Returning
  <2>3. Deadlines'
    BY <1>1, ConstantsOK DEF UserSignal, Cancelled, Deadlines, Justified,
       Repeated, Owned, ScopeOK, ProcsOK, Procs
  <2>4. Forcing'
    BY <1>1 DEF UserSignal, Cancelled, Forcing, NoPrematureForce, Justified,
       Repeated, ScopeOK
  <2>5. Told'
    BY <1>1, ConstantsOK DEF UserSignal, Cancelled, Told, CauseQueued, Live,
       ProcsOK, Procs
  <2>6. Drained'
    BY <1>1 DEF UserSignal, Cancelled, Drained
  <2>7. InputOpen'
    BY <1>1, ConstantsOK DEF UserSignal, Cancelled, InputOpen, InputNotCut,
       Holders, Live, ProcsOK, Procs, Ends
  <2> QED
    BY <2>1, <2>2, <2>3, <2>4, <2>5, <2>6, <2>7 DEF StopInv
<1>2. CASE Stop
  <2>1. Queues'
    BY <1>2 DEF Stop, Queues
  <2>2. Returning'
    BY <1>2 DEF Stop, Returning
  <2>3. Deadlines'
    BY <1>2, ConstantsOK DEF Stop, Deadlines, Justified, Repeated, Owned,
       ScopeOK, ProcsOK, Procs
  <2>4. Forcing'
    BY <1>2 DEF Stop, Forcing, NoPrematureForce, Justified, Repeated, ScopeOK
  <2>5. Told'
    BY <1>2, ConstantsOK DEF Stop, Told, CauseQueued, Live, ProcsOK, Procs
  <2>6. Drained'
    BY <1>2 DEF Stop, Drained
  <2>7. InputOpen'
    BY <1>2, ConstantsOK DEF Stop, InputOpen, InputNotCut, Holders, Live,
       ProcsOK, Procs, Ends
  <2> QED
    BY <2>1, <2>2, <2>3, <2>4, <2>5, <2>6, <2>7 DEF StopInv
<1>3. CASE \E p \in Procs : LeaveGroup(p)
  <2>1. Queues'
    BY <1>3 DEF LeaveGroup, Queues
  <2>2. Returning'
    BY <1>3 DEF LeaveGroup, Returning
  <2>3. Deadlines'
    BY <1>3, ConstantsOK DEF LeaveGroup, Deadlines, Justified, Repeated,
       Owned, ScopeOK, ProcsOK, Procs
  <2>4. Forcing'
    BY <1>3 DEF LeaveGroup, Forcing, NoPrematureForce, Justified, Repeated,
       ScopeOK
  <2>5. Told'
    BY <1>3, ConstantsOK DEF LeaveGroup, Told, CauseQueued, Live, ProcsOK,
       Procs
  <2>6. Drained'
    BY <1>3 DEF LeaveGroup, Drained
  <2>7. InputOpen'
    BY <1>3, ConstantsOK DEF LeaveGroup, InputOpen, InputNotCut, Holders,
       Live, ProcsOK, Procs, Ends
  <2> QED
    BY <2>1, <2>2, <2>3, <2>4, <2>5, <2>6, <2>7 DEF StopInv
<1>4. CASE \E p \in Procs : Exit(p)
  <2>1. Queues'
    BY <1>4 DEF Exit, Queues
  <2>2. Returning'
    BY <1>4 DEF Exit, Returning
  <2>3. Deadlines'
    BY <1>4, ConstantsOK DEF Exit, Deadlines, Justified, Repeated, Owned,
       ScopeOK, ProcsOK, Procs
  <2>4. Forcing'
    BY <1>4 DEF Exit, Forcing, NoPrematureForce, Justified, Repeated, ScopeOK
  <2>5. Told'
    BY <1>4, ConstantsOK DEF Exit, Told, CauseQueued, Live, ProcsOK, Procs
  <2>6. Drained'
    BY <1>4 DEF Exit, Drained
  <2>7. InputOpen'
    BY <1>4, ConstantsOK DEF Exit, InputOpen, InputNotCut, Holders, Live,
       ProcsOK, Procs, Ends
  <2> QED
    BY <2>1, <2>2, <2>3, <2>4, <2>5, <2>6, <2>7 DEF StopInv
<1>5. CASE \E p \in Procs : ReadStdin(p)
  <2>1. Queues'
    BY <1>5 DEF ReadStdin, Queues
  <2>2. Returning'
    BY <1>5 DEF ReadStdin, Returning
  <2>3. Deadlines'
    BY <1>5, ConstantsOK DEF ReadStdin, Deadlines, Justified, Repeated, Owned,
       ScopeOK, ProcsOK, Procs
  <2>4. Forcing'
    BY <1>5 DEF ReadStdin, Forcing, NoPrematureForce, Justified, Repeated,
       ScopeOK
  <2>5. Told'
    BY <1>5, ConstantsOK DEF ReadStdin, Told, CauseQueued, Live, ProcsOK,
       Procs
  <2>6. Drained'
    BY <1>5 DEF ReadStdin, Drained
  <2>7. InputOpen'
    BY <1>5, ConstantsOK DEF ReadStdin, InputOpen, InputNotCut, Holders, Live,
       ProcsOK, Procs, Ends
  <2> QED
    BY <2>1, <2>2, <2>3, <2>4, <2>5, <2>6, <2>7 DEF StopInv
<1>6. CASE \E p \in Procs, q \in Descendants : Fork(p, q)
  <2>1. Queues'
    BY <1>6 DEF Fork, Queues
  <2>2. Returning'
    BY <1>6 DEF Fork, Returning
  <2>3. Deadlines'
    BY <1>6, ConstantsOK DEF Fork, Deadlines, Justified, Repeated, Owned,
       ScopeOK, ProcsOK, Procs
  <2>4. Forcing'
    BY <1>6 DEF Fork, Forcing, NoPrematureForce, Justified, Repeated, ScopeOK
  <2>5. Told'
    BY <1>6, ConstantsOK DEF Fork, Told, CauseQueued, Live, ProcsOK, Procs
  <2>6. Drained'
    BY <1>6 DEF Fork, Drained
  <2>7. InputOpen'
    BY <1>6, ConstantsOK DEF Fork, InputOpen, InputNotCut, Holders, Live,
       ProcsOK, Procs, Ends
  <2> QED
    BY <2>1, <2>2, <2>3, <2>4, <2>5, <2>6, <2>7 DEF StopInv
<1>7. CASE \E p \in Procs, e \in Ends : CloseEnd(p, e)
  <2>1. Queues'
    BY <1>7 DEF CloseEnd, Queues
  <2>2. Returning'
    BY <1>7 DEF CloseEnd, Returning
  <2>3. Deadlines'
    BY <1>7, ConstantsOK DEF CloseEnd, Deadlines, Justified, Repeated, Owned,
       ScopeOK, ProcsOK, Procs
  <2>4. Forcing'
    BY <1>7 DEF CloseEnd, Forcing, NoPrematureForce, Justified, Repeated,
       ScopeOK
  <2>5. Told'
    BY <1>7, ConstantsOK DEF CloseEnd, Told, CauseQueued, Live, ProcsOK, Procs
  <2>6. Drained'
    BY <1>7 DEF CloseEnd, Drained
  <2>7. InputOpen'
    BY <1>7, ConstantsOK DEF CloseEnd, InputOpen, InputNotCut, Holders, Live,
       ProcsOK, Procs, Ends
  <2> QED
    BY <2>1, <2>2, <2>3, <2>4, <2>5, <2>6, <2>7 DEF StopInv
<1>8. CASE \E p \in Procs, o \in Outputs : Write(p, o)
  <2>1. Queues'
    BY <1>8 DEF Write, Queues
  <2>2. Returning'
    BY <1>8 DEF Write, Returning
  <2>3. Deadlines'
    BY <1>8, ConstantsOK DEF Write, Deadlines, Justified, Repeated, Owned,
       ScopeOK, ProcsOK, Procs
  <2>4. Forcing'
    BY <1>8 DEF Write, Forcing, NoPrematureForce, Justified, Repeated, ScopeOK
  <2>5. Told'
    BY <1>8, ConstantsOK DEF Write, Told, CauseQueued, Live, ProcsOK, Procs
  <2>6. Drained'
    BY <1>8 DEF Write, Drained, PipesOK
  <2>7. InputOpen'
    BY <1>8, ConstantsOK DEF Write, InputOpen, InputNotCut, Holders, Live,
       ProcsOK, Procs, Ends
  <2> QED
    BY <2>1, <2>2, <2>3, <2>4, <2>5, <2>6, <2>7 DEF StopInv
<1>9. CASE TakeTerminal
  <2>1. Queues'
    BY <1>9 DEF TakeTerminal, Queues
  <2>2. Returning'
    BY <1>9 DEF TakeTerminal, Returning, Cleaned, GroupGone, Flow, StepOK
  <2>3. Deadlines'
    BY <1>9, ConstantsOK DEF TakeTerminal, Deadlines, Justified, Repeated,
       Owned, ScopeOK, ProcsOK, Procs
  <2>4. Forcing'
    BY <1>9 DEF TakeTerminal, Forcing, NoPrematureForce, Justified, Repeated,
       ScopeOK
  <2>5. Told'
    BY <1>9, ConstantsOK DEF TakeTerminal, Told, CauseQueued, Live, ProcsOK,
       Procs
  <2>6. Drained'
    BY <1>9 DEF TakeTerminal, Drained
  <2>7. InputOpen'
    BY <1>9, ConstantsOK DEF TakeTerminal, InputOpen, InputNotCut, Holders,
       Live, ProcsOK, Procs, Ends
  <2> QED
    BY <2>1, <2>2, <2>3, <2>4, <2>5, <2>6, <2>7 DEF StopInv
<1> QED
  BY <1>1, <1>2, <1>3, <1>4, <1>5, <1>6, <1>7, <1>8, <1>9 DEF Environment, Child

\* Time lets deadlines run, and neither sets nor clears one.
LEMMA TickStop == IInv /\ StopInv /\ Tick => StopInv'
<1> SUFFICES ASSUME IInv, StopInv, Tick PROVE StopInv'
  OBVIOUS
<1>1. /\ stopping' # NoTimer => stopping # NoTimer
      /\ (killed' # NoTimer <=> killed # NoTimer)
  BY DEF IInv, TypeOK, StopOK, Tick, NoTimer
<1>2. Queues' /\ Returning'
  BY DEF StopInv, Tick, Queues, Returning
<1>3. Deadlines' /\ Forcing'
  BY <1>1 DEF StopInv, Tick, Deadlines, Forcing, NoPrematureForce, Justified, Repeated
<1>4. Told'
  BY DEF StopInv, Tick, Told, CauseQueued, Live
<1>5. Drained' /\ InputOpen'
  BY <1>1 DEF StopInv, Tick, Drained, InputOpen, InputNotCut, Holders, Live
<1> QED
  BY <1>2, <1>3, <1>4, <1>5 DEF StopInv

\* StopInv is about the variables.
LEMMA StutterStop == StopInv /\ UNCHANGED vars => StopInv'
<1> SUFFICES ASSUME StopInv, UNCHANGED vars PROVE StopInv'
  OBVIOUS
<1>1. Queues' /\ Returning' /\ Told'
  BY DEF StopInv, Queues, Returning, Told, CauseQueued, Live
<1>2. Deadlines' /\ Forcing'
  BY DEF StopInv, Deadlines, Forcing, NoPrematureForce, Justified, Repeated
<1>3. Drained' /\ InputOpen'
  BY DEF StopInv, Drained, InputOpen, InputNotCut, Holders, Live
<1> QED
  BY <1>1, <1>2, <1>3 DEF StopInv

\* Nothing has been sent, set or written before the call.
LEMMA InitStop == Init => StopInv
<1> SUFFICES ASSUME Init PROVE StopInv
  OBVIOUS
<1>1. Queues /\ Returning /\ Told
  BY DEF Init, Queues, Returning, Told, CauseQueued, Sending, InLoop, Before, Live, Leader
<1>2. Deadlines /\ Forcing
  BY DEF Init, Deadlines, Forcing, NoPrematureForce, Sending, Before
<1>3. Drained /\ InputOpen
  BY DEF Init, Drained, InputOpen, InputNotCut, Sending, Before
<1> QED
  BY <1>1, <1>2, <1>3 DEF StopInv

\* StopInv is inductive together with IInv of ProcessRunnerProofs.
LEMMA SpecStop == Spec => []StopInv
<1>1. IInv /\ StopInv /\ [Next]_vars => StopInv'
  BY RunnerStop, EnvironmentStop, TickStop, StutterStop DEF Next, Returned
<1> QED
  BY <1>1, InitStop, SpecIInv, PTL DEF Spec

-----------------------------------------------------------------------------
\* A stop is orderly, whatever the deadlines, the signals and the processes: no
\* leader that is still alive is sent SIGTERM or SIGKILL by an escalation unless
\* the user repeated himself, a system call failed, or the cancellation of a
\* command that has a deadline ran out of time; and every live leader got the
\* forwarded signal, once unless it had left the group (Forward, Completed,
\* Escalate of run_owned_process; signal_with).
THEOREM StopsInOrder == Spec => []OrderlyStop
<1>1. StopInv => OrderlyStop
  BY DEF StopInv, OrderlyStop, Forcing, Told, LeaderSignalled, CauseQueued, InLoop,
     Sending
<1> QED
  BY <1>1, SpecStop, PTL

\* No output is lost and no input is cut: a command that ends without SIGKILL
\* has delivered every chunk its processes wrote, for any number of pipes,
\* chunks and reads per turn (drain_pipe, write_child_stdin).
THEOREM NothingCutShort == Spec => []PipesComplete
<1>1. StopInv /\ IInv => OutputComplete
  <2> SUFFICES ASSUME StopInv, IInv, result = "output", killed = NoTimer
               PROVE  captured = sent
    BY DEF OutputComplete
  <2>1. open = {} /\ result # "error"
    BY DEF StopInv, Returning, Drained
  <2>2. ASSUME NEW o \in Outputs PROVE captured[o] = sent[o]
    BY <2>1 DEF StopInv, Drained, IInv, TypeOK, PipesOK
  <2> QED
    BY <2>2 DEF IInv, TypeOK, PipesOK
<1>2. StopInv => InputNotCut
  BY DEF StopInv, InputOpen
<1> QED
  BY <1>1, <1>2, SpecStop, SpecIInv, PTL DEF PipesComplete

\* A run that succeeds never leaves the terminal with the command's dead group,
\* even if one of its processes grabbed it at the last moment
\* (TerminalForeground::restore comes after the last SIGKILL).
THEOREM TerminalComesBack == Spec => []TerminalReturned
<1>1. StopInv => TerminalReturned
  BY DEF StopInv, Returning, TerminalReturned
<1> QED
  BY <1>1, SpecStop, PTL
=============================================================================
