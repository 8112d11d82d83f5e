------------------------- MODULE DeferredCallchains -------------------------
(***************************************************************************)
(* SampleSink of src/perfdata/fold.rs: samples whose user callchain the    *)
(* kernel records later.  Such a sample carries a cookie and waits.  A     *)
(* CALLCHAIN_DEFERRED record of its thread releases it, and completes it   *)
(* if the cookie is the sample's; what still waits when the data ends is   *)
(* flushed.                                                                *)
(*                                                                         *)
(* Records are numbered as they are applied.  Either side may lack a       *)
(* thread id (NoTid).  The consumer may fail at any delivery.              *)
(***************************************************************************)
EXTENDS Integers, Sequences, SequencesExt, FiniteSets

CONSTANTS
  Tids, NoTid,    \* thread ids, and a record without one
  Cookies,
  NoCookie,       \* cookie_to_suppress is None
  MaxRecords      \* bound on the records

DeferredAssumption ==
  NoTid \notin Tids /\ NoCookie \notin Cookies /\ MaxRecords \in Nat

VARIABLES
  deferred_samples,   \* SessionState::deferred_samples
  batch,              \* taken from it, being delivered
  pc,                 \* "replay", "matched", "final", "done", "failed"
  count,
  samples, chains,    \* history: deferred samples and chain records applied
  output              \* history: deferred samples delivered

histVars == <<samples, chains>>
vars == <<deferred_samples, batch, pc, count, histVars, output>>

Threads == Tids \cup {NoTid}

\* A DeferredFoldSample; chain is the record merged into its payload, 0 for none.
DeferredFoldSample ==
  [n : 1 .. MaxRecords, tid : Threads, cookie : Cookies,
   cookie_to_suppress : Cookies \cup {NoCookie}, chain : 0 .. MaxRecords]

-----------------------------------------------------------------------------
Apply == pc = "replay" /\ count < MaxRecords /\ count' = count + 1

\* write_sample queues the sample before anything is resolved.
Defer ==
  \E tid \in Threads, cookie \in Cookies :
    /\ Apply
    /\ deferred_samples' = Append(deferred_samples,
         [n |-> count', tid |-> tid, cookie |-> cookie, cookie_to_suppress |-> cookie, chain |-> 0])
    /\ samples' = samples \cup {[n |-> count', tid |-> tid, cookie |-> cookie]}
    /\ UNCHANGED <<batch, pc, chains, output>>

\* merge_deferred_sample_payload: the chain's addresses replace the cookie.
Merged(s, n) == [s EXCEPT !.chain = n]

\* A chain of the sample's thread with another cookie: the sample goes out as it
\* is, its cookie shown as an address.  Mutant: not shown.
ResolvedKeeping(s, n, cookie) == IF s.cookie = cookie THEN Merged(s, n) ELSE s
Resolved(s, n, cookie) ==
  IF s.cookie = cookie THEN Merged(s, n) ELSE [s EXCEPT !.cookie_to_suppress = NoCookie]

\* The samples a chain record takes.
Taken(s, tid, cookie) == s.tid = tid

\* The entries of a list at these positions, in their order.
At(list, positions) ==
  [k \in 1 .. Cardinality(positions) |->
     list[CHOOSE i \in positions : Cardinality({j \in positions : j <= i}) = k]]

\* take_resolved_deferred_samples: the list is split, both parts in order.
TakenAt(tid, cookie) ==
  {i \in DOMAIN deferred_samples : Taken(deferred_samples[i], tid, cookie)}
Matched(tid, cookie) == At(deferred_samples, TakenAt(tid, cookie))
Unmatched(tid, cookie) ==
  At(deferred_samples, DOMAIN deferred_samples \ TakenAt(tid, cookie))

CallchainDeferred ==
  \E tid \in Threads, cookie \in Cookies :
    /\ Apply
    /\ LET taken == Matched(tid, cookie)
       IN batch' = [i \in DOMAIN taken |-> Resolved(taken[i], count', cookie)]
    /\ deferred_samples' = Unmatched(tid, cookie)
    /\ chains' = chains \cup {[n |-> count', tid |-> tid, cookie |-> cookie]}
    /\ pc' = "matched"
    /\ UNCHANGED <<samples, output>>

\* A payload cannot be merged: the list was taken whole and is lost with it.
MergeFails ==
  \E tid \in Threads, cookie \in Cookies :
    /\ Apply
    /\ \E s \in ToSet(Matched(tid, cookie)) : s.cookie = cookie
    /\ deferred_samples' = <<>>
    /\ pc' = "failed"
    /\ UNCHANGED <<batch, histVars, output>>

\* deliver_deferred_sample, one after the other.
Deliver ==
  /\ pc \in {"matched", "final"} /\ batch # <<>>
  /\ output' = Append(output, Head(batch))
  /\ batch' = Tail(batch)
  /\ UNCHANGED <<deferred_samples, pc, count, histVars>>

\* The consumer's error ends the replay; the rest of the batch is dropped.
DeliverFails ==
  /\ pc \in {"matched", "final"} /\ batch # <<>>
  /\ batch' = <<>>
  /\ pc' = "failed"
  /\ UNCHANGED <<deferred_samples, count, histVars, output>>

BatchDone ==
  /\ pc \in {"matched", "final"} /\ batch = <<>>
  /\ pc' = IF pc = "matched" THEN "replay" ELSE "done"
  /\ UNCHANGED <<deferred_samples, batch, count, histVars, output>>

\* flush_deferred_samples, when replay_records has visited every record.
Flushed == deferred_samples
EndOfData ==
  /\ pc = "replay"
  /\ batch' = Flushed
  /\ deferred_samples' = <<>>
  /\ pc' = "final"
  /\ UNCHANGED <<count, histVars, output>>

Ended == pc \in {"done", "failed"} /\ UNCHANGED vars

Init ==
  /\ deferred_samples = <<>> /\ batch = <<>> /\ pc = "replay" /\ count = 0
  /\ samples = {} /\ chains = {} /\ output = <<>>

Next == \/ Defer \/ CallchainDeferred \/ MergeFails \/ EndOfData
        \/ Deliver \/ DeliverFails \/ BatchDone \/ Ended

Spec == Init /\ [][Next]_vars

-----------------------------------------------------------------------------
(* Properties. *)

Held == ToSet(deferred_samples) \cup ToSet(batch) \cup ToSet(output)

\* Every variable keeps its type.
TypeOK ==
  /\ deferred_samples \in Seq(DeferredFoldSample) /\ batch \in Seq(DeferredFoldSample)
  /\ output \in Seq(DeferredFoldSample)
  /\ pc \in {"replay", "matched", "final", "done", "failed"} /\ count \in 0 .. MaxRecords

\* Until the replay fails, every deferred sample is in exactly one place, once:
\* waiting, being delivered, or delivered; in the end all are delivered.
ExactlyOnce ==
  pc # "failed" =>
    /\ {s.n : s \in samples} = {s.n : s \in Held}
    /\ Len(deferred_samples) + Len(batch) + Len(output) = Cardinality(samples)
    /\ pc = "done" => Len(output) = Cardinality(samples)

\* The first chain record of a sample's thread after it decides, and no other:
\* with the sample's cookie it is merged; with another the sample goes out
\* incomplete and shows the cookie as an address; without one it waits to the
\* end and is shown without.
ChainsAfter(s) == {c \in chains : c.tid = s.tid /\ c.n > s.n}
Outcome(s, e) ==
  \/ ChainsAfter(s) = {} /\ e.chain = 0 /\ e.cookie_to_suppress = s.cookie
  \/ \E c \in ChainsAfter(s) :
       /\ \A d \in ChainsAfter(s) : c.n <= d.n
       /\ \/ c.cookie = s.cookie /\ e.chain = c.n /\ e.cookie_to_suppress = s.cookie
          \/ c.cookie # s.cookie /\ e.chain = 0 /\ e.cookie_to_suppress = NoCookie
FirstChainDecides ==
  \A s \in samples : \A e \in ToSet(output) \cup ToSet(batch) : e.n = s.n => Outcome(s, e)

\* The samples of a thread are delivered in the order they were recorded, however
\* chain records of other threads interleave.
ThreadOrder ==
  \A i, j \in DOMAIN output :
    (i < j /\ output[i].tid = output[j].tid) => output[i].n < output[j].n

\* Nothing waits behind its chain: once a thread's chain record has been applied,
\* no sample of the thread from before it is kept.
NoneLeftBehind ==
  \A c \in chains, s \in ToSet(deferred_samples) : c.tid = s.tid => c.n < s.n

\* Every deferred sample is delivered once, in order, as its own chain
\* decides; and the variables keep their types.
DeferredExact ==
  TypeOK /\ ExactlyOnce /\ FirstChainDecides /\ ThreadOrder /\ NoneLeftBehind
=============================================================================
