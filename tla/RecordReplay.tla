---------------------------- MODULE RecordReplay ----------------------------
(***************************************************************************)
(* visit_ordered_records of src/perfdata/fold.rs with its                  *)
(* OrderedRecordQueue, and the WindowStore of src/perfdata/source.rs that  *)
(* keeps the file windows queued records point into.                       *)
(*                                                                         *)
(* Records are read in file order.  A record without a usable timestamp is *)
(* delivered at once; the others wait, and a FINISHED_ROUND record flushes *)
(* those up to the largest timestamp seen before the previous round ended. *)
(* Slots of the window store are counted, freed and reused.                *)
(*                                                                         *)
(* The file is an input: each read takes any record.  The consumer may     *)
(* fail on any record.                                                     *)
(***************************************************************************)
EXTENDS Integers, Sequences, FiniteSets

CONSTANTS
  MaxRecords,   \* bound on the records of the file
  MaxTime,      \* largest timestamp; 0 stands for none, zero or u64::MAX
  MaxSize,      \* largest record size (u16::MAX in the file format)
  WindowSize,   \* SCAN_WINDOW_SIZE
  Overlap       \* bytes a window extends beyond its range (u16::MAX)

ASSUME ConstantsOK ==
  /\ MaxRecords \in Nat /\ MaxTime \in Nat
  /\ MaxSize \in Nat \ {0} /\ WindowSize \in Nat \ {0}
  /\ Overlap = MaxSize

VARIABLES
  ordered,                            \* the file keeps perf's promise about rounds
  offset, count, round,               \* scan position, records read, rounds ended
  pending, next_flush_time, max_timestamp,
  windows, refs, free, last,          \* WindowStore
  ready, pc,                          \* records of the flush under way, step
  seen, delivered                     \* history: [offset, time] read, delivered

scanVars  == <<ordered, offset, count, round>>
queueVars == <<pending, next_flush_time, max_timestamp>>
storeVars == <<windows, refs, free, last>>
histVars  == <<seen, delivered>>
vars == <<scanVars, queueVars, storeVars, ready, pc, histVars>>

None  == -1
Times == 1 .. MaxTime
Sizes == 1 .. MaxSize
Slots == DOMAIN windows
Max2(a, b) == IF a > b THEN a ELSE b

\* A QueuedPerfRecord; round is history.
Entry == [offset : Nat, size : Sizes, time : Times, slot : Nat, round : Nat]
Key(e) == [offset |-> e.offset, time |-> e.time]

-----------------------------------------------------------------------------
(* WindowStore. *)

RangeStart(o) == (o \div WindowSize) * WindowSize

Backing(start) == [start |-> start, end |-> start + WindowSize + Overlap]
NoBacking == [start |-> None, end |-> None]

\* retain_with reuses the last window, or gives it up if nobody needs it and
\* takes a free slot or a new one.
Reuses(start) == last # None /\ windows[last].start = start

GivenUp == IF last # None /\ refs[last] = 0 THEN <<last>> ELSE <<>>

Retain(start, slot) ==
  IF Reuses(start)
    THEN /\ slot = last
         /\ refs' = [refs EXCEPT ![last] = @ + 1]
         /\ UNCHANGED <<windows, free, last>>
    ELSE LET stack == free \o GivenUp
             grown == IF stack = <<>> THEN Append(windows, NoBacking) ELSE windows
         IN /\ slot = IF stack = <<>> THEN Len(grown) ELSE stack[Len(stack)]
            /\ windows' = [grown EXCEPT ![slot] = Backing(start)]
            /\ refs' = [(IF stack = <<>> THEN Append(refs, 0) ELSE refs) EXCEPT ![slot] = 1]
            /\ free' = IF stack = <<>> THEN <<>> ELSE SubSeq(stack, 1, Len(stack) - 1)
            /\ last' = slot

\* What is left of the store when the records es have been released: a window
\* nobody points into is dropped, but the last one stays for the next record.
Held(es, s) == refs[s] - Cardinality({e \in es : e.slot = s})
Dropped(es) == {s \in Slots : refs[s] > 0 /\ Held(es, s) = 0 /\ s # last}

Release(es) ==
  /\ refs' = [s \in Slots |-> Held(es, s)]
  /\ windows' = [s \in Slots |-> IF s \in Dropped(es) THEN NoBacking ELSE windows[s]]
  /\ \E q \in [1 .. Cardinality(Dropped(es)) -> Dropped(es)] :
       /\ {q[i] : i \in DOMAIN q} = Dropped(es)
       /\ free' = free \o q
  /\ UNCHANGED last

-----------------------------------------------------------------------------
(* The scan. *)

\* perf writes a round only when every event up to the previous round's end has
\* been read from the ring buffers: no event of this round is older than one of
\* the round before the previous one.
Promised(t) == \A e \in seen : (e.time > 0 /\ e.round + 2 <= round) => e.time <= t

Read(size) ==
  /\ pc = "read" /\ count < MaxRecords
  /\ count' = count + 1
  /\ offset' = offset + size

\* No usable timestamp: apply_record directly.
ReadDirect(size) ==
  /\ Read(size)
  /\ seen' = seen \cup {[offset |-> offset, time |-> 0, round |-> round]}
  /\ delivered' = delivered \cup {[offset |-> offset, time |-> 0]}
  /\ UNCHANGED <<ordered, round, queueVars, storeVars, ready, pc>>

\* OrderedRecordQueue::queue.  Mutant: the last timestamp, not the largest.
LastTimestamp(t) == t
MaxTimestamp(t) == IF pending = {} THEN t ELSE Max2(max_timestamp, t)

ReadTimed(size, t) ==
  /\ Read(size)
  /\ ordered => Promised(t)
  /\ \E slot \in 1 .. Len(windows) + 1 :
       /\ Retain(RangeStart(offset), slot)
       /\ pending' = pending \cup {[offset |-> offset, size |-> size, time |-> t,
                                    slot |-> slot, round |-> round]}
  /\ max_timestamp' = MaxTimestamp(t)
  /\ seen' = seen \cup {[offset |-> offset, time |-> t, round |-> round]}
  /\ UNCHANGED <<ordered, round, next_flush_time, ready, pc, delivered>>

\* flush_round_with: up to the limit of the round before, which this round's end
\* then replaces.  Mutant: the limit is this round's.
LimitNow == max_timestamp
Limit == next_flush_time

\* The sorted queue is split at the limit.
Kept == {e \in pending : e.time > Limit}

ReadRound(size) ==
  /\ Read(size)
  /\ round' = round + 1
  /\ ready' = {e \in pending : e.time <= Limit}
  /\ pending' = Kept
  /\ next_flush_time' = max_timestamp
  /\ pc' = "flush"
  /\ UNCHANGED <<ordered, max_timestamp, storeVars, histVars>>

\* flush_final_with at the end of the data section.
EndOfData ==
  /\ pc = "read"
  /\ ready' = pending
  /\ pending' = {}
  /\ pc' = "final"
  /\ UNCHANGED <<scanVars, next_flush_time, max_timestamp, storeVars, histVars>>

\* A truncated, undersized or overrunning record, or a consumer that fails on a
\* record delivered directly.
ReadFails ==
  /\ pc = "read"
  /\ pc' = "failed"
  /\ UNCHANGED <<scanVars, queueVars, storeVars, ready, histVars>>

-----------------------------------------------------------------------------
(* flush_through_with: the ready records in (time, offset) order. *)

Precedes(e, f) == e.time < f.time \/ (e.time = f.time /\ e.offset < f.offset)

First(e) == \A f \in ready \ {e} : Precedes(e, f)

Deliver ==
  /\ pc \in {"flush", "final"}
  /\ \E e \in ready :
       /\ First(e)
       /\ Release({e})
       /\ ready' = ready \ {e}
       /\ delivered' = delivered \cup {Key(e)}
  /\ UNCHANGED <<scanVars, queueVars, pc, seen>>

\* The consumer fails: the rest of the flush is released undelivered.
DeliverFails ==
  /\ pc \in {"flush", "final"} /\ ready # {}
  /\ Release(ready)
  /\ ready' = {}
  /\ pc' = "failed"
  /\ UNCHANGED <<scanVars, queueVars, histVars>>

Flushed ==
  /\ pc \in {"flush", "final"} /\ ready = {}
  /\ pc' = IF pc = "flush" THEN "read" ELSE "done"
  /\ UNCHANGED <<scanVars, queueVars, storeVars, ready, histVars>>

-----------------------------------------------------------------------------
Init ==
  /\ ordered \in BOOLEAN
  /\ offset = 0 /\ count = 0 /\ round = 0
  /\ pending = {} /\ next_flush_time = None /\ max_timestamp = None
  /\ windows = <<>> /\ refs = <<>> /\ free = <<>> /\ last = None
  /\ ready = {} /\ pc = "read"
  /\ seen = {} /\ delivered = {}

Scan == \E size \in Sizes :
          ReadDirect(size) \/ ReadRound(size) \/ \E t \in Times : ReadTimed(size, t)
Flush == Deliver \/ DeliverFails \/ Flushed
Ended == pc \in {"done", "failed"} /\ UNCHANGED vars

Next == Scan \/ EndOfData \/ ReadFails \/ Flush \/ Ended

Spec == Init /\ [][Next]_vars

-----------------------------------------------------------------------------
(* Properties. *)

Queued == pending \cup ready
SeenKeys == {Key(e) : e \in seen}

ScanOK ==
  /\ ordered \in BOOLEAN
  /\ offset \in Nat /\ count \in 0 .. MaxRecords /\ round \in Nat
  /\ seen \subseteq [offset : Nat, time : 0 .. MaxTime, round : Nat]
  /\ delivered \subseteq [offset : Nat, time : 0 .. MaxTime]

QueueOK ==
  /\ pending \subseteq Entry /\ ready \subseteq Entry
  /\ next_flush_time \in Times \cup {None} /\ max_timestamp \in Times \cup {None}
  /\ pc \in {"read", "flush", "final", "done", "failed"}

StoreOK ==
  /\ windows \in Seq([start : Nat \cup {None}, end : Nat \cup {None}])
  /\ refs \in Seq(Nat) /\ Len(refs) = Len(windows)
  /\ free \in Seq(Nat) /\ last \in Nat \cup {None}

\* Every variable keeps its type; a window's count never goes below zero.
TypeOK == ScanOK /\ QueueOK /\ StoreOK

\* No record is lost or delivered twice: what was read is delivered or waiting,
\* and never both, until the consumer fails; at the end nothing waits.
NothingLost ==
  pc # "failed" =>
    /\ SeenKeys = delivered \cup {Key(e) : e \in Queued}
    /\ delivered \cap {Key(e) : e \in Queued} = {}
    /\ pc = "done" => Queued = {}

\* A record that waits still has its bytes: its slot holds a window that covers
\* the whole record ("queued record retains its read window").
BytesRetained ==
  \A e \in Queued :
    /\ e.slot \in Slots
    /\ windows[e.slot].start <= e.offset /\ e.offset + e.size <= windows[e.slot].end

\* The store's books balance: counts are the waiting records, a slot is free
\* exactly once and exactly when it holds nothing, and an unused window is kept
\* only for the record that may come next.
StoreBalanced ==
  /\ \A s \in Slots : refs[s] = Cardinality({e \in Queued : e.slot = s})
  /\ \A i, j \in DOMAIN free : free[i] = free[j] => i = j
  /\ \A s \in Slots :
       (windows[s] = NoBacking) <=> (\E i \in DOMAIN free : free[i] = s)
  /\ \A s \in Slots : (refs[s] = 0 /\ windows[s] # NoBacking) => s = last

\* The queue never holds more than two rounds: after a flush no record of a round
\* before the previous one is left, whatever the timestamps.
TwoRoundLag == pc = "read" => \A e \in pending : e.round + 1 >= round

\* The replay hands records over as RecordDelivery says: once each and, when
\* the recording keeps perf's promise, in time order.
Delivery == INSTANCE RecordDelivery
  WITH Record <- [offset : 0 .. MaxRecords * MaxSize, time : 0 .. MaxTime],
       arrived <- SeenKeys, delivered <- delivered
DeliverySpec == Delivery!Spec

\* The queue loses nothing and keeps nothing beyond two rounds; the window store
\* holds exactly what the queue needs; and the variables keep their types.
QueueExact == TypeOK /\ NothingLost /\ TwoRoundLag /\ BytesRetained /\ StoreBalanced
=============================================================================
