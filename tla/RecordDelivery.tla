--------------------------- MODULE RecordDelivery ---------------------------
(***************************************************************************)
(* What replaying a recording promises its consumer: every record is       *)
(* handed over at most once, after it was read, and timestamped records    *)
(* come in time order, ties in file order.  RecordReplay implements it.    *)
(***************************************************************************)
EXTENDS Integers

CONSTANT
  Record       \* the records there may be: [offset : Nat, time : Nat]

VARIABLES
  ordered,     \* the recording keeps perf's promise about its rounds
  arrived,     \* records read so far
  delivered    \* records handed over so far

vars == <<ordered, arrived, delivered>>

Init == ordered \in BOOLEAN /\ arrived = {} /\ delivered = {}

Timed(r) == r.time > 0

\* r comes before s in a replay.
Precedes(r, s) == r.time < s.time \/ (r.time = s.time /\ r.offset < s.offset)

Arrive(r) ==
  /\ \A s \in arrived : s.offset < r.offset
  /\ arrived' = arrived \cup {r}
  /\ UNCHANGED <<ordered, delivered>>

Deliver(r) ==
  /\ r \in arrived \ delivered
  /\ (ordered /\ Timed(r)) =>
       \A s \in delivered : Timed(s) => Precedes(s, r)
  /\ delivered' = delivered \cup {r}
  /\ UNCHANGED <<ordered, arrived>>

\* A record without a timestamp is handed over as it is read.
ArriveDirect(r) ==
  /\ ~Timed(r)
  /\ \A s \in arrived : s.offset < r.offset
  /\ arrived' = arrived \cup {r}
  /\ delivered' = delivered \cup {r}
  /\ UNCHANGED ordered

Next ==
  \/ \E r \in Record \ arrived : Arrive(r) \/ ArriveDirect(r)
  \/ \E r \in arrived : Deliver(r)

Spec == Init /\ [][Next]_vars
=============================================================================
