------------------------- MODULE RecordReplayProofs -------------------------
(***************************************************************************)
(* What is promised about the records of a recording on their way through  *)
(* the fold.                                                               *)
(*                                                                         *)
(* The ordered replay keeps every record and its bytes, and hands them     *)
(* over as RecordDelivery says: for files of any length, records and       *)
(* windows of any size, and a consumer that fails anywhere.                *)
(*                                                                         *)
(* A sample that waits for its callchain is in exactly one place, and is   *)
(* delivered as the first chain record of its thread says: for any threads *)
(* and cookies.                                                            *)
(*                                                                         *)
(* The fold counts what the recording means, in one pass or two: for any   *)
(* objects, build ids and places they are mapped to.                       *)
(***************************************************************************)
EXTENDS RecordFold, FunctionTheorems, FiniteSetTheorems, SequenceTheorems,
        WellFoundedInduction, NaturalsInduction, TLAPS

-----------------------------------------------------------------------------
(* The inductive invariants.                                                 *)

\* The queue is finite, an offset names one record, and what waits has its time
\* and place: nothing is ready outside of a flush.
QueueInv ==
  /\ IsFiniteSet(pending) /\ IsFiniteSet(ready)
  /\ pending \cap ready = {}
  /\ \A e, f \in Queued : e.offset = f.offset => e = f
  /\ \A e \in Queued : e.offset < offset
  /\ \A s \in seen : s.offset < offset
  /\ \A d \in delivered : d.offset < offset
  /\ pc \notin {"flush", "final"} => ready = {}
  /\ pc \in {"final", "done"} => pending = {}

\* The limit of the next flush covers what is left of earlier rounds.
RoundInv ==
  \A e \in pending :
    /\ e.time <= max_timestamp
    /\ e.round <= round /\ round <= e.round + 1
    /\ e.round < round => e.time <= next_flush_time

\* A slot in use holds a window of the file, the one its records point into.
StoreInv ==
  /\ \A i \in DOMAIN free : free[i] \in Slots
  /\ last \in Slots \cup {None} /\ (last # None => windows[last] # NoBacking)
  /\ \A s \in Slots :
       windows[s] # NoBacking =>
         windows[s].start \in Nat /\ windows[s] = Backing(windows[s].start)
  /\ \A e \in Queued : e.slot \in Slots /\ windows[e.slot] = Backing(RangeStart(e.offset))

ReplayInv == TypeOK /\ QueueInv /\ RoundInv /\ StoreInv /\ StoreBalanced /\ NothingLost

\* What bounds the records handed over so far: of a recording that keeps perf's
\* promise, a record of the round before the last that was read.
Old(s) == s.time > 0 /\ s.round + 2 <= round
OrderInv ==
  /\ max_timestamp # None =>
       \E s \in seen : s.time = max_timestamp /\ s.round <= round
  /\ next_flush_time # None =>
       \E s \in seen : s.time = next_flush_time /\ s.round + 1 <= round
  /\ pc = "flush" =>
       \A e \in ready : /\ \E s \in seen : Old(s) /\ e.time <= s.time
                        /\ \A f \in pending : e.time < f.time
  /\ pc \in {"read", "flush"} =>
       \A d \in delivered : d.time > 0 => \E s \in seen : Old(s) /\ d.time <= s.time
  /\ ordered =>
       \A d \in delivered : d.time > 0 => \A e \in Queued : Precedes(d, e)
  /\ offset <= count * MaxSize

-----------------------------------------------------------------------------
(* The window store.                                                         *)

\* A record lies in the window that starts at its range.
LEMMA RangeOfOffset ==
  \A o \in Nat : /\ RangeStart(o) \in Nat
                 /\ RangeStart(o) <= o /\ o < RangeStart(o) + WindowSize
<1> SUFFICES ASSUME NEW o \in Nat
             PROVE  /\ (o \div WindowSize) * WindowSize \in Nat
                    /\ (o \div WindowSize) * WindowSize <= o
                    /\ o < (o \div WindowSize) * WindowSize + WindowSize
  BY DEF RangeStart
<1>1. WindowSize \in Nat \ {0} /\ o \div WindowSize \in Nat
  BY ConstantsOK
<1>2. (o \div WindowSize) * WindowSize \in Nat
  BY <1>1
<1>3. (o \div WindowSize) * WindowSize <= o
  BY <1>1
<1>4. o < (o \div WindowSize) * WindowSize + WindowSize
  BY <1>1
<1> QED
  BY <1>2, <1>3, <1>4

\* Slots are the places of the windows, and counts and windows go together.
LEMMA StoreShape ==
  ASSUME StoreOK
  PROVE  /\ Len(windows) \in Nat /\ Slots = 1 .. Len(windows)
         /\ DOMAIN refs = Slots /\ \A s \in Slots : refs[s] \in Nat
         /\ Len(free) \in Nat /\ DOMAIN free = 1 .. Len(free)
         /\ \A i \in DOMAIN free : free[i] \in Nat
BY LenProperties, ElementOfSeq DEF StoreOK, Slots

\* The records of Q in the window of slot s.
Of(Q, s) == {e \in Q : e.slot = s}

\* The records of a slot, when some are taken out or one is put in.
LEMMA SlotCounts ==
  ASSUME NEW Q, IsFiniteSet(Q), NEW s
  PROVE  /\ IsFiniteSet(Of(Q, s)) /\ Cardinality(Of(Q, s)) \in Nat
         /\ Cardinality(Of(Q, s)) = 0 <=> Of(Q, s) = {}
         /\ \A P \in SUBSET Q :
              Cardinality(Of(Q \ P, s)) = Cardinality(Of(Q, s)) - Cardinality(Of(P, s))
         /\ \A e : e \notin Q =>
              Cardinality(Of(Q \cup {e}, s)) =
                IF e.slot = s THEN Cardinality(Of(Q, s)) + 1 ELSE Cardinality(Of(Q, s))
<1>1. IsFiniteSet(Of(Q, s))
  BY FS_Subset DEF Of
<1>2. Cardinality(Of(Q, s)) \in Nat /\ (Cardinality(Of(Q, s)) = 0 <=> Of(Q, s) = {})
  BY <1>1, FS_CardinalityType, FS_EmptySet
<1>3. ASSUME NEW P \in SUBSET Q
      PROVE  Cardinality(Of(Q \ P, s)) = Cardinality(Of(Q, s)) - Cardinality(Of(P, s))
  <2>1. Of(Q \ P, s) = Of(Q, s) \ Of(P, s) /\ Of(Q, s) \cap Of(P, s) = Of(P, s)
    BY DEF Of
  <2> QED
    BY <1>1, <2>1, FS_Difference
<1>4. ASSUME NEW e, e \notin Q
      PROVE  Cardinality(Of(Q \cup {e}, s)) =
               IF e.slot = s THEN Cardinality(Of(Q, s)) + 1 ELSE Cardinality(Of(Q, s))
  <2>1. CASE e.slot = s
    <3>1. Of(Q \cup {e}, s) = Of(Q, s) \cup {e} /\ e \notin Of(Q, s)
      BY <1>4, <2>1 DEF Of
    <3> QED
      BY <1>1, <2>1, <3>1, FS_AddElement
  <2>2. CASE e.slot # s
    <3>1. Of(Q \cup {e}, s) = Of(Q, s)
      BY <2>2 DEF Of
    <3> QED
      BY <2>2, <3>1
  <2> QED
    BY <2>1, <2>2
<1> QED
  BY <1>1, <1>2, <1>3, <1>4

\* What a stack of slots holds, and that it holds nothing twice.
Elements(f) == {f[i] : i \in DOMAIN f}
Once(f) == \A i, j \in DOMAIN f : f[i] = f[j] => i = j

\* Giving up slots in any order: each once, none that was free before.
LEMMA FreedSlots ==
  ASSUME NEW f \in Seq(Nat), NEW D \in SUBSET Nat, IsFiniteSet(D),
         NEW q \in [1 .. Cardinality(D) -> D], Elements(q) = D,
         Once(f), Elements(f) \cap D = {}
  PROVE  /\ f \o q \in Seq(Nat)
         /\ Once(f \o q) /\ Elements(f \o q) = Elements(f) \cup D
<1> DEFINE n == Cardinality(D)
           g == f \o q
<1>0. /\ \A i, j \in DOMAIN f : f[i] = f[j] => i = j
      /\ \A i \in DOMAIN f : f[i] \notin D
      /\ {q[i] : i \in DOMAIN q} = D
  BY DEF Once, Elements
<1>1. n \in Nat /\ IsFiniteSet(1 .. n) /\ Cardinality(1 .. n) = n
  BY FS_CardinalityType, FS_Interval
<1>2. q \in Surjection(1 .. n, D)
  BY <1>0 DEF Surjection, Range
<1>3. q \in Injection(1 .. n, D)
  BY <1>1, <1>2, FS_SurjSameCardinalityImpliesInj
<1>4. \A i, j \in 1 .. n : q[i] = q[j] => i = j
  BY <1>3 DEF Injection, IsInjective
<1>5. q \in Seq(Nat) /\ Len(q) = n /\ DOMAIN q = 1 .. n
  <2>1. q \in [1 .. n -> D] /\ n \in Nat /\ D \in SUBSET Nat
    BY <1>1
  <2> HIDE DEF n
  <2>2. q \in [1 .. n -> Nat] /\ DOMAIN q = 1 .. n
    BY ONLY <2>1
  <2>3. q \in Seq(Nat)
    BY ONLY <2>1, <2>2
  <2> QED
    BY ONLY <2>1, <2>2, <2>3, LenProperties
<1>6. Len(f) \in Nat /\ DOMAIN f = 1 .. Len(f)
  BY LenProperties
<1>7. /\ g \in Seq(Nat) /\ Len(g) = Len(f) + n /\ DOMAIN g = 1 .. Len(f) + n
      /\ \A i \in 1 .. Len(f) : g[i] = f[i]
      /\ \A i \in Len(f) + 1 .. Len(f) + n : g[i] = q[i - Len(f)]
  <2>1. /\ g \in Seq(Nat) /\ Len(g) = Len(f) + Len(q)
        /\ \A i \in 1 .. Len(f) + Len(q) :
             g[i] = IF i <= Len(f) THEN f[i] ELSE q[i - Len(f)]
    <3>1. f \in Seq(Nat) /\ q \in Seq(Nat)
      BY <1>5
    <3>2. ASSUME NEW a \in Seq(Nat), NEW b \in Seq(Nat)
          PROVE  /\ a \o b \in Seq(Nat) /\ Len(a \o b) = Len(a) + Len(b)
                 /\ \A i \in 1 .. Len(a) + Len(b) :
                      (a \o b)[i] = IF i <= Len(a) THEN a[i] ELSE b[i - Len(a)]
      OBVIOUS
    <3> QED
      BY <3>1, <3>2
  <2> QED
    <3>1. Len(g) = Len(f) + n /\ DOMAIN g = 1 .. Len(f) + n
      BY <1>5, <2>1, LenProperties
    <3> HIDE DEF g, n
    <3>2. ASSUME NEW i \in 1 .. Len(f) PROVE i \in 1 .. Len(f) + n /\ i <= Len(f)
      BY ONLY <1>1, <1>6
    <3>3. ASSUME NEW i \in Len(f) + 1 .. Len(f) + n
          PROVE  i \in 1 .. Len(f) + n /\ ~(i <= Len(f))
      BY ONLY <1>1, <1>6
    <3> QED
      BY <1>5, <2>1, <3>1, <3>2, <3>3
<1> HIDE DEF g, n
<1>10. \A i \in DOMAIN g : i \notin 1 .. Len(f) =>
         i - Len(f) \in 1 .. n /\ g[i] = q[i - Len(f)]
  <2>1. ASSUME NEW i \in 1 .. Len(f) + n, i \notin 1 .. Len(f)
        PROVE  i - Len(f) \in 1 .. n /\ i \in Len(f) + 1 .. Len(f) + n
    BY ONLY <1>1, <1>6, <2>1
  <2> QED
    BY <1>7, <2>1
<1>8. ASSUME NEW i \in DOMAIN g, NEW j \in DOMAIN g, g[i] = g[j]
      PROVE  i = j
  <2>1. CASE i \in 1 .. Len(f) /\ j \in 1 .. Len(f)
    BY <1>0, <1>6, <1>7, <1>8, <2>1
  <2>2. CASE i \in 1 .. Len(f) /\ j \notin 1 .. Len(f)
    <3>1. j - Len(f) \in 1 .. n /\ g[j] = q[j - Len(f)]
      BY <1>10, <2>2
    <3> QED
      BY <1>0, <1>5, <1>6, <1>7, <1>8, <2>2, <3>1
  <2>3. CASE i \notin 1 .. Len(f) /\ j \in 1 .. Len(f)
    <3>1. i - Len(f) \in 1 .. n /\ g[i] = q[i - Len(f)]
      BY <1>10, <2>3
    <3>2. q[i - Len(f)] \in D /\ g[j] = f[j] /\ j \in DOMAIN f
      BY <1>5, <1>6, <1>7, <2>3, <3>1
    <3> QED
      BY <1>0, <1>8, <3>1, <3>2
  <2>4. CASE i \notin 1 .. Len(f) /\ j \notin 1 .. Len(f)
    <3>1. /\ i - Len(f) \in 1 .. n /\ g[i] = q[i - Len(f)]
          /\ j - Len(f) \in 1 .. n /\ g[j] = q[j - Len(f)]
      BY <1>10, <2>4
    <3>2. i - Len(f) = j - Len(f)
      BY <1>4, <1>8, <3>1
    <3> QED
      BY <1>1, <1>6, <1>7, <3>2
  <2> QED
    BY <2>1, <2>2, <2>3, <2>4
<1>9. ASSUME NEW s
      PROVE  (\E i \in DOMAIN g : g[i] = s) <=> s \in D \/ \E i \in DOMAIN f : f[i] = s
  <2>1. ASSUME NEW i \in DOMAIN g PROVE g[i] \in D \/ \E k \in DOMAIN f : f[k] = g[i]
    <3>1. CASE i \in 1 .. Len(f)
      BY <1>6, <1>7, <3>1
    <3>2. CASE i \notin 1 .. Len(f)
      <4>1. i - Len(f) \in 1 .. n /\ g[i] = q[i - Len(f)]
        BY <1>10, <3>2
      <4> QED
        BY <1>5, <4>1
    <3> QED
      BY <3>1, <3>2
  <2>2. ASSUME s \in D PROVE \E i \in DOMAIN g : g[i] = s
    <3>1. PICK k \in 1 .. n : q[k] = s
      BY <1>0, <1>5, <2>2
    <3>2. k + Len(f) \in Len(f) + 1 .. Len(f) + n /\ (k + Len(f)) - Len(f) = k
      BY ONLY <1>1, <1>6
    <3>3. g[k + Len(f)] = s /\ k + Len(f) \in DOMAIN g
      BY <1>7, <1>10, <3>1, <3>2
    <3> QED
      BY <3>2, <3>3
  <2>3. ASSUME NEW k \in DOMAIN f, f[k] = s PROVE \E i \in DOMAIN g : g[i] = s
    BY <1>1, <1>6, <1>7, <2>3
  <2> QED
    BY <2>1, <2>2, <2>3
<1>11. Elements(g) = Elements(f) \cup D
  <2>1. \A s : s \in Elements(g) <=> \E i \in DOMAIN g : g[i] = s
    BY Zenon DEF Elements
  <2>2. \A s : s \in Elements(f) <=> \E i \in DOMAIN f : f[i] = s
    BY Zenon DEF Elements
  <2>3. \A s : s \in Elements(g) <=> s \in Elements(f) \cup D
    BY <1>9, <2>1, <2>2, Zenon
  <2> QED
    BY <2>3
<1> QED
  BY <1>7, <1>8, <1>11 DEF g, Once

\* Releasing records keeps the books: their slots are counted down, and exactly the
\* windows that nobody else points into are dropped, except for the last.
LEMMA ReleaseStore ==
  ASSUME QueueOK, StoreOK, StoreInv, StoreBalanced, IsFiniteSet(Queued),
         NEW es \in SUBSET Queued, Release(es), Queued' = Queued \ es
  PROVE  StoreOK' /\ StoreInv' /\ StoreBalanced'
<1> DEFINE D == Dropped(es)
<1>1. /\ Len(windows) \in Nat /\ Slots = 1 .. Len(windows)
      /\ DOMAIN refs = Slots /\ \A s \in Slots : refs[s] \in Nat
      /\ Len(free) \in Nat /\ DOMAIN free = 1 .. Len(free)
  BY StoreShape
<1>2. ASSUME NEW s \in Slots
      PROVE  /\ Held(es, s) = Cardinality(Of(Queued \ es, s))
             /\ Held(es, s) \in Nat
             /\ Held(es, s) = 0 => Of(Queued \ es, s) = {}
             /\ refs[s] > 0 => \E e \in Queued : e.slot = s
  <2>1. refs[s] = Cardinality(Of(Queued, s))
    BY DEF StoreBalanced, Of
  <2>2. Held(es, s) = refs[s] - Cardinality(Of(es, s))
    BY DEF Held, Of
  <2>3. Held(es, s) = Cardinality(Of(Queued \ es, s))
    BY <2>1, <2>2, SlotCounts
  <2>4. IsFiniteSet(Queued \ es)
    BY FS_Difference
  <2>5. Held(es, s) \in Nat /\ (Held(es, s) = 0 => Of(Queued \ es, s) = {})
    BY <2>3, <2>4, SlotCounts
  <2>6. refs[s] > 0 => Of(Queued, s) # {}
    BY <1>1, <2>1, SlotCounts
  <2> QED
    BY <2>3, <2>5, <2>6 DEF Of
<1>3. /\ refs' = [s \in Slots |-> Held(es, s)]
      /\ windows' = [s \in Slots |-> IF s \in D THEN NoBacking ELSE windows[s]]
      /\ UNCHANGED last
  BY DEF Release
<1>4. PICK q \in [1 .. Cardinality(D) -> D] :
        Elements(q) = D /\ free' = free \o q
  BY DEF Release, Elements
<1>5. /\ windows' \in Seq([start : Nat \cup {None}, end : Nat \cup {None}])
      /\ Len(windows') = Len(windows) /\ Slots' = Slots
      /\ refs' \in Seq(Nat) /\ Len(refs') = Len(windows)
  <2>1. \A s \in Slots : windows[s] \in [start : Nat \cup {None}, end : Nat \cup {None}]
    BY <1>1, ElementOfSeq DEF StoreOK
  <2>2. NoBacking \in [start : Nat \cup {None}, end : Nat \cup {None}]
    BY DEF NoBacking
  <2>3. windows' \in [1 .. Len(windows) -> [start : Nat \cup {None}, end : Nat \cup {None}]]
    BY <1>1, <1>3, <2>1, <2>2
  <2>4. refs' \in [1 .. Len(windows) -> Nat]
    BY <1>1, <1>2, <1>3
  <2>5. DOMAIN windows' = Slots
    BY <1>3
  <2>6. windows' \in Seq([start : Nat \cup {None}, end : Nat \cup {None}])
    <3> DEFINE W == [start : Nat \cup {None}, end : Nat \cup {None}]
    <3>1. windows' \in [1 .. Len(windows) -> W] /\ Len(windows) \in Nat
      BY <1>1, <2>3
    <3> HIDE DEF W
    <3>2. windows' \in Seq(W)
      BY ONLY <3>1
    <3> QED
      BY <3>2 DEF W
  <2>7. Len(windows') = Len(windows)
    BY <1>1, <2>5, <2>6, LenProperties
  <2>8. refs' \in Seq(Nat) /\ Len(refs') = Len(windows)
    BY <1>1, <2>4
  <2> QED
    BY <1>3, <2>6, <2>7, <2>8 DEF Slots
<1>6. \A s \in D : s \in Slots /\ refs[s] > 0 /\ Held(es, s) = 0 /\ s # last
  BY DEF Dropped
<1>7. \A s \in D : windows[s] # NoBacking
  <2> SUFFICES ASSUME NEW s \in D PROVE windows[s] # NoBacking
    OBVIOUS
  <2>1. PICK e \in Queued : e.slot = s
    BY <1>2, <1>6
  <2>2. windows[s] = Backing(RangeStart(e.offset)) /\ e.offset \in Nat
    BY <1>6, <2>1 DEF StoreInv, QueueOK, Entry, Queued
  <2> QED
    BY <2>2, RangeOfOffset DEF Backing, NoBacking, None
<1>8. free' \in Seq(Nat) /\ Once(free') /\ Elements(free') = Elements(free) \cup D
  <2>1. D \in SUBSET Nat /\ IsFiniteSet(D)
    <3>1. D \in SUBSET (1 .. Len(windows))
      BY <1>1, <1>6
    <3>2. IsFiniteSet(1 .. Len(windows))
      BY <1>1, FS_Interval
    <3> QED
      BY <3>1, <3>2, FS_Subset
  <2>2. Elements(free) \cap D = {}
    BY <1>6, <1>7 DEF StoreBalanced, Elements
  <2>3. Once(free) /\ free \in Seq(Nat)
    BY DEF StoreBalanced, StoreOK, Once
  <2> HIDE DEF D
  <2> QED
    BY <1>4, <2>1, <2>2, <2>3, FreedSlots
<1>9. StoreOK'
  BY <1>3, <1>5, <1>8 DEF StoreOK
<1> HIDE DEF D
<1>10. \A s \in Slots : windows'[s] = IF s \in D THEN NoBacking ELSE windows[s]
  BY <1>3
<1>11. StoreBalanced'
  <2>1. \A s \in Slots : refs'[s] = Cardinality(Of(Queued', s))
    BY <1>2, <1>3
  <2>2. \A s \in Slots : (windows'[s] = NoBacking) <=> (\E i \in DOMAIN free' : free'[i] = s)
    BY <1>8, <1>10 DEF StoreBalanced, Elements
  <2>3. ASSUME NEW s \in Slots, refs'[s] = 0, windows'[s] # NoBacking
        PROVE  s = last
    <3>1. s \notin D /\ windows[s] # NoBacking /\ Held(es, s) = 0
      BY <1>3, <1>10, <2>3
    <3>2. refs[s] = 0 \/ s = last
      BY <1>1, <3>1 DEF D, Dropped
    <3> QED
      BY <3>1, <3>2 DEF StoreBalanced
  <2> QED
    BY <1>3, <1>5, <1>8, <2>1, <2>2, <2>3 DEF StoreBalanced, Of, Once
<1>12. StoreInv'
  <2>1. \A i \in DOMAIN free' : free'[i] \in Slots
    BY <1>6, <1>8 DEF StoreInv, Elements
  <2>2. last' \in Slots \cup {None} /\ (last' # None => windows'[last] # NoBacking)
    BY <1>3, <1>6, <1>10 DEF StoreInv
  <2>3. ASSUME NEW e \in Queued'
        PROVE  e.slot \in Slots /\ windows'[e.slot] = Backing(RangeStart(e.offset))
    <3>1. e.slot \in Slots /\ windows[e.slot] = Backing(RangeStart(e.offset))
      BY DEF StoreInv
    <3>2. e \in Of(Queued \ es, e.slot)
      BY DEF Of
    <3>3. e.slot \notin D
      BY <1>2, <1>6, <3>1, <3>2
    <3> QED
      BY <1>10, <3>1, <3>3
  <2> QED
    BY <1>3, <1>5, <1>10, <2>1, <2>2, <2>3 DEF StoreInv
<1> QED
  BY <1>9, <1>11, <1>12

\* The top of a stack of slots, taken.
LEMMA Popped ==
  ASSUME NEW f \in Seq(Nat), f # <<>>, Once(f)
  PROVE  /\ f[Len(f)] \in Elements(f)
         /\ SubSeq(f, 1, Len(f) - 1) \in Seq(Nat)
         /\ Once(SubSeq(f, 1, Len(f) - 1))
         /\ Elements(SubSeq(f, 1, Len(f) - 1)) = Elements(f) \ {f[Len(f)]}
<1> DEFINE g == SubSeq(f, 1, Len(f) - 1)
<1>1. Len(f) \in Nat \ {0} /\ DOMAIN f = 1 .. Len(f)
  BY EmptySeq, LenProperties
<1>2. /\ g \in Seq(Nat) /\ Len(g) = Len(f) - 1 /\ DOMAIN g = 1 .. Len(f) - 1
      /\ \A i \in 1 .. Len(f) - 1 : g[i] = f[i]
  BY <1>1
<1> HIDE DEF g
<1>3. \A i, j \in DOMAIN f : f[i] = f[j] => i = j
  BY DEF Once
<1>9. ASSUME NEW n \in Nat \ {0}
      PROVE  /\ \A i \in 1 .. n - 1 : i \in 1 .. n /\ i # n
             /\ \A i \in 1 .. n : i \in 1 .. n - 1 \/ i = n
  OBVIOUS
<1>5. \A i \in DOMAIN f : i \in DOMAIN g \/ i = Len(f)
  BY <1>1, <1>2, <1>9
<1>6. \A i \in DOMAIN g : i \in DOMAIN f /\ g[i] = f[i] /\ i # Len(f)
  BY <1>1, <1>2, <1>9
<1>4. Once(g)
  BY <1>3, <1>6 DEF Once
<1>7. Len(f) \in DOMAIN f
  BY <1>1
<1>8. Elements(g) = Elements(f) \ {f[Len(f)]}
  BY <1>3, <1>5, <1>6, <1>7 DEF Elements
<1> QED
  BY <1>2, <1>4, <1>7, <1>8 DEF g, Elements

\* A slot that was not in it, put on a stack.
LEMMA Pushed ==
  ASSUME NEW f \in Seq(Nat), NEW s \in Nat, Once(f), s \notin Elements(f)
  PROVE  /\ f \o <<s>> \in Seq(Nat) /\ f \o <<s>> # <<>>
         /\ (f \o <<s>>)[Len(f \o <<s>>)] = s
         /\ Once(f \o <<s>>)
         /\ Elements(f \o <<s>>) = Elements(f) \cup {s}
<1> DEFINE g == f \o <<s>>
<1>1. Len(f) \in Nat /\ DOMAIN f = 1 .. Len(f)
  BY LenProperties
<1>2. /\ g \in Seq(Nat) /\ Len(g) = Len(f) + 1 /\ DOMAIN g = 1 .. Len(f) + 1
      /\ \A i \in 1 .. Len(f) : g[i] = f[i]
      /\ g[Len(f) + 1] = s
  BY <1>1
<1>3. \A i, j \in DOMAIN f : f[i] = f[j] => i = j
  BY DEF Once
<1>4. \A i \in DOMAIN f : f[i] # s
  BY DEF Elements
<1>5. g # <<>>
  BY <1>1, <1>2
<1> HIDE DEF g
<1>6. /\ \A i \in DOMAIN g : (i \in DOMAIN f /\ g[i] = f[i]) \/ (i = Len(f) + 1 /\ g[i] = s)
      /\ \A i \in DOMAIN f : i \in DOMAIN g /\ g[i] = f[i]
      /\ Len(f) + 1 \in DOMAIN g
  BY <1>1, <1>2
<1>7. Once(g)
  BY <1>3, <1>4, <1>6 DEF Once
<1>8. Elements(g) = Elements(f) \cup {s}
  BY <1>2, <1>6 DEF Elements
<1> QED
  BY <1>2, <1>5, <1>7, <1>8 DEF g

\* A record joins the window of its slot: what the four ways to find the slot have
\* in common, and why the books then balance.
LEMMA RecordJoins ==
  ASSUME QueueOK, StoreOK, StoreInv, StoreBalanced, IsFiniteSet(Queued),
         NEW e \in Entry, e \notin Queued, Queued' = Queued \cup {e},
         windows' \in Seq([start : Nat \cup {None}, end : Nat \cup {None}]),
         refs' \in Seq(Nat), Len(refs') = Len(windows'), free' \in Seq(Nat),
         e.slot \in Slots', Slots' = Slots \cup {e.slot},
         \A s \in Slots : s # e.slot => windows'[s] = windows[s] /\ refs'[s] = refs[s],
         windows'[e.slot] = Backing(RangeStart(e.offset)),
         refs'[e.slot] = Cardinality(Of(Queued, e.slot)) + 1,
         \A f \in Queued : f.slot = e.slot => RangeStart(f.offset) = RangeStart(e.offset),
         \A s \in Slots : s # e.slot /\ refs[s] = 0 => windows[s] = NoBacking,
         Once(free'), Elements(free') = Elements(free) \ {e.slot}, last' = e.slot
  PROVE  StoreOK' /\ StoreInv' /\ StoreBalanced'
<1>1. e.slot \in Nat /\ e.offset \in Nat /\ RangeStart(e.offset) \in Nat
  BY RangeOfOffset DEF Entry
<1>2. Backing(RangeStart(e.offset)) # NoBacking
  BY <1>1 DEF Backing, NoBacking, None
<1>3. StoreOK'
  BY <1>1 DEF StoreOK
<1>4. StoreInv'
  <2>1. \A i \in DOMAIN free' : free'[i] \in Slots'
    <3>1. \A i \in DOMAIN free' : free'[i] \in Elements(free')
      BY DEF Elements
    <3>2. Elements(free) \subseteq Slots
      BY DEF StoreInv, Elements
    <3> QED
      BY <3>1, <3>2
  <2>2. last' \in Slots' \cup {None} /\ (last' # None => windows'[last'] # NoBacking)
    BY <1>2
  <2>3. ASSUME NEW s \in Slots', windows'[s] # NoBacking
        PROVE  windows'[s].start \in Nat /\ windows'[s] = Backing(windows'[s].start)
    <3>1. CASE s = e.slot
      BY <1>1, <3>1 DEF Backing
    <3>2. CASE s # e.slot
      BY <2>3, <3>2 DEF StoreInv
    <3> QED
      BY <3>1, <3>2
  <2>4. ASSUME NEW f \in Queued'
        PROVE  f.slot \in Slots' /\ windows'[f.slot] = Backing(RangeStart(f.offset))
    <3>1. CASE f = e
      BY <3>1
    <3>2. CASE f \in Queued
      <4>1. f.slot \in Slots /\ windows[f.slot] = Backing(RangeStart(f.offset))
        BY <3>2 DEF StoreInv
      <4> QED
        BY <3>2, <4>1
    <3> QED
      BY <3>1, <3>2
  <2> QED
    BY <2>1, <2>2, <2>3, <2>4 DEF StoreInv
<1>5. StoreBalanced'
  <2>1. ASSUME NEW s \in Slots' PROVE refs'[s] = Cardinality(Of(Queued', s))
    <3>1. CASE s = e.slot
      BY <3>1, SlotCounts
    <3>2. CASE s # e.slot
      <4>1. s \in Slots /\ refs[s] = Cardinality(Of(Queued, s))
        BY <3>2 DEF StoreBalanced, Of
      <4>2. Cardinality(Of(Queued \cup {e}, s)) = Cardinality(Of(Queued, s))
        BY <3>2, SlotCounts
      <4> QED
        BY <3>2, <4>1, <4>2
    <3> QED
      BY <3>1, <3>2
  <2>2. ASSUME NEW s \in Slots' PROVE windows'[s] = NoBacking <=> s \in Elements(free')
    <3>1. CASE s = e.slot
      BY <1>2, <3>1
    <3>2. CASE s # e.slot
      <4>1. s \in Slots /\ (windows[s] = NoBacking <=> s \in Elements(free))
        BY <3>2 DEF StoreBalanced, Elements
      <4> QED
        BY <3>2, <4>1
    <3> QED
      BY <3>1, <3>2
  <2>3. ASSUME NEW s \in Slots', refs'[s] = 0, windows'[s] # NoBacking PROVE s = last'
    BY <2>3
  <2>4. \A s \in Slots' : windows'[s] = NoBacking <=> \E i \in DOMAIN free' : free'[i] = s
    BY <2>2 DEF Elements
  <2>5. \A i, j \in DOMAIN free' : free'[i] = free'[j] => i = j
    BY DEF Once
  <2>6. \A s \in Slots' : refs'[s] = Cardinality({f \in Queued' : f.slot = s})
    BY <2>1 DEF Of
  <2> QED
    BY <2>3, <2>4, <2>5, <2>6 DEF StoreBalanced
<1> QED
  BY <1>3, <1>4, <1>5

\* A sequence with a place more, which is then given a value.
LEMMA GrownSlot ==
  ASSUME NEW S, NEW w \in Seq(S), NEW b \in S, NEW c \in S
  PROVE  /\ Len(Append(w, c)) = Len(w) + 1
         /\ [Append(w, c) EXCEPT ![Len(w) + 1] = b] \in Seq(S)
         /\ Len([Append(w, c) EXCEPT ![Len(w) + 1] = b]) = Len(w) + 1
         /\ [Append(w, c) EXCEPT ![Len(w) + 1] = b][Len(w) + 1] = b
         /\ DOMAIN [Append(w, c) EXCEPT ![Len(w) + 1] = b] = 1 .. Len(w) + 1
         /\ \A s \in 1 .. Len(w) : [Append(w, c) EXCEPT ![Len(w) + 1] = b][s] = w[s]
<1> DEFINE a == Append(w, c)
           n == Len(w) + 1
           g == [a EXCEPT ![n] = b]
<1>1. /\ a \in Seq(S) /\ Len(a) = n
      /\ \A s \in 1 .. Len(w) : a[s] = w[s]
  BY AppendProperties
<1>2. Len(w) \in Nat
  BY LenProperties
<1>3. n \in 1 .. n /\ \A s \in 1 .. Len(w) : s \in 1 .. n /\ s # n
  BY ONLY <1>2
<1> HIDE DEF a, n
<1>4. g \in Seq(S) /\ Len(g) = n /\ \A s \in 1 .. n : g[s] = IF s = n THEN b ELSE a[s]
  BY <1>1, <1>3, ExceptSeq
<1>5. DOMAIN g = 1 .. n
  BY <1>4, LenProperties
<1> QED
  BY <1>1, <1>3, <1>4, <1>5 DEF a, n

\* Retaining the window of a record that is then queued keeps the books.
LEMMA RetainStore ==
  ASSUME QueueOK, StoreOK, StoreInv, StoreBalanced, IsFiniteSet(Queued),
         NEW e \in Entry, e \notin Queued, Queued' = Queued \cup {e},
         Retain(RangeStart(e.offset), e.slot)
  PROVE  StoreOK' /\ StoreInv' /\ StoreBalanced'
<1> DEFINE W == [start : Nat \cup {None}, end : Nat \cup {None}]
           R == RangeStart(e.offset)
           stack == free \o GivenUp
<1>1. /\ Len(windows) \in Nat /\ Slots = 1 .. Len(windows)
      /\ DOMAIN refs = Slots /\ \A s \in Slots : refs[s] \in Nat
      /\ Len(refs) = Len(windows)
      /\ windows \in Seq(W) /\ refs \in Seq(Nat) /\ free \in Seq(Nat) /\ None \notin Slots
  BY StoreShape DEF StoreOK, None
<1>2. /\ e.slot \in Nat /\ e.offset \in Nat /\ R \in Nat /\ Backing(R) \in W
      /\ Backing(R) # NoBacking /\ NoBacking \in W
  BY RangeOfOffset, ConstantsOK DEF Entry, Backing, NoBacking, None
<1>3. \A f \in Queued : /\ f.slot \in Slots /\ RangeStart(f.offset) \in Nat
                        /\ windows[f.slot] = Backing(RangeStart(f.offset))
                        /\ windows[f.slot] # NoBacking
  BY RangeOfOffset DEF StoreInv, QueueOK, Queued, Entry, Backing, NoBacking, None
<1>4. \A s \in Slots : refs[s] = Cardinality(Of(Queued, s))
  BY DEF StoreBalanced, Of
<1>5. /\ Once(free)
      /\ \A s \in Slots : windows[s] = NoBacking <=> s \in Elements(free)
      /\ Elements(free) \subseteq Slots
  BY DEF StoreBalanced, StoreInv, Once, Elements
<1>6. ASSUME NEW s, s \in Slots => refs[s] = 0
      PROVE  Cardinality(Of(Queued, s)) = 0 /\ \A f \in Queued : f.slot # s
  <2>1. CASE s \in Slots
    <3>1. Cardinality(Of(Queued, s)) = 0
      BY <1>4, <1>6, <2>1
    <3>2. Of(Queued, s) = {}
      BY <3>1, SlotCounts
    <3> QED
      BY <3>1, <3>2 DEF Of
  <2>2. CASE s \notin Slots
    <3>1. Of(Queued, s) = {}
      BY <1>3, <2>2 DEF Of
    <3>2. Cardinality(Of(Queued, s)) = 0
      BY <3>1, SlotCounts
    <3> QED
      BY <3>1, <3>2 DEF Of
  <2> QED
    BY <2>1, <2>2
<1>7. \A s \in Elements(free) : s \in Slots /\ refs[s] = 0
  <2> SUFFICES ASSUME NEW s \in Elements(free) PROVE s \in Slots /\ refs[s] = 0
    OBVIOUS
  <2>1. s \in Slots /\ windows[s] = NoBacking
    BY <1>5
  <2>2. Of(Queued, s) = {}
    BY <1>3, <2>1 DEF Of
  <2> QED
    BY <1>4, <2>1, <2>2, SlotCounts
<1>8. ASSUME NEW s \in Slots, refs[s] = 0, windows[s] # NoBacking
      PROVE  last # None /\ s = last /\ GivenUp = <<last>>
  <2>1. s = last
    BY <1>8 DEF StoreBalanced
  <2> QED
    BY <1>1, <1>8, <2>1 DEF GivenUp
<1>9. CASE Reuses(R)
  <2>1. /\ e.slot = last /\ refs' = [refs EXCEPT ![last] = @ + 1]
        /\ windows' = windows /\ free' = free /\ last' = last
    BY <1>9 DEF Retain
  <2>2. last \in Slots /\ windows[last] # NoBacking /\ windows[last].start = R
    BY <1>9 DEF Reuses, StoreInv
  <2>3. windows[last] = Backing(R)
    BY <2>2 DEF StoreInv
  <2>4. ASSUME NEW f \in Queued, f.slot = e.slot PROVE RangeStart(f.offset) = R
    <3>1. Backing(RangeStart(f.offset)) = Backing(R)
      BY <1>3, <2>1, <2>3, <2>4
    <3>2. Backing(RangeStart(f.offset)).start = Backing(R).start
      BY <3>1
    <3> QED
      BY <3>2 DEF Backing
  <2>5. /\ refs' \in Seq(Nat) /\ Len(refs') = Len(windows)
        /\ refs'[last] = refs[last] + 1
        /\ \A s \in Slots : s # last => refs'[s] = refs[s]
    BY <1>1, <2>1, <2>2
  <2>6. Elements(free) = Elements(free) \ {last}
    BY <1>5, <2>2
  <2>7. \A s \in Slots : s # last /\ refs[s] = 0 => windows[s] = NoBacking
    BY <1>8
  <2>8. Slots' = Slots \cup {e.slot}
    BY <2>1, <2>2 DEF Slots
  <2> HIDE DEF W
  <2>9. windows' \in Seq(W)
    BY <1>1, <2>1
  <2> QED
    BY <1>1, <1>4, <1>5, <2>1, <2>2, <2>3, <2>4, <2>5, <2>6, <2>7, <2>8, <2>9,
       RecordJoins DEF W
<1>10. CASE ~Reuses(R) /\ stack # <<>>
  <2>1. /\ e.slot = stack[Len(stack)]
        /\ windows' = [windows EXCEPT ![e.slot] = Backing(R)]
        /\ refs' = [refs EXCEPT ![e.slot] = 1]
        /\ free' = SubSeq(stack, 1, Len(stack) - 1)
        /\ last' = e.slot
    BY <1>10 DEF Retain
  <2>2. /\ e.slot \in Slots /\ refs[e.slot] = 0
        /\ \A s \in Slots : s # e.slot /\ refs[s] = 0 => windows[s] = NoBacking
        /\ free' \in Seq(Nat) /\ Once(free') /\ Elements(free') = Elements(free) \ {e.slot}
    <3>1. CASE GivenUp = <<>>
      <4>1. stack = free
        BY <1>1, <3>1
      <4>2. free' = SubSeq(free, 1, Len(free) - 1) /\ e.slot = free[Len(free)] /\ free # <<>>
        BY <1>10, <2>1, <4>1
      <4>3. /\ e.slot \in Elements(free) /\ free' \in Seq(Nat) /\ Once(free')
            /\ Elements(free') = Elements(free) \ {e.slot}
        BY <1>1, <1>5, <4>2, Popped
      <4>4. \A s \in Slots : refs[s] = 0 => windows[s] = NoBacking
        BY <1>8, <3>1
      <4> QED
        BY <1>7, <4>3, <4>4
    <3>2. CASE GivenUp # <<>>
      <4>1. GivenUp = <<last>> /\ last # None /\ refs[last] = 0
        BY <3>2 DEF GivenUp
      <4>2. last \in Slots /\ windows[last] # NoBacking /\ last \in Nat
        BY <1>1, <4>1 DEF StoreInv
      <4>3. last \notin Elements(free)
        BY <1>5, <4>2
      <4>4. /\ stack \in Seq(Nat) /\ stack[Len(stack)] = last
            /\ Once(stack) /\ Elements(stack) = Elements(free) \cup {last}
        BY <1>1, <1>5, <4>1, <4>2, <4>3, Pushed
      <4> HIDE DEF stack
      <4>5. /\ free' \in Seq(Nat) /\ Once(free')
            /\ Elements(free') = Elements(stack) \ {last}
        BY <1>10, <2>1, <4>4, Popped
      <4>6. Elements(free') = Elements(free) \ {last} /\ e.slot = last
        BY <2>1, <4>4, <4>5
      <4> QED
        BY <1>8, <4>1, <4>2, <4>5, <4>6
    <3> QED
      BY <3>1, <3>2
  <2> HIDE DEF stack, W, R
  <2>3. /\ windows' \in Seq(W) /\ Len(windows') = Len(windows) /\ DOMAIN windows' = Slots
        /\ windows'[e.slot] = Backing(R)
        /\ \A s \in Slots : s # e.slot => windows'[s] = windows[s]
    <3>1. e.slot \in 1 .. Len(windows)
      BY <1>1, <2>2
    <3>2. ASSUME NEW w \in Seq(W), NEW b \in W, NEW i \in 1 .. Len(w)
          PROVE  /\ [w EXCEPT ![i] = b] \in Seq(W) /\ Len([w EXCEPT ![i] = b]) = Len(w)
                 /\ [w EXCEPT ![i] = b][i] = b
                 /\ DOMAIN [w EXCEPT ![i] = b] = DOMAIN w
                 /\ \A s \in DOMAIN w : s # i => [w EXCEPT ![i] = b][s] = w[s]
      BY LenProperties, ExceptSeq
    <3> QED
      BY <1>1, <1>2, <2>1, <3>1, <3>2 DEF Slots
  <2>4. /\ refs' \in Seq(Nat) /\ Len(refs') = Len(windows) /\ refs'[e.slot] = 1
        /\ \A s \in Slots : s # e.slot => refs'[s] = refs[s]
    BY <1>1, <2>1, <2>2
  <2>5. Cardinality(Of(Queued, e.slot)) = 0 /\ \A f \in Queued : f.slot # e.slot
    BY <1>6, <2>2
  <2>6. Slots' = Slots /\ e.slot \in Slots'
    BY <2>2, <2>3 DEF Slots
  <2>7. refs'[e.slot] = Cardinality(Of(Queued, e.slot)) + 1
    BY <2>4, <2>5
  <2> QED
    BY <2>1, <2>2, <2>3, <2>4, <2>5, <2>6, <2>7, RecordJoins DEF W, R
<1>11. CASE ~Reuses(R) /\ stack = <<>>
  <2>1. /\ e.slot = Len(Append(windows, NoBacking))
        /\ windows' = [Append(windows, NoBacking) EXCEPT ![e.slot] = Backing(R)]
        /\ refs' = [Append(refs, 0) EXCEPT ![e.slot] = 1]
        /\ free' = <<>> /\ last' = e.slot
    BY <1>11 DEF Retain
  <2>2. free = <<>> /\ GivenUp = <<>>
    <3>1. GivenUp \in Seq(Nat)
      BY <1>1 DEF GivenUp, StoreOK, None
    <3> QED
      BY <1>1, <1>11, <3>1, ConcatEmptySeq
  <2> HIDE DEF stack, W, R
  <2>3. /\ windows' \in Seq(W) /\ Len(windows') = Len(windows) + 1
        /\ DOMAIN windows' = Slots \cup {e.slot} /\ e.slot = Len(windows) + 1
        /\ windows'[e.slot] = Backing(R)
        /\ \A s \in Slots : s # e.slot => windows'[s] = windows[s]
    <3>1. ASSUME NEW w \in Seq(W), NEW b \in W, NEW c \in W
          PROVE  /\ Len(Append(w, c)) = Len(w) + 1
                 /\ [Append(w, c) EXCEPT ![Len(w) + 1] = b] \in Seq(W)
                 /\ Len([Append(w, c) EXCEPT ![Len(w) + 1] = b]) = Len(w) + 1
                 /\ [Append(w, c) EXCEPT ![Len(w) + 1] = b][Len(w) + 1] = b
                 /\ DOMAIN [Append(w, c) EXCEPT ![Len(w) + 1] = b] = 1 .. Len(w) + 1
                 /\ \A s \in 1 .. Len(w) :
                      [Append(w, c) EXCEPT ![Len(w) + 1] = b][s] = w[s]
      BY ONLY <3>1, GrownSlot
    <3>2. 1 .. Len(windows) + 1 = (1 .. Len(windows)) \cup {Len(windows) + 1}
      BY <1>1
    <3> QED
      BY <1>1, <1>2, <2>1, <3>1, <3>2
  <2>4. /\ refs' \in Seq(Nat) /\ Len(refs') = Len(windows) + 1 /\ refs'[e.slot] = 1
        /\ \A s \in Slots : s # e.slot => refs'[s] = refs[s]
    <3>1. ASSUME NEW w \in Seq(Nat)
          PROVE  /\ [Append(w, 0) EXCEPT ![Len(w) + 1] = 1] \in Seq(Nat)
                 /\ Len([Append(w, 0) EXCEPT ![Len(w) + 1] = 1]) = Len(w) + 1
                 /\ [Append(w, 0) EXCEPT ![Len(w) + 1] = 1][Len(w) + 1] = 1
                 /\ \A s \in 1 .. Len(w) :
                      [Append(w, 0) EXCEPT ![Len(w) + 1] = 1][s] = w[s]
      BY ONLY <3>1, GrownSlot
    <3> QED
      BY <1>1, <2>1, <2>3, <3>1
  <2>5. e.slot \notin Slots
    BY <1>1, <2>3
  <2>6. Cardinality(Of(Queued, e.slot)) = 0 /\ \A f \in Queued : f.slot # e.slot
    BY <1>6, <2>5
  <2>7. Slots' = Slots \cup {e.slot}
    BY <2>3 DEF Slots
  <2>8. free' \in Seq(Nat) /\ Once(free') /\ Elements(free') = Elements(free) \ {e.slot}
    BY <2>1, <2>2 DEF Once, Elements
  <2>9. \A s \in Slots : s # e.slot /\ refs[s] = 0 => windows[s] = NoBacking
    BY <1>8, <2>2
  <2>10. refs'[e.slot] = Cardinality(Of(Queued, e.slot)) + 1
    BY <2>4, <2>6
  <2> QED
    BY <2>1, <2>3, <2>4, <2>6, <2>7, <2>8, <2>9, <2>10, RecordJoins DEF W, R
<1> QED
  BY <1>9, <1>10, <1>11

-----------------------------------------------------------------------------
(* Every step keeps the invariant.                                           *)

\* A step that touches neither the store nor what waits.
LEMMA SameStore ==
  ASSUME StoreOK, StoreInv, StoreBalanced, UNCHANGED storeVars, Queued' = Queued
  PROVE  StoreOK' /\ StoreInv' /\ StoreBalanced'
<1>1. windows' = windows /\ refs' = refs /\ free' = free /\ last' = last /\ Slots' = Slots
  BY DEF storeVars, Slots
<1> QED
  BY <1>1 DEF StoreOK, StoreInv, StoreBalanced

\* An empty queue and an empty store.
LEMMA InitReplay == Init => ReplayInv
<1> SUFFICES ASSUME Init PROVE ReplayInv
  OBVIOUS
<1>1. Queued = {} /\ Slots = {} /\ SeenKeys = {}
  BY DEF Init, Queued, Slots, SeenKeys
<1>2. ScanOK /\ QueueOK
  BY ConstantsOK DEF Init, ScanOK, QueueOK
<1>3. StoreOK
  BY DEF Init, StoreOK
<1>4. IsFiniteSet({})
  BY FS_EmptySet
<1>5. QueueInv /\ RoundInv
  BY <1>1, <1>4 DEF Init, QueueInv, RoundInv
<1>6. StoreInv
  BY <1>1 DEF Init, StoreInv
<1>7. StoreBalanced
  BY <1>1 DEF Init, StoreBalanced
<1>8. NothingLost
  BY <1>1 DEF Init, NothingLost
<1> QED
  BY <1>2, <1>3, <1>5, <1>6, <1>7, <1>8 DEF ReplayInv, TypeOK

\* A record that is handed over as it is read touches neither queue nor store.
LEMMA DirectReplay ==
  ASSUME ReplayInv, NEW size \in Sizes, ReadDirect(size)
  PROVE  ReplayInv'
<1> USE DEF ReplayInv, TypeOK
<1> DEFINE r == [offset |-> offset, time |-> 0, round |-> round]
           k == [offset |-> offset, time |-> 0]
<1>1. /\ pc = "read" /\ count < MaxRecords /\ count' = count + 1 /\ offset' = offset + size
      /\ seen' = seen \cup {r} /\ delivered' = delivered \cup {k}
      /\ UNCHANGED <<ordered, round, ready, pc>>
      /\ pending' = pending /\ next_flush_time' = next_flush_time
      /\ max_timestamp' = max_timestamp /\ UNCHANGED storeVars
  BY DEF ReadDirect, Read, queueVars
<1>2. Queued' = Queued
  BY <1>1 DEF Queued
<1>3. offset \in Nat /\ size \in Nat \ {0} /\ offset + size \in Nat /\ offset < offset + size
  BY ConstantsOK DEF ScanOK, Sizes
<1>4. ScanOK'
  BY <1>1, <1>3, ConstantsOK DEF ScanOK
<1>5. QueueOK'
  BY <1>1 DEF QueueOK
<1>6. QueueInv'
  <2>1. \A n \in Nat : n < offset => n < offset + size
    BY <1>3
  <2>2. \A e \in Queued : e.offset \in Nat
    BY DEF QueueOK, Queued, Entry
  <2>3. /\ \A s \in seen : s.offset \in Nat
        /\ \A d \in delivered : d.offset \in Nat
    BY DEF ScanOK
  <2> QED
    BY <1>1, <1>2, <1>3, <2>1, <2>2, <2>3 DEF QueueInv
<1>7. RoundInv'
  BY <1>1 DEF RoundInv
<1>8. NothingLost'
  <2>1. SeenKeys' = SeenKeys \cup {k}
    <3>1. Key(r) = k /\ SeenKeys' = {Key(e) : e \in seen'}
      BY DEF SeenKeys, Key
    <3> HIDE DEF r, k
    <3> QED
      BY <1>1, <3>1 DEF SeenKeys
  <2>2. ASSUME NEW e \in Queued PROVE Key(e) # k
    <3>1. Key(e).offset = e.offset /\ k.offset = offset
      BY DEF Key
    <3>2. e.offset \in Nat /\ e.offset < offset
      BY DEF QueueInv, QueueOK, Queued, Entry
    <3> QED
      BY <1>3, <3>1, <3>2
  <2> HIDE DEF k
  <2> QED
    BY <1>1, <1>2, <2>1, <2>2 DEF NothingLost
<1> QED
  BY <1>1, <1>2, <1>4, <1>5, <1>6, <1>7, <1>8, SameStore

\* A record joins the queue, and its window the store.
LEMMA TimedReplay ==
  ASSUME ReplayInv, NEW size \in Sizes, NEW t \in Times, ReadTimed(size, t)
  PROVE  ReplayInv'
<1> USE DEF ReplayInv, TypeOK
<1>1. PICK slot \in 1 .. Len(windows) + 1 :
        /\ Retain(RangeStart(offset), slot)
        /\ pending' = pending \cup {[offset |-> offset, size |-> size, time |-> t,
                                     slot |-> slot, round |-> round]}
  BY DEF ReadTimed
<1> DEFINE e == [offset |-> offset, size |-> size, time |-> t,
                 slot |-> slot, round |-> round]
           r == [offset |-> offset, time |-> t, round |-> round]
<1>2. /\ pc = "read" /\ count < MaxRecords /\ count' = count + 1 /\ offset' = offset + size
      /\ seen' = seen \cup {r}
      /\ UNCHANGED <<ordered, round, ready, pc, delivered, next_flush_time>>
      /\ max_timestamp' = MaxTimestamp(t) /\ pending' = pending \cup {e}
  BY <1>1 DEF ReadTimed, Read
<1>3. offset \in Nat /\ size \in Nat \ {0} /\ offset + size \in Nat /\ offset < offset + size
  BY ConstantsOK DEF ScanOK, Sizes
<1>4. t \in Nat \ {0} /\ t <= MaxTime
  BY ConstantsOK DEF Times
<1>5. e \in Entry
  <2>1. slot \in Nat /\ round \in Nat
    BY StoreShape DEF ScanOK
  <2> QED
    BY <1>3, <2>1 DEF Entry
<1>6. /\ e.offset = offset /\ e.slot = slot /\ e.time = t /\ e.round = round
      /\ Key(e) = [offset |-> offset, time |-> t]
  BY DEF Key
<1> HIDE DEF e
<1>7. e \notin Queued /\ Queued' = Queued \cup {e}
  BY <1>2, <1>3, <1>6 DEF QueueInv, Queued
<1>8. ScanOK'
  BY <1>2, <1>3, <1>4, ConstantsOK DEF ScanOK
<1>9. /\ max_timestamp' \in Times /\ t <= max_timestamp'
      /\ pending # {} => max_timestamp <= max_timestamp'
  BY <1>2, <1>4, ConstantsOK DEF MaxTimestamp, Max2, QueueOK, Times, None
<1>10. QueueOK'
  BY <1>2, <1>5, <1>9 DEF QueueOK
<1>11. StoreOK' /\ StoreInv' /\ StoreBalanced'
  <2>1. IsFiniteSet(Queued)
    BY FS_Union DEF QueueInv, Queued
  <2> QED
    BY <1>1, <1>5, <1>6, <1>7, <2>1, RetainStore
<1>12. QueueInv'
  <2>1. \A n \in Nat : n < offset => n < offset + size
    BY <1>3
  <2>2. \A f \in Queued : f.offset \in Nat /\ f.offset < offset
    BY DEF QueueOK, Queued, Entry, QueueInv
  <2>3. /\ \A s \in seen : s.offset \in Nat
        /\ \A d \in delivered : d.offset \in Nat
    BY DEF ScanOK
  <2>4. IsFiniteSet(pending')
    BY <1>2, FS_AddElement DEF QueueInv
  <2>5. \A f, g \in Queued' : f.offset = g.offset => f = g
    BY <1>3, <1>6, <1>7, <2>2 DEF QueueInv
  <2>6. \A f \in Queued' : f.offset < offset'
    BY <1>2, <1>3, <1>6, <1>7, <2>1, <2>2
  <2>7. \A s \in seen' : s.offset < offset'
    BY <1>2, <1>3, <2>1, <2>3 DEF QueueInv
  <2>8. \A d \in delivered' : d.offset < offset'
    BY <1>2, <1>3, <2>1, <2>3 DEF QueueInv
  <2> QED
    BY <1>2, <2>4, <2>5, <2>6, <2>7, <2>8 DEF QueueInv
<1>13. RoundInv'
  <2>1. ASSUME NEW f \in pending'
        PROVE  /\ f.time <= max_timestamp'
               /\ f.round <= round /\ round <= f.round + 1
               /\ f.round < round => f.time <= next_flush_time
    <3>1. CASE f = e
      BY <1>6, <1>9, <3>1 DEF ScanOK
    <3>2. CASE f \in pending
      <4>1. /\ f.time <= max_timestamp /\ f.round <= round /\ round <= f.round + 1
            /\ f.round < round => f.time <= next_flush_time
        BY <3>2 DEF RoundInv
      <4>2. f.time \in Nat /\ max_timestamp \in Int /\ max_timestamp' \in Int
        BY <1>9, <3>2, ConstantsOK DEF QueueOK, Entry, Times, None
      <4>3. max_timestamp <= max_timestamp'
        BY <1>9, <3>2
      <4>4. f.time <= max_timestamp'
        BY <4>1, <4>2, <4>3
      <4> QED
        BY <4>1, <4>4
    <3> QED
      BY <1>2, <3>1, <3>2
  <2> QED
    BY <1>2, <2>1 DEF RoundInv
<1>14. NothingLost'
  <2>1. SeenKeys' = SeenKeys \cup {Key(e)}
    <3>1. Key(r) = Key(e) /\ SeenKeys' = {Key(f) : f \in seen'}
      BY <1>6 DEF SeenKeys, Key
    <3> HIDE DEF r
    <3> QED
      BY <1>2, <3>1 DEF SeenKeys
  <2>2. {Key(f) : f \in Queued'} = {Key(f) : f \in Queued} \cup {Key(e)}
    BY <1>7
  <2>3. Key(e) \notin delivered
    BY <1>3, <1>6 DEF QueueInv
  <2> QED
    BY <1>2, <2>1, <2>2, <2>3 DEF NothingLost
<1> QED
  BY <1>8, <1>10, <1>11, <1>12, <1>13, <1>14

\* A round splits the queue: what is left is of the round that just ended.
LEMMA RoundReplay ==
  ASSUME ReplayInv, NEW size \in Sizes, ReadRound(size)
  PROVE  ReplayInv'
<1> USE DEF ReplayInv, TypeOK
<1>1. /\ pc = "read" /\ count < MaxRecords /\ count' = count + 1 /\ offset' = offset + size
      /\ round' = round + 1 /\ pc' = "flush"
      /\ ready' = {e \in pending : e.time <= next_flush_time}
      /\ pending' = {e \in pending : e.time > next_flush_time}
      /\ next_flush_time' = max_timestamp /\ max_timestamp' = max_timestamp
      /\ UNCHANGED <<ordered, seen, delivered>> /\ UNCHANGED storeVars
  BY DEF ReadRound, Read, Kept, Limit, histVars
<1>2. \A e \in pending : e.time \in Nat /\ e.offset \in Nat /\ e.round \in Nat
  BY ConstantsOK DEF QueueOK, Entry, Times
<1>3. next_flush_time \in Int /\ max_timestamp \in Int
  BY ConstantsOK DEF QueueOK, Times, None
<1>4. ready = {}
  BY <1>1 DEF QueueInv
<1>5. pending' \cup ready' = pending /\ pending' \cap ready' = {}
  BY <1>1, <1>2, <1>3
<1>6. Queued' = Queued
  BY <1>4, <1>5 DEF Queued
<1>7. offset \in Nat /\ size \in Nat \ {0} /\ offset + size \in Nat /\ offset < offset + size
  BY ConstantsOK DEF ScanOK, Sizes
<1>8. ScanOK'
  BY <1>1, <1>7, ConstantsOK DEF ScanOK
<1>9. QueueOK'
  BY <1>1 DEF QueueOK
<1>10. QueueInv'
  <2>1. \A n \in Nat : n < offset => n < offset + size
    BY <1>7
  <2>2. \A e \in Queued : e.offset \in Nat
    BY DEF QueueOK, Queued, Entry
  <2>3. /\ \A s \in seen : s.offset \in Nat
        /\ \A d \in delivered : d.offset \in Nat
    BY DEF ScanOK
  <2>4. IsFiniteSet(pending') /\ IsFiniteSet(ready')
    <3>1. pending' \subseteq pending /\ ready' \subseteq pending
      BY <1>1
    <3> QED
      BY <3>1, FS_Subset DEF QueueInv
  <2> QED
    BY <1>1, <1>5, <1>6, <1>7, <2>1, <2>2, <2>3, <2>4 DEF QueueInv
<1>11. RoundInv'
  <2> SUFFICES ASSUME NEW e \in pending'
               PROVE  /\ e.time <= max_timestamp
                      /\ e.round <= round + 1 /\ round + 1 <= e.round + 1
    BY <1>1 DEF RoundInv
  <2>1. e \in pending /\ ~(e.time <= next_flush_time)
    BY <1>1, <1>2, <1>3
  <2>2. e.time <= max_timestamp /\ e.round <= round /\ ~(e.round < round)
    BY <2>1 DEF RoundInv
  <2> QED
    BY <1>2, <2>1, <2>2 DEF ScanOK
<1>12. NothingLost'
  <2>1. SeenKeys' = SeenKeys
    BY <1>1 DEF SeenKeys
  <2> QED
    BY <1>1, <1>6, <2>1 DEF NothingLost
<1> QED
  BY <1>1, <1>6, <1>8, <1>9, <1>10, <1>11, <1>12, SameStore

\* At the end everything that waits is flushed.
LEMMA EndReplay ==
  ASSUME ReplayInv, EndOfData
  PROVE  ReplayInv'
<1> USE DEF ReplayInv, TypeOK
<1>1. /\ pc = "read" /\ pc' = "final" /\ ready' = pending /\ pending' = {}
      /\ next_flush_time' = next_flush_time /\ max_timestamp' = max_timestamp
      /\ UNCHANGED <<ordered, offset, count, round, seen, delivered>>
      /\ UNCHANGED storeVars
  BY DEF EndOfData, scanVars, histVars
<1>2. Queued' = Queued
  BY <1>1 DEF Queued, QueueInv
<1>3. ScanOK' /\ QueueOK'
  BY <1>1 DEF ScanOK, QueueOK
<1>4. QueueInv'
  BY <1>1, <1>2, FS_EmptySet DEF QueueInv
<1>5. RoundInv'
  BY <1>1 DEF RoundInv
<1>6. NothingLost'
  <2>1. SeenKeys' = SeenKeys
    BY <1>1 DEF SeenKeys
  <2> QED
    BY <1>1, <1>2, <2>1 DEF NothingLost
<1> QED
  BY <1>1, <1>2, <1>3, <1>4, <1>5, <1>6, SameStore

\* A file that cannot be read further leaves queue and store as they are.
LEMMA FailReplay ==
  ASSUME ReplayInv, ReadFails
  PROVE  ReplayInv'
<1> USE DEF ReplayInv, TypeOK
<1>1. /\ pc = "read" /\ pc' = "failed"
      /\ UNCHANGED <<ordered, offset, count, round, pending, next_flush_time,
                     max_timestamp, ready, seen, delivered>>
      /\ UNCHANGED storeVars
  BY DEF ReadFails, scanVars, queueVars, histVars
<1>2. Queued' = Queued
  BY <1>1 DEF Queued
<1>3. ScanOK' /\ QueueOK'
  BY <1>1 DEF ScanOK, QueueOK
<1>4. QueueInv' /\ RoundInv'
  BY <1>1, <1>2 DEF QueueInv, RoundInv
<1>5. NothingLost'
  BY <1>1 DEF NothingLost
<1> QED
  BY <1>1, <1>2, <1>3, <1>4, <1>5, SameStore

\* A record handed over leaves the queue, and its window the store with it.
LEMMA DeliverReplay ==
  ASSUME ReplayInv, Deliver
  PROVE  ReplayInv'
<1> USE DEF ReplayInv, TypeOK
<1>1. PICK e \in ready : /\ First(e) /\ Release({e}) /\ ready' = ready \ {e}
                         /\ delivered' = delivered \cup {Key(e)}
  BY DEF Deliver
<1>2. /\ pc \in {"flush", "final"} /\ UNCHANGED <<pc, seen>>
      /\ UNCHANGED <<ordered, offset, count, round, pending, next_flush_time, max_timestamp>>
  BY DEF Deliver, scanVars, queueVars
<1>3. Queued' = Queued \ {e} /\ e \in Queued
  BY <1>1, <1>2 DEF Queued, QueueInv
<1>4. StoreOK' /\ StoreInv' /\ StoreBalanced'
  <2>1. IsFiniteSet(Queued)
    BY FS_Union DEF QueueInv, Queued
  <2> QED
    BY <1>1, <1>3, <2>1, ReleaseStore
<1>5. e \in Entry /\ Key(e) \in [offset : Nat, time : 0 .. MaxTime] /\ Key(e).offset = e.offset
  BY <1>1, ConstantsOK DEF QueueOK, Entry, Key, Times
<1>6. ScanOK' /\ QueueOK'
  BY <1>1, <1>2, <1>5 DEF ScanOK, QueueOK
<1>7. QueueInv'
  <2>1. IsFiniteSet(ready') /\ ready' \subseteq ready
    BY <1>1, FS_Subset DEF QueueInv
  <2>2. \A d \in delivered' : d.offset < offset
    BY <1>1, <1>3, <1>5 DEF QueueInv
  <2> QED
    BY <1>2, <1>3, <2>1, <2>2 DEF QueueInv
<1>8. RoundInv'
  BY <1>2 DEF RoundInv
<1>9. NothingLost'
  <2>1. SeenKeys' = SeenKeys
    BY <1>2 DEF SeenKeys
  <2>2. {Key(f) : f \in Queued} = {Key(f) : f \in Queued'} \cup {Key(e)}
    BY <1>3
  <2>3. ASSUME NEW f \in Queued', Key(f) = Key(e) PROVE FALSE
    <3>1. f.offset = e.offset
      BY <2>3 DEF Key
    <3> QED
      BY <1>3, <3>1 DEF QueueInv
  <2> QED
    BY <1>1, <1>2, <2>1, <2>2, <2>3 DEF NothingLost
<1> QED
  BY <1>4, <1>6, <1>7, <1>8, <1>9

\* A consumer that fails releases the rest of the flush, and its windows.
LEMMA DeliverFailsReplay ==
  ASSUME ReplayInv, DeliverFails
  PROVE  ReplayInv'
<1> USE DEF ReplayInv, TypeOK
<1>1. /\ pc \in {"flush", "final"} /\ Release(ready) /\ ready' = {} /\ pc' = "failed"
      /\ UNCHANGED <<ordered, offset, count, round, pending, next_flush_time,
                     max_timestamp, seen, delivered>>
  BY DEF DeliverFails, scanVars, queueVars, histVars
<1>2. Queued' = Queued \ ready /\ ready \subseteq Queued
  BY <1>1 DEF Queued, QueueInv
<1>3. StoreOK' /\ StoreInv' /\ StoreBalanced'
  <2>1. IsFiniteSet(Queued)
    BY FS_Union DEF QueueInv, Queued
  <2> QED
    BY <1>1, <1>2, <2>1, ReleaseStore
<1>4. ScanOK' /\ QueueOK'
  BY <1>1 DEF ScanOK, QueueOK
<1>5. QueueInv'
  BY <1>1, <1>2, FS_EmptySet DEF QueueInv
<1>6. RoundInv' /\ NothingLost'
  BY <1>1 DEF RoundInv, NothingLost
<1> QED
  BY <1>3, <1>4, <1>5, <1>6

\* A flush that is through changes only where the replay stands.
LEMMA FlushedReplay ==
  ASSUME ReplayInv, Flushed
  PROVE  ReplayInv'
<1> USE DEF ReplayInv, TypeOK
<1>1. /\ pc \in {"flush", "final"} /\ ready = {}
      /\ pc' = IF pc = "flush" THEN "read" ELSE "done"
      /\ UNCHANGED <<ordered, offset, count, round, pending, next_flush_time,
                     max_timestamp, ready, seen, delivered>>
      /\ UNCHANGED storeVars
  BY DEF Flushed, scanVars, queueVars, histVars
<1>2. Queued' = Queued
  BY <1>1 DEF Queued
<1>3. ScanOK' /\ QueueOK'
  BY <1>1 DEF ScanOK, QueueOK
<1>4. QueueInv' /\ RoundInv'
  BY <1>1, <1>2 DEF QueueInv, RoundInv
<1>5. NothingLost'
  <2>1. SeenKeys' = SeenKeys
    BY <1>1 DEF SeenKeys
  <2>2. pc' = "done" => Queued = {}
    BY <1>1 DEF QueueInv, Queued
  <2> QED
    BY <1>1, <1>2, <2>1, <2>2 DEF NothingLost
<1> QED
  BY <1>1, <1>2, <1>3, <1>4, <1>5, SameStore

\* Every step keeps queue, rounds, store and history in agreement.
LEMMA NextReplay == ReplayInv /\ [Next]_vars => ReplayInv'
<1> SUFFICES ASSUME ReplayInv, [Next]_vars PROVE ReplayInv'
  OBVIOUS
<1>1. CASE \E size \in Sizes : ReadDirect(size)
  BY <1>1, DirectReplay
<1>2. CASE \E size \in Sizes : ReadRound(size)
  BY <1>2, RoundReplay
<1>3. CASE \E size \in Sizes : \E t \in Times : ReadTimed(size, t)
  BY <1>3, TimedReplay
<1>4. CASE EndOfData
  BY <1>4, EndReplay
<1>5. CASE ReadFails
  BY <1>5, FailReplay
<1>6. CASE Deliver
  BY <1>6, DeliverReplay
<1>7. CASE DeliverFails
  BY <1>7, DeliverFailsReplay
<1>8. CASE Flushed
  BY <1>8, FlushedReplay
<1>9. CASE UNCHANGED vars
  <2>1. /\ UNCHANGED <<ordered, offset, count, round, pending, next_flush_time,
                       max_timestamp, ready, pc, seen, delivered>>
        /\ UNCHANGED storeVars
    BY <1>9 DEF vars, scanVars, queueVars, histVars
  <2>2. Queued' = Queued /\ SeenKeys' = SeenKeys
    BY <2>1 DEF Queued, SeenKeys
  <2>3. ScanOK' /\ QueueOK' /\ QueueInv' /\ RoundInv' /\ NothingLost'
    BY <2>1, <2>2
       DEF ReplayInv, TypeOK, ScanOK, QueueOK, QueueInv, RoundInv, NothingLost
  <2> QED
    BY <2>1, <2>2, <2>3, SameStore DEF ReplayInv, TypeOK
<1> QED
  BY <1>1, <1>2, <1>3, <1>4, <1>5, <1>6, <1>7, <1>8, <1>9
     DEF Next, Scan, Flush, Ended

\* What waits lies inside its window, and no record outlives the next round.
LEMMA ReplayKeeps == ReplayInv => QueueExact
<1> SUFFICES ASSUME ReplayInv PROVE BytesRetained /\ TwoRoundLag
  BY DEF ReplayInv, QueueExact
<1> USE DEF ReplayInv, TypeOK
<1>1. BytesRetained
  <2> SUFFICES ASSUME NEW e \in Queued
               PROVE  /\ e.slot \in Slots
                      /\ windows[e.slot].start <= e.offset
                      /\ e.offset + e.size <= windows[e.slot].end
    BY DEF BytesRetained
  <2>1. e.slot \in Slots /\ windows[e.slot] = Backing(RangeStart(e.offset))
    BY DEF StoreInv
  <2>2. e.offset \in Nat /\ e.size \in Nat /\ e.size <= MaxSize
    BY ConstantsOK DEF QueueOK, Queued, Entry, Sizes
  <2>3. /\ RangeStart(e.offset) \in Nat /\ RangeStart(e.offset) <= e.offset
        /\ e.offset < RangeStart(e.offset) + WindowSize
    BY <2>2, RangeOfOffset
  <2>4. e.offset + e.size <= RangeStart(e.offset) + WindowSize + Overlap
    BY <2>2, <2>3, ConstantsOK
  <2> QED
    BY <2>1, <2>3, <2>4 DEF Backing
<1>2. TwoRoundLag
  <2> SUFFICES ASSUME NEW e \in pending PROVE e.round + 1 >= round
    BY DEF TwoRoundLag
  <2>1. e.round \in Nat /\ round \in Nat /\ round <= e.round + 1
    BY DEF QueueOK, Entry, ScanOK, RoundInv
  <2> QED
    BY <2>1
<1> QED
  BY <1>1, <1>2

\* The ordered queue loses nothing, keeps nothing beyond two rounds and has the
\* bytes of everything that waits; the window store holds exactly what the queue
\* needs.
THEOREM ReplayIsExact == Spec => []QueueExact
<1>1. Init => ReplayInv
  BY InitReplay
<1>2. ReplayInv /\ [Next]_vars => ReplayInv'
  BY NextReplay
<1>3. ReplayInv => QueueExact
  BY ReplayKeeps
<1> QED
  BY <1>1, <1>2, <1>3, PTL DEF Spec

-----------------------------------------------------------------------------
(* The order of the replay: what was handed over precedes what waits, since  *)
(* the records perf's promise is about bound the former from above and       *)
(* whatever is read later from below.                                        *)

\* Nothing read, nothing handed over.
LEMMA InitOrder == Init => OrderInv
<1> SUFFICES ASSUME Init PROVE OrderInv
  OBVIOUS
<1>1. 0 <= 0 * MaxSize
  BY ConstantsOK
<1> QED
  BY <1>1 DEF Init, OrderInv

\* Offsets grow by at most the largest record for each record read.
LEMMA NextOffset ==
  ASSUME NEW o \in Nat, NEW n \in Nat, NEW z \in Sizes, o <= n * MaxSize
  PROVE  o + z <= (n + 1) * MaxSize
<1>1. MaxSize \in Nat /\ z \in Nat /\ z <= MaxSize
  BY ConstantsOK DEF Sizes
<1>2. n * MaxSize \in Nat /\ (n + 1) * MaxSize = n * MaxSize + MaxSize
  BY <1>1
<1> QED
  BY <1>1, <1>2

\* A record without a usable timestamp is outside the order.
LEMMA DirectOrder ==
  ASSUME ReplayInv, OrderInv, NEW size \in Sizes, ReadDirect(size)
  PROVE  OrderInv'
<1> USE DEF ReplayInv, TypeOK
<1> DEFINE r == [offset |-> offset, time |-> 0, round |-> round]
           k == [offset |-> offset, time |-> 0]
<1>1. /\ pc = "read" /\ count' = count + 1 /\ offset' = offset + size
      /\ seen' = seen \cup {r} /\ delivered' = delivered \cup {k}
      /\ ordered' = ordered /\ round' = round /\ ready' = ready /\ pc' = pc
      /\ pending' = pending /\ next_flush_time' = next_flush_time
      /\ max_timestamp' = max_timestamp /\ Queued' = Queued
  BY DEF ReadDirect, Read, queueVars, Queued
<1>2. offset' <= count' * MaxSize
  BY <1>1, NextOffset DEF ScanOK, OrderInv
<1>3. \A s : Old(s)' <=> Old(s)
  BY <1>1 DEF Old
<1>4. k.time = 0
  OBVIOUS
<1> HIDE DEF k, r
<1>5. /\ max_timestamp' # None =>
           \E s \in seen' : s.time = max_timestamp' /\ s.round <= round'
      /\ next_flush_time' # None =>
           \E s \in seen' : s.time = next_flush_time' /\ s.round + 1 <= round'
  BY <1>1 DEF OrderInv
<1>6. \A d \in delivered' : d.time > 0 => \E s \in seen' : Old(s)' /\ d.time <= s.time
  BY <1>1, <1>3, <1>4 DEF OrderInv
<1>7. ordered' => \A d \in delivered' : d.time > 0 => \A e \in Queued' : Precedes(d, e)
  BY <1>1, <1>4 DEF OrderInv
<1> QED
  BY <1>1, <1>2, <1>5, <1>6, <1>7 DEF OrderInv, Old, Precedes

\* A record read later is no older than perf's promise allows, and so than
\* anything handed over.
LEMMA TimedOrder ==
  ASSUME ReplayInv, OrderInv, NEW size \in Sizes, NEW t \in Times, ReadTimed(size, t)
  PROVE  OrderInv'
<1> USE DEF ReplayInv, TypeOK
<1>1. PICK slot \in 1 .. Len(windows) + 1 :
        pending' = pending \cup {[offset |-> offset, size |-> size, time |-> t,
                                  slot |-> slot, round |-> round]}
  BY DEF ReadTimed
<1> DEFINE e == [offset |-> offset, size |-> size, time |-> t,
                 slot |-> slot, round |-> round]
           r == [offset |-> offset, time |-> t, round |-> round]
<1>2. /\ pc = "read" /\ count' = count + 1 /\ offset' = offset + size
      /\ seen' = seen \cup {r} /\ delivered' = delivered
      /\ ordered' = ordered /\ round' = round /\ ready' = ready /\ pc' = pc
      /\ next_flush_time' = next_flush_time /\ (ordered => Promised(t))
      /\ max_timestamp' = MaxTimestamp(t) /\ pending' = pending \cup {e}
  BY <1>1 DEF ReadTimed, Read
<1>3. e.offset = offset /\ e.time = t /\ r.time = t /\ r.round = round
  OBVIOUS
<1> HIDE DEF e, r
<1>4. Queued' = Queued \cup {e}
  BY <1>2 DEF Queued
<1>5. offset' <= count' * MaxSize
  BY <1>2, NextOffset DEF ScanOK, OrderInv
<1>6. \A s : Old(s)' <=> Old(s)
  BY <1>2 DEF Old
<1>7. t \in Nat \ {0} /\ round \in Nat /\ offset \in Nat
  BY ConstantsOK DEF Times, ScanOK
<1>8. max_timestamp' # None =>
        \E s \in seen' : s.time = max_timestamp' /\ s.round <= round'
  <2>1. CASE max_timestamp' = t
    BY <1>2, <1>3, <1>7, <2>1
  <2>2. CASE max_timestamp' # t
    <3>1. max_timestamp' = max_timestamp
      BY <1>2, <2>2 DEF MaxTimestamp, Max2
    <3> QED
      BY <1>2, <3>1 DEF OrderInv
  <2> QED
    BY <2>1, <2>2
<1>9. next_flush_time' # None =>
        \E s \in seen' : s.time = next_flush_time' /\ s.round + 1 <= round'
  BY <1>2 DEF OrderInv
<1>10. \A d \in delivered' : d.time > 0 => \E s \in seen' : Old(s)' /\ d.time <= s.time
  BY <1>2, <1>6 DEF OrderInv
<1>11. ASSUME ordered', NEW d \in delivered', d.time > 0, NEW f \in Queued'
       PROVE  Precedes(d, f)
  <2>1. CASE f \in Queued
    BY <1>2, <1>11, <2>1 DEF OrderInv
  <2>2. CASE f = e
    <3>1. PICK s \in seen : Old(s) /\ d.time <= s.time
      BY <1>2, <1>11 DEF OrderInv
    <3>2. s.time <= t
      BY <1>2, <1>11, <3>1 DEF Promised, Old
    <3>3. d.offset < offset /\ d.time \in Nat /\ d.offset \in Nat /\ s.time \in Nat
      BY <1>2, <3>1, ConstantsOK DEF QueueInv, ScanOK
    <3> QED
      BY <1>3, <1>7, <2>2, <3>1, <3>2, <3>3 DEF Precedes
  <2> QED
    BY <1>4, <2>1, <2>2
<1> QED
  BY <1>2, <1>5, <1>8, <1>9, <1>10, <1>11 DEF OrderInv, Old, Precedes

\* The limit of the round before is a timestamp the promise now speaks of: it
\* separates what this flush hands over from what stays.
LEMMA RoundOrder ==
  ASSUME ReplayInv, OrderInv, NEW size \in Sizes, ReadRound(size)
  PROVE  OrderInv'
<1> USE DEF ReplayInv, TypeOK
<1>1. /\ pc = "read" /\ count' = count + 1 /\ offset' = offset + size
      /\ round' = round + 1 /\ pc' = "flush"
      /\ ready' = {e \in pending : e.time <= next_flush_time}
      /\ pending' = {e \in pending : e.time > next_flush_time}
      /\ next_flush_time' = max_timestamp /\ max_timestamp' = max_timestamp
      /\ ordered' = ordered /\ seen' = seen /\ delivered' = delivered
  BY DEF ReadRound, Read, Kept, Limit, histVars
<1>2. \A e \in pending : e.time \in Nat \ {0}
  BY ConstantsOK DEF QueueOK, Entry, Times
<1>3. next_flush_time \in Int /\ round \in Nat
  BY ConstantsOK DEF QueueOK, ScanOK, Times, None
<1>4. Queued' \subseteq Queued
  BY <1>1 DEF Queued
<1>5. offset' <= count' * MaxSize
  BY <1>1, NextOffset DEF ScanOK, OrderInv
<1>6. \A s \in seen : s.round \in Nat /\ s.time \in Nat
  BY ConstantsOK DEF ScanOK
<1>7. \A s \in seen : Old(s) => Old(s)'
  BY <1>1, <1>3, <1>6 DEF Old
<1>8. /\ max_timestamp' # None =>
           \E s \in seen' : s.time = max_timestamp' /\ s.round <= round'
      /\ next_flush_time' # None =>
           \E s \in seen' : s.time = next_flush_time' /\ s.round + 1 <= round'
  <2>1. \A s \in seen : s.round <= round => s.round <= round + 1 /\ s.round + 1 <= round + 1
    BY <1>3, <1>6
  <2> QED
    BY <1>1, <2>1 DEF OrderInv
<1>9. ASSUME NEW e \in ready'
      PROVE  /\ \E s \in seen' : Old(s)' /\ e.time <= s.time
             /\ \A f \in pending' : e.time < f.time
  <2>1. e \in pending /\ e.time <= next_flush_time /\ e.time \in Nat \ {0}
    BY <1>1, <1>2
  <2>2. next_flush_time # None
    BY <2>1 DEF None
  <2>3. PICK s \in seen : s.time = next_flush_time /\ s.round + 1 <= round
    BY <2>2 DEF OrderInv
  <2>4. s.round + 2 <= round + 1 /\ s.time > 0
    BY <1>3, <1>6, <2>1, <2>3
  <2>5. Old(s)' /\ e.time <= s.time
    BY <1>1, <2>1, <2>3, <2>4 DEF Old
  <2>6. \A f \in pending' : e.time < f.time
    BY <1>1, <1>2, <1>3, <2>1
  <2> QED
    BY <1>1, <2>5, <2>6
<1>10. \A d \in delivered' : d.time > 0 => \E s \in seen' : Old(s)' /\ d.time <= s.time
  BY <1>1, <1>7 DEF OrderInv
<1>11. ordered' => \A d \in delivered' : d.time > 0 => \A e \in Queued' : Precedes(d, e)
  BY <1>1, <1>4 DEF OrderInv
<1> QED
  BY <1>1, <1>5, <1>8, <1>9, <1>10, <1>11 DEF OrderInv, Old, Precedes

\* The first of the flush precedes the rest of it and all that stays.
LEMMA DeliverOrder ==
  ASSUME ReplayInv, OrderInv, Deliver
  PROVE  OrderInv'
<1> USE DEF ReplayInv, TypeOK
<1>1. PICK e \in ready : /\ First(e) /\ ready' = ready \ {e}
                         /\ delivered' = delivered \cup {Key(e)}
  BY DEF Deliver
<1>2. /\ pc \in {"flush", "final"} /\ pc' = pc /\ seen' = seen /\ ordered' = ordered
      /\ offset' = offset /\ count' = count /\ round' = round /\ pending' = pending
      /\ next_flush_time' = next_flush_time /\ max_timestamp' = max_timestamp
  BY DEF Deliver, scanVars, queueVars
<1>3. Queued' \subseteq Queued /\ \A f \in Queued' : f \in pending \/ f \in ready \ {e}
  BY <1>1, <1>2 DEF Queued
<1>4. Key(e).time = e.time /\ Key(e).offset = e.offset
  BY DEF Key
<1>5. \A s : Old(s)' <=> Old(s)
  BY <1>2 DEF Old
<1>6. pc = "flush" =>
        \A f \in ready' : /\ \E s \in seen' : Old(s)' /\ f.time <= s.time
                          /\ \A g \in pending' : f.time < g.time
  BY <1>1, <1>2, <1>5 DEF OrderInv
<1>7. pc = "flush" =>
        \A d \in delivered' : d.time > 0 => \E s \in seen' : Old(s)' /\ d.time <= s.time
  BY <1>1, <1>2, <1>4, <1>5 DEF OrderInv
<1>8. ASSUME ordered', NEW d \in delivered', d.time > 0, NEW f \in Queued'
      PROVE  Precedes(d, f)
  <2>1. CASE d \in delivered
    BY <1>2, <1>3, <1>8, <2>1 DEF OrderInv
  <2>2. CASE d = Key(e)
    <3>1. CASE f \in ready \ {e}
      BY <1>1, <1>4, <2>2, <3>1 DEF First, Precedes
    <3>2. CASE f \in pending
      <4>1. pc = "flush"
        BY <1>2, <3>2 DEF QueueInv
      <4>2. e.time < f.time
        BY <3>2, <4>1 DEF OrderInv
      <4> QED
        BY <1>4, <2>2, <4>2 DEF Precedes
    <3> QED
      BY <1>3, <3>1, <3>2
  <2> QED
    BY <1>1, <2>1, <2>2
<1> QED
  BY <1>2, <1>6, <1>7, <1>8 DEF OrderInv, Old, Precedes

\* The other steps read nothing, hand nothing over, and queue nothing.
LEMMA QuietOrder ==
  ASSUME OrderInv, Queued' \subseteq Queued, ready' = ready \/ pc' # "flush",
         pc' \in {"read", "flush"} => pc \in {"read", "flush"},
         pc' = "flush" => pc = "flush" /\ pending' = pending,
         UNCHANGED <<ordered, offset, count, round, next_flush_time, max_timestamp,
                     seen, delivered>>
  PROVE  OrderInv'
<1>1. pc' = "flush" =>
        \A e \in ready' : /\ \E s \in seen' : Old(s)' /\ e.time <= s.time
                          /\ \A f \in pending' : e.time < f.time
  BY DEF OrderInv, Old
<1>2. pc' \in {"read", "flush"} =>
        \A d \in delivered' : d.time > 0 => \E s \in seen' : Old(s)' /\ d.time <= s.time
  BY DEF OrderInv, Old
<1>3. ordered' => \A d \in delivered' : d.time > 0 => \A e \in Queued' : Precedes(d, e)
  BY DEF OrderInv
<1> QED
  BY <1>1, <1>2, <1>3 DEF OrderInv, Precedes

\* Every step keeps what was handed over before what waits.
LEMMA NextOrder == ReplayInv /\ OrderInv /\ [Next]_vars => OrderInv'
<1> SUFFICES ASSUME ReplayInv, OrderInv, [Next]_vars PROVE OrderInv'
  OBVIOUS
<1>1. CASE \E size \in Sizes : ReadDirect(size)
  BY <1>1, DirectOrder
<1>2. CASE \E size \in Sizes : ReadRound(size)
  BY <1>2, RoundOrder
<1>3. CASE \E size \in Sizes : \E t \in Times : ReadTimed(size, t)
  BY <1>3, TimedOrder
<1>4. CASE EndOfData
  BY <1>4, QuietOrder DEF EndOfData, scanVars, histVars, Queued
<1>5. CASE ReadFails
  BY <1>5, QuietOrder DEF ReadFails, scanVars, queueVars, histVars, Queued
<1>6. CASE Deliver
  BY <1>6, DeliverOrder
<1>7. CASE DeliverFails
  BY <1>7, QuietOrder DEF DeliverFails, scanVars, queueVars, histVars, Queued
<1>8. CASE Flushed
  BY <1>8, QuietOrder DEF Flushed, scanVars, queueVars, histVars, Queued
<1>9. CASE UNCHANGED vars
  BY <1>9, QuietOrder DEF vars, scanVars, queueVars, histVars, Queued
<1> QED
  BY <1>1, <1>2, <1>3, <1>4, <1>5, <1>6, <1>7, <1>8, <1>9
     DEF Next, Scan, Flush, Ended

-----------------------------------------------------------------------------
(* The replay implements RecordDelivery.                                     *)

\* A record that is read is new, lies behind all others and fits the file.
LEMMA ReadArrives ==
  ASSUME ReplayInv, OrderInv, pc = "read", count < MaxRecords, NEW t \in 0 .. MaxTime
  PROVE  /\ [offset |-> offset, time |-> t] \in
              [offset : 0 .. MaxRecords * MaxSize, time : 0 .. MaxTime] \ SeenKeys
         /\ \A s \in SeenKeys : s.offset < offset
<1> USE DEF ReplayInv, TypeOK
<1>1. \A s \in SeenKeys : s.offset < offset
  BY DEF SeenKeys, Key, QueueInv
<1>2. offset \in Nat /\ count \in Nat /\ MaxRecords \in Nat /\ MaxSize \in Nat
  BY ConstantsOK DEF ScanOK
<1>3. count * MaxSize <= MaxRecords * MaxSize /\ MaxRecords * MaxSize \in Int
  <2>1. ASSUME NEW n \in Nat, NEW m \in Nat, NEW k \in Nat, n < m
        PROVE  n * k <= m * k /\ m * k \in Int /\ n * k \in Int
    BY ONLY <2>1
  <2> QED
    BY <1>2, <2>1
<1>4. offset <= MaxRecords * MaxSize
  <2>1. offset <= count * MaxSize /\ count * MaxSize \in Int
    BY <1>2 DEF OrderInv
  <2> QED
    BY <1>2, <1>3, <2>1
<1>5. [offset |-> offset, time |-> t] \notin SeenKeys
  BY <1>1, <1>2
<1> QED
  BY <1>1, <1>2, <1>3, <1>4, <1>5

\* Every step is a step of RecordDelivery or changes nothing it speaks of.
LEMMA NextDelivers ==
  ReplayInv /\ OrderInv /\ [Next]_vars => [Delivery!Next]_(Delivery!vars)
<1> SUFFICES ASSUME ReplayInv, OrderInv, [Next]_vars
             PROVE  Delivery!Next \/ UNCHANGED <<ordered, SeenKeys, delivered>>
  BY DEF Delivery!vars
<1> DEFINE Record == [offset : 0 .. MaxRecords * MaxSize, time : 0 .. MaxTime]
<1>1. ASSUME NEW size \in Sizes, ReadDirect(size)
      PROVE  Delivery!Next
  <2> DEFINE r == [offset |-> offset, time |-> 0, round |-> round]
             k == [offset |-> offset, time |-> 0]
  <2>1. /\ pc = "read" /\ count < MaxRecords /\ ordered' = ordered
        /\ seen' = seen \cup {r} /\ delivered' = delivered \cup {k}
    BY <1>1 DEF ReadDirect, Read
  <2>2. k \in Record \ SeenKeys /\ \A s \in SeenKeys : s.offset < k.offset
    BY <2>1, ReadArrives, ConstantsOK
  <2>3. SeenKeys' = SeenKeys \cup {k}
    <3>1. Key(r) = k /\ SeenKeys' = {Key(e) : e \in seen'}
      BY DEF SeenKeys, Key
    <3> HIDE DEF r, k
    <3> QED
      BY <2>1, <3>1 DEF SeenKeys
  <2>4. k.time = 0
    OBVIOUS
  <2> HIDE DEF k, r, Record
  <2>5. Delivery!ArriveDirect(k)
    BY <2>1, <2>2, <2>3, <2>4 DEF Delivery!ArriveDirect, Delivery!Timed
  <2> QED
    BY <2>2, <2>5 DEF Delivery!Next, Record
<1>2. ASSUME NEW size \in Sizes, NEW t \in Times, ReadTimed(size, t)
      PROVE  Delivery!Next
  <2> DEFINE r == [offset |-> offset, time |-> t, round |-> round]
             k == [offset |-> offset, time |-> t]
  <2>1. /\ pc = "read" /\ count < MaxRecords /\ ordered' = ordered
        /\ seen' = seen \cup {r} /\ delivered' = delivered
    BY <1>2 DEF ReadTimed, Read
  <2>2. k \in Record \ SeenKeys /\ \A s \in SeenKeys : s.offset < k.offset
    <3>1. t \in 0 .. MaxTime
      BY ConstantsOK DEF Times
    <3> QED
      BY <2>1, <3>1, ReadArrives
  <2>3. SeenKeys' = SeenKeys \cup {k}
    <3>1. Key(r) = k /\ SeenKeys' = {Key(e) : e \in seen'}
      BY DEF SeenKeys, Key
    <3> HIDE DEF r, k
    <3> QED
      BY <2>1, <3>1 DEF SeenKeys
  <2> HIDE DEF k, r, Record
  <2>4. Delivery!Arrive(k)
    BY <2>1, <2>2, <2>3 DEF Delivery!Arrive
  <2> QED
    BY <2>2, <2>4 DEF Delivery!Next, Record
<1>3. ASSUME Deliver
      PROVE  Delivery!Next
  <2>1. PICK e \in ready : delivered' = delivered \cup {Key(e)}
    BY <1>3 DEF Deliver
  <2>2. pc \in {"flush", "final"} /\ seen' = seen /\ ordered' = ordered /\ SeenKeys' = SeenKeys
    BY <1>3 DEF Deliver, scanVars, SeenKeys
  <2>3. e \in Queued
    BY DEF Queued
  <2>4. Key(e) \in SeenKeys \ delivered
    BY <2>2, <2>3 DEF ReplayInv, NothingLost
  <2>5. ASSUME ordered, NEW s \in delivered, Delivery!Timed(s)
        PROVE  Delivery!Precedes(s, Key(e))
    <3>1. Precedes(s, e)
      BY <2>3, <2>5 DEF OrderInv, Delivery!Timed
    <3>2. Key(e).time = e.time /\ Key(e).offset = e.offset
      BY DEF Key
    <3> QED
      BY <3>1, <3>2 DEF Precedes, Delivery!Precedes
  <2>6. Delivery!Deliver(Key(e))
    BY <2>1, <2>2, <2>4, <2>5 DEF Delivery!Deliver
  <2> QED
    BY <2>4, <2>6 DEF Delivery!Next
<1>4. CASE EndOfData \/ ReadFails \/ DeliverFails \/ Flushed \/ UNCHANGED vars
  <2>1. UNCHANGED <<ordered, seen, delivered>>
    BY <1>4 DEF EndOfData, ReadFails, DeliverFails, Flushed, vars, scanVars, histVars
  <2> QED
    BY <2>1 DEF SeenKeys
<1>5. CASE Scan
  <2>1. PICK size \in Sizes :
          ReadDirect(size) \/ ReadRound(size) \/ \E t \in Times : ReadTimed(size, t)
    BY <1>5 DEF Scan
  <2>2. ReadRound(size) => UNCHANGED <<ordered, SeenKeys, delivered>>
    BY DEF ReadRound, histVars, SeenKeys
  <2> QED
    BY <1>1, <1>2, <2>1, <2>2
<1> QED
  BY <1>3, <1>4, <1>5 DEF Next, Flush, Ended

\* The replay hands records over as RecordDelivery says: each once, after it was
\* read, and those of a recording that keeps perf's promise in time order.
THEOREM ReplayDelivers == Spec => DeliverySpec
<1>1. Init => ReplayInv /\ OrderInv
  BY InitReplay, InitOrder
<1>2. ReplayInv /\ OrderInv /\ [Next]_vars => (ReplayInv /\ OrderInv)'
  BY NextReplay, NextOrder
<1>3. Init => Delivery!Init
  BY DEF Init, Delivery!Init, SeenKeys
<1>4. ReplayInv /\ OrderInv /\ [Next]_vars => [Delivery!Next]_(Delivery!vars)
  BY NextDelivers
<1> QED
  BY <1>1, <1>2, <1>3, <1>4, PTL DEF Spec, DeliverySpec, Delivery!Spec

-----------------------------------------------------------------------------
(* The samples that wait for their callchain.                                *)

\* The k-th of some positions, counted from the first.
Rank(I, i) == Cardinality({j \in I : j <= i})
Nth(I, k) == CHOOSE i \in I : Rank(I, i) = k

\* Positions are counted without a gap, in their order.
LEMMA Ranks ==
  ASSUME NEW n \in Nat, NEW I \in SUBSET (1 .. n)
  PROVE  /\ Cardinality(I) \in Nat
         /\ \A k \in 1 .. Cardinality(I) : Nth(I, k) \in I /\ Rank(I, Nth(I, k)) = k
         /\ \A i \in I : Rank(I, i) \in 1 .. Cardinality(I)
         /\ \A i, j \in I : i < j => Rank(I, i) < Rank(I, j)
<1> DEFINE Up(i) == {j \in I : j <= i}
           rank == [i \in I |-> Rank(I, i)]
           N == 1 .. Cardinality(I)
<1>0. \A i \in I : i \in Int
  OBVIOUS
<1>1. IsFiniteSet(I) /\ Cardinality(I) \in Nat
  <2>1. IsFiniteSet(1 .. n)
    BY FS_Interval
  <2> QED
    BY <2>1, FS_Subset, FS_CardinalityType
<1>2. ASSUME NEW i \in I
      PROVE  IsFiniteSet(Up(i)) /\ Rank(I, i) = Cardinality(Up(i)) /\ Rank(I, i) \in N
               /\ Rank(I, i) \in Int
  <2>1. Up(i) \subseteq I /\ i \in Up(i)
    OBVIOUS
  <2>2. IsFiniteSet(Up(i)) /\ Cardinality(Up(i)) <= Cardinality(I)
    BY <1>1, <2>1, FS_Subset
  <2>3. Cardinality(Up(i)) \in Nat /\ Cardinality(Up(i)) # 0
    BY <2>1, <2>2, FS_CardinalityType, FS_EmptySet
  <2> QED
    BY <1>1, <2>2, <2>3 DEF Rank
<1>3. ASSUME NEW i \in I, NEW j \in I, i < j
      PROVE  Rank(I, i) < Rank(I, j)
  <2>1. Up(i) \subseteq Up(j) /\ j \in Up(j) /\ j \notin Up(i)
    <3>1. i \in Int /\ j \in Int /\ \A x \in I : x \in Int
      BY <1>0
    <3>2. ~ (j <= i) /\ j <= j /\ \A x \in I : x <= i => x <= j
      BY <1>3, <3>1
    <3> QED
      BY <3>2
  <2>2. Cardinality(Up(i)) <= Cardinality(Up(j))
          /\ (Cardinality(Up(i)) = Cardinality(Up(j)) => Up(i) = Up(j))
    BY <2>1, <1>2, FS_Subset
  <2>3. Rank(I, i) = Cardinality(Up(i)) /\ Rank(I, j) = Cardinality(Up(j))
          /\ Rank(I, i) \in N /\ Rank(I, j) \in N
    BY <1>2
  <2> QED
    BY <2>1, <2>2, <2>3, <1>1
<1>4. rank \in Injection(I, N)
  <2>1. rank \in [I -> N]
    BY <1>2
  <2>2. ASSUME NEW i \in I, NEW j \in I, rank[i] = rank[j]
        PROVE  i = j
    <3>1. Rank(I, i) = Rank(I, j)
      BY <2>2
    <3>2. Rank(I, i) \in Int
      BY <1>2
    <3>3. ~ (i < j) /\ ~ (j < i)
      BY <1>3, <3>1, <3>2
    <3> QED
      BY <1>0, <3>3
  <2> QED
    BY <2>1, <2>2, Fun_IsInj
<1>5. IsFiniteSet(N) /\ Cardinality(N) = Cardinality(I)
  BY <1>1, FS_Interval
<1>6. rank \in Surjection(I, N)
  BY <1>4, <1>5, FS_Injection
<1>7. \A k \in N : \E i \in I : Rank(I, i) = k
  <2> HIDE DEF rank, N
  <2>1. \A k \in N : \E i \in I : rank[i] = k
    BY <1>6, Fun_SurjectionProperties
  <2> QED
    BY <2>1 DEF rank
<1>8. \A k \in N : Nth(I, k) \in I /\ Rank(I, Nth(I, k)) = k
  BY <1>7 DEF Nth
<1> QED
  BY <1>1, <1>2, <1>3, <1>8

\* The instance counts as this module does.
LEMMA SameCount ==
  ASSUME NEW S
  PROVE  Deferred!Cardinality(S) = Cardinality(S)
BY Zenon DEF Deferred!Cardinality, Cardinality

\* What At gives: the entries at the positions, each once, in their order.
LEMMA AtIs ==
  ASSUME NEW S, NEW list \in Seq(S), NEW I \in SUBSET DOMAIN list
  PROVE  /\ Deferred!At(list, I) \in Seq(S) /\ Len(Deferred!At(list, I)) = Cardinality(I)
         /\ Cardinality(I) \in Nat
         /\ \A k \in DOMAIN Deferred!At(list, I) : Nth(I, k) \in I
              /\ Deferred!At(list, I)[k] = list[Nth(I, k)]
         /\ \A k, l \in DOMAIN Deferred!At(list, I) : k < l => Nth(I, k) < Nth(I, l)
         /\ \A i \in I : \E k \in DOMAIN Deferred!At(list, I) : Nth(I, k) = i
<1> DEFINE N == Cardinality(I)
<1>0. I \in SUBSET (1 .. Len(list)) /\ Len(list) \in Nat
  BY LenProperties
<1>1. /\ N \in Nat
      /\ \A k \in 1 .. N : Nth(I, k) \in I /\ Rank(I, Nth(I, k)) = k
      /\ \A i \in I : Rank(I, i) \in 1 .. N
      /\ \A i, j \in I : i < j => Rank(I, i) < Rank(I, j)
  BY <1>0, Ranks
<1>2. Deferred!At(list, I) = [k \in 1 .. N |-> list[Nth(I, k)]]
  BY Zenon DEF Deferred!At, Nth, Rank, Cardinality, Deferred!Cardinality
<1>3. \A k \in 1 .. N : list[Nth(I, k)] \in S
  BY <1>0, <1>1, ElementOfSeq
<1>4. Deferred!At(list, I) \in Seq(S) /\ Len(Deferred!At(list, I)) = N
        /\ DOMAIN Deferred!At(list, I) = 1 .. N
  <2>1. Deferred!At(list, I) \in [1 .. N -> S]
    BY <1>2, <1>3
  <2> QED
    BY <1>1, <2>1, SeqDef, LenProperties
<1>5. ASSUME NEW k \in 1 .. N, NEW l \in 1 .. N, k < l
      PROVE  Nth(I, k) < Nth(I, l)
  <2>1. Nth(I, k) \in I /\ Nth(I, l) \in I /\ Rank(I, Nth(I, k)) = k /\ Rank(I, Nth(I, l)) = l
    BY <1>1
  <2>2. Nth(I, l) < Nth(I, k) => l < k
    BY <1>1, <2>1
  <2>3. Nth(I, l) = Nth(I, k) => l = k
    BY <2>1
  <2> QED
    BY <1>0, <1>5, <2>1, <2>2, <2>3
<1>6. ASSUME NEW i \in I PROVE \E k \in 1 .. N : Nth(I, k) = i
  <2> DEFINE k == Rank(I, i)
  <2>1. k \in 1 .. N /\ Nth(I, k) \in I /\ Rank(I, Nth(I, k)) = k
    BY <1>1
  <2>2. ~ (Nth(I, k) < i) /\ ~ (i < Nth(I, k))
    BY <1>1, <2>1
  <2>3. Nth(I, k) = i
    BY <1>0, <2>1, <2>2
  <2> QED
    BY <2>1, <2>3
<1> QED
  BY <1>1, <1>2, <1>4, <1>5, <1>6

\* A list with an entry more, and one without its first.
LEMMA Appended ==
  ASSUME NEW S, NEW list \in Seq(S), NEW e \in S
  PROVE  /\ Append(list, e) \in Seq(S) /\ Len(Append(list, e)) = Len(list) + 1
         /\ DOMAIN Append(list, e) = 1 .. Len(list) + 1
         /\ \A i \in DOMAIN list : i # Len(list) + 1 /\ Append(list, e)[i] = list[i]
         /\ Append(list, e)[Len(list) + 1] = e
         /\ Deferred!ToSet(Append(list, e)) = Deferred!ToSet(list) \cup {e}
<1>1. /\ Append(list, e) \in Seq(S) /\ Len(Append(list, e)) = Len(list) + 1
      /\ DOMAIN Append(list, e) = 1 .. Len(list) + 1
      /\ \A i \in DOMAIN list : i # Len(list) + 1 /\ Append(list, e)[i] = list[i]
      /\ Append(list, e)[Len(list) + 1] = e
  BY AppendProperties, LenProperties
<1>2. DOMAIN Append(list, e) = DOMAIN list \cup {Len(list) + 1}
  BY <1>1, LenProperties
<1> QED
  BY <1>1, <1>2 DEF Deferred!ToSet

LEMMA Shortened ==
  ASSUME NEW S, NEW list \in Seq(S), list # <<>>
  PROVE  /\ Tail(list) \in Seq(S) /\ Len(Tail(list)) = Len(list) - 1
         /\ Head(list) \in S /\ 1 \in DOMAIN list /\ Head(list) = list[1]
         /\ DOMAIN Tail(list) = 1 .. Len(list) - 1
         /\ \A i \in DOMAIN Tail(list) : i + 1 \in DOMAIN list /\ Tail(list)[i] = list[i + 1]
         /\ Deferred!ToSet(list) = Deferred!ToSet(Tail(list)) \cup {Head(list)}
<1>1. /\ Tail(list) \in Seq(S) /\ Len(Tail(list)) = Len(list) - 1
      /\ Head(list) \in S /\ Head(list) = list[1] /\ Len(list) \in Nat /\ Len(list) # 0
      /\ DOMAIN list = 1 .. Len(list) /\ DOMAIN Tail(list) = 1 .. Len(list) - 1
      /\ \A i \in DOMAIN Tail(list) : i + 1 \in DOMAIN list /\ Tail(list)[i] = list[i + 1]
  BY HeadTailProperties, LenProperties, EmptySeq
<1>2. 1 \in DOMAIN list /\ \A i \in DOMAIN list : i = 1 \/ (i - 1 \in DOMAIN Tail(list)
        /\ i = (i - 1) + 1)
  BY <1>1
<1>3. ASSUME NEW i \in DOMAIN list PROVE list[i] \in
             Deferred!ToSet(Tail(list)) \cup {Head(list)}
  BY <1>1, <1>2 DEF Deferred!ToSet
<1>4. ASSUME NEW i \in DOMAIN Tail(list) PROVE Tail(list)[i] \in Deferred!ToSet(list)
  BY <1>1 DEF Deferred!ToSet
<1>5. Deferred!ToSet(list) \subseteq Deferred!ToSet(Tail(list)) \cup {Head(list)}
  BY <1>3 DEF Deferred!ToSet
<1>6. Deferred!ToSet(Tail(list)) \subseteq Deferred!ToSet(list)
        /\ Head(list) \in Deferred!ToSet(list)
  BY <1>1, <1>2, <1>4 DEF Deferred!ToSet
<1> QED
  BY <1>1, <1>2, <1>5, <1>6

-----------------------------------------------------------------------------
(* The inductive invariant.                                                  *)

\* What a record is numbered as, and the thread it is of.
Applied == [n : 1 .. DeferredRecords, tid : Deferred!Threads, cookie : Cookies]

HistoryTypes ==
  /\ deferrals \subseteq Applied /\ IsFiniteSet(deferrals) /\ chains \subseteq Applied
  /\ \A s \in deferrals : s.n <= deferred_count
  /\ \A c \in chains : c.n <= deferred_count
  /\ \A s, t \in deferrals : s.n = t.n => s = t

\* A sample that is kept is one that was recorded.
Known(e) == \E s \in deferrals : s.n = e.n /\ s.tid = e.tid /\ s.cookie = e.cookie

\* One that waits is as it was recorded, after every chain of its thread.
Waits(e) ==
  /\ e.chain = 0 /\ e.cookie_to_suppress = e.cookie
  /\ \A c \in chains : c.tid = e.tid => c.n < e.n

\* One that was taken by a chain has been decided by the first.
Decided(e) ==
  \E c \in Deferred!ChainsAfter(e) :
    /\ \A d \in Deferred!ChainsAfter(e) : c.n <= d.n
    /\ \/ c.cookie = e.cookie /\ e.chain = c.n /\ e.cookie_to_suppress = e.cookie
       \/ c.cookie # e.cookie /\ e.chain = 0 /\ e.cookie_to_suppress = NoCookie

Increasing(list) == \A i, j \in DOMAIN list : i < j => list[i].n < list[j].n
Ahead(first, second) ==
  \A i \in DOMAIN first, j \in DOMAIN second :
    first[i].tid = second[j].tid => first[i].n < second[j].n

ListInv ==
  /\ \A e \in Deferred!Held : Known(e)
  /\ \A e \in Deferred!ToSet(waiting) : Waits(e)
  /\ \A e \in Deferred!ToSet(batch) \cup Deferred!ToSet(emitted) :
       Decided(e) \/ (deferred_pc \notin {"replay", "matched"} /\ Waits(e))

SampleOrderInv ==
  /\ Increasing(waiting) /\ Increasing(batch) /\ Deferred!ThreadOrder
  /\ Ahead(emitted, batch) /\ Ahead(emitted, waiting) /\ Ahead(batch, waiting)

PlaceInv ==
  /\ deferred_pc # "failed" =>
       /\ \A s \in deferrals : \E e \in Deferred!Held : e.n = s.n
       /\ Len(waiting) + Len(batch) + Len(emitted) = Cardinality(deferrals)
  /\ deferred_pc \in {"replay", "done"} => batch = <<>>
  /\ deferred_pc \in {"final", "done"} => waiting = <<>>

DeferredInv == Deferred!TypeOK /\ HistoryTypes /\ ListInv /\ SampleOrderInv /\ PlaceInv

\* It is what the property is about.
LEMMA InvIsExact == DeferredInv => Deferred!DeferredExact
<1> SUFFICES ASSUME DeferredInv PROVE Deferred!DeferredExact
  OBVIOUS
<1> USE DEF DeferredInv
<1>1. Deferred!ExactlyOnce
  <2>1. deferred_pc # "failed" => {s.n : s \in deferrals} = {s.n : s \in Deferred!Held}
    <3>1. \A s \in deferrals : deferred_pc # "failed" => s.n \in {e.n : e \in Deferred!Held}
      BY DEF PlaceInv
    <3>2. \A e \in Deferred!Held : e.n \in {s.n : s \in deferrals}
      BY DEF ListInv, Known
    <3> QED
      BY <3>1, <3>2
  <2>3. deferred_pc = "done" => Len(waiting) = 0 /\ Len(batch) = 0
    BY DEF PlaceInv
  <2>4. Len(emitted) \in Nat
    BY LenProperties DEF Deferred!TypeOK
  <2>5. deferred_pc # "failed" =>
          Len(waiting) + Len(batch) + Len(emitted) = Cardinality(deferrals)
    BY DEF PlaceInv
  <2>6. deferred_pc = "done" => Len(emitted) = Cardinality(deferrals)
    <3> SUFFICES ASSUME deferred_pc = "done" PROVE Len(emitted) = Cardinality(deferrals)
      OBVIOUS
    <3>1. deferred_pc # "failed"
      OBVIOUS
    <3> QED
      BY <2>3, <2>4, <2>5, <3>1
  <2> QED
    BY <2>1, <2>5, <2>6, SameCount DEF Deferred!ExactlyOnce
<1>2. Deferred!FirstChainDecides
  <2> SUFFICES ASSUME NEW s \in deferrals,
                      NEW e \in Deferred!ToSet(emitted) \cup Deferred!ToSet(batch), e.n = s.n
               PROVE  Deferred!Outcome(s, e)
    BY DEF Deferred!FirstChainDecides
  <2>1. s.tid = e.tid /\ s.cookie = e.cookie
    BY DEF ListInv, Known, HistoryTypes, Deferred!Held
  <2>2. Deferred!ChainsAfter(s) = Deferred!ChainsAfter(e)
    BY <2>1 DEF Deferred!ChainsAfter
  <2>3. CASE Decided(e)
    BY <2>1, <2>2, <2>3 DEF Decided, Deferred!Outcome
  <2>4. CASE Waits(e)
    <3>1. Deferred!ChainsAfter(e) = {}
      <4> SUFFICES ASSUME NEW c \in chains, c.tid = e.tid, c.n > e.n PROVE FALSE
        BY DEF Deferred!ChainsAfter
      <4>1. c.n \in Int /\ e.n \in Int /\ c.n < e.n
        BY <2>4 DEF Waits, HistoryTypes, Applied
      <4> QED
        BY <4>1
    <3> QED
      BY <3>1, <2>1, <2>2, <2>4 DEF Waits, Deferred!Outcome
  <2> QED
    BY <2>3, <2>4 DEF ListInv
<1>3. Deferred!NoneLeftBehind
  BY DEF Deferred!NoneLeftBehind, ListInv, Waits
<1> QED
  BY <1>1, <1>2, <1>3 DEF Deferred!DeferredExact, SampleOrderInv

\* Nothing has been read.
LEMMA DeferredInit == Deferred!DeferredAssumption /\ Deferred!Init => DeferredInv
<1> SUFFICES ASSUME Deferred!DeferredAssumption, Deferred!Init PROVE DeferredInv
  OBVIOUS
<1>1. Deferred!TypeOK
  BY DEF Deferred!Init, Deferred!TypeOK, Deferred!DeferredAssumption
<1>2. Deferred!ToSet(<<>>) = {}
  BY DEF Deferred!ToSet
<1>3. HistoryTypes
  BY FS_EmptySet DEF Deferred!Init, HistoryTypes
<1>4. ListInv
  BY <1>2 DEF Deferred!Init, ListInv, Deferred!Held
<1>5. SampleOrderInv
  BY DEF Deferred!Init, SampleOrderInv, Increasing, Ahead, Deferred!ThreadOrder
<1>6. PlaceInv
  BY FS_EmptySet DEF Deferred!Init, PlaceInv
<1> QED
  BY <1>1, <1>3, <1>4, <1>5, <1>6 DEF DeferredInv

-----------------------------------------------------------------------------
(* Every step keeps the invariant.                                           *)

\* The three lists hold entries of the type.
LEMMA Typed ==
  ASSUME Deferred!TypeOK
  PROVE  /\ \A i \in DOMAIN waiting : waiting[i] \in Deferred!DeferredFoldSample
         /\ \A i \in DOMAIN batch : batch[i] \in Deferred!DeferredFoldSample
         /\ \A i \in DOMAIN emitted : emitted[i] \in Deferred!DeferredFoldSample
         /\ \A e \in Deferred!Held : e \in Deferred!DeferredFoldSample
<1>1. /\ \A i \in DOMAIN waiting : waiting[i] \in Deferred!DeferredFoldSample
      /\ \A i \in DOMAIN batch : batch[i] \in Deferred!DeferredFoldSample
      /\ \A i \in DOMAIN emitted : emitted[i] \in Deferred!DeferredFoldSample
  BY ElementOfSeq, LenProperties DEF Deferred!TypeOK
<1> QED
  BY <1>1 DEF Deferred!Held, Deferred!ToSet

\* A sample is queued.
LEMMA DeferKeeps ==
  ASSUME Deferred!DeferredAssumption, DeferredInv, Deferred!Defer
  PROVE  DeferredInv'
<1>1. PICK tid \in Deferred!Threads, cookie \in Cookies :
        /\ Deferred!Apply
        /\ waiting' = Append(waiting,
             [n |-> deferred_count', tid |-> tid, cookie |-> cookie, cookie_to_suppress |->
               cookie, chain |-> 0])
        /\ deferrals' = deferrals \cup {[n |-> deferred_count', tid |-> tid, cookie |-> cookie]}
        /\ UNCHANGED <<batch, deferred_pc, chains, emitted>>
  BY DEF Deferred!Defer
<1>a. PICK new :
        new = [n |-> deferred_count', tid |-> tid, cookie |-> cookie, cookie_to_suppress |->
          cookie, chain |-> 0]
  OBVIOUS
<1>b. PICK s0 : s0 = [n |-> deferred_count', tid |-> tid, cookie |-> cookie]
  OBVIOUS
<1>2. /\ deferred_pc = "replay" /\ deferred_count \in Nat /\ DeferredRecords \in Nat
           /\ deferred_count < DeferredRecords /\ deferred_count' = deferred_count + 1
      /\ deferred_count' \in 1 .. DeferredRecords
  BY <1>1 DEF Deferred!Apply, DeferredInv, Deferred!TypeOK, Deferred!DeferredAssumption
<1>3. new \in Deferred!DeferredFoldSample /\ s0 \in Applied /\ new.n = deferred_count'
        /\ new.tid = tid
      /\ new.cookie = cookie /\ new.cookie_to_suppress = cookie /\ new.chain = 0
      /\ s0.n = deferred_count' /\ s0.tid = tid /\ s0.cookie = cookie
  BY <1>1, <1>2, <1>a, <1>b DEF Deferred!DeferredFoldSample, Applied
<1>4. /\ waiting' \in Seq(Deferred!DeferredFoldSample)
      /\ Len(waiting') = Len(waiting) + 1
      /\ DOMAIN waiting' = 1 .. Len(waiting) + 1
      /\ \A i \in DOMAIN waiting : i # Len(waiting) + 1 /\ waiting'[i] = waiting[i]
      /\ waiting'[Len(waiting) + 1] = new
      /\ Deferred!ToSet(waiting') = Deferred!ToSet(waiting) \cup {new}
  BY <1>1, <1>3, <1>a, Appended DEF DeferredInv, Deferred!TypeOK
<1>5. DOMAIN waiting = 1 .. Len(waiting) /\ Len(waiting) \in Nat
  BY LenProperties DEF DeferredInv, Deferred!TypeOK
<1>6. \A i \in DOMAIN waiting' : i \in DOMAIN waiting \/ i = Len(waiting) + 1
  BY <1>4, <1>5
<1>7. Deferred!Held' = Deferred!Held \cup {new}
        /\ Deferred!ToSet(batch)' = Deferred!ToSet(batch)
             /\ Deferred!ToSet(emitted)' = Deferred!ToSet(emitted)
  BY <1>1, <1>4 DEF Deferred!Held
<1>8. deferrals' = deferrals \cup {s0} /\ s0 \notin deferrals
  BY <1>1, <1>2, <1>3, <1>b DEF DeferredInv, HistoryTypes
<1>9. \A e \in Deferred!Held : e.n <= deferred_count /\ e.n \in Int
  BY <1>2 DEF DeferredInv, ListInv, HistoryTypes, Known, Applied
<1>10. /\ \A i \in DOMAIN waiting : waiting[i].n < deferred_count'
       /\ \A i \in DOMAIN batch : batch[i].n < deferred_count'
       /\ \A i \in DOMAIN emitted : emitted[i].n < deferred_count'
  <2>1. \A e \in Deferred!Held : e.n < deferred_count'
    BY <1>2, <1>9
  <2> QED
    BY <2>1 DEF Deferred!Held, Deferred!ToSet
<1>11. Deferred!TypeOK'
  BY <1>1, <1>2, <1>4 DEF DeferredInv, Deferred!TypeOK
<1>12. HistoryTypes'
  <2>1. IsFiniteSet(deferrals')
    BY <1>8, FS_AddElement DEF DeferredInv, HistoryTypes
  <2>2. deferrals' \subseteq Applied /\ chains' \subseteq Applied
    BY <1>1, <1>3, <1>8 DEF DeferredInv, HistoryTypes
  <2>3. \A c \in deferrals \cup chains : c.n \in Int /\ c.n <= deferred_count
          /\ c.n < deferred_count'
    BY <1>2 DEF DeferredInv, HistoryTypes, Applied
  <2>4. (\A s \in deferrals' : s.n <= deferred_count')
          /\ (\A c \in chains' : c.n <= deferred_count')
    BY <1>1, <1>2, <1>3, <1>8, <2>3
  <2>5. \A s, t \in deferrals' : s.n = t.n => s = t
    BY <1>2, <1>3, <1>8, <2>3 DEF DeferredInv, HistoryTypes
  <2> QED
    BY <2>1, <2>2, <2>4, <2>5 DEF HistoryTypes
<1>13. ListInv'
  <2>1. \A e \in Deferred!Held' : Known(e)'
    BY <1>3, <1>7, <1>8 DEF DeferredInv, ListInv, Known
  <2>2. Waits(new)'
    BY <1>1, <1>2, <1>3 DEF Waits, DeferredInv, HistoryTypes, Applied
  <2>3. \A e \in Deferred!ToSet(waiting') : Waits(e)'
    BY <1>1, <1>4, <2>2 DEF DeferredInv, ListInv, Waits
  <2>4. \A e \in Deferred!ToSet(batch)' \cup Deferred!ToSet(emitted)' :
          Decided(e)' \/ (deferred_pc' \notin {"replay", "matched"} /\ Waits(e)')
    BY <1>1, <1>7 DEF DeferredInv, ListInv, Waits, Decided, Deferred!ChainsAfter
  <2> QED
    BY <2>1, <2>3, <2>4 DEF ListInv
<1>14. SampleOrderInv'
  <2>1. Increasing(waiting')
    BY <1>3, <1>4, <1>5, <1>6, <1>10 DEF DeferredInv, SampleOrderInv, Increasing
  <2>2. Ahead(emitted', waiting') /\ Ahead(batch', waiting')
    BY <1>1, <1>3, <1>4, <1>6, <1>10 DEF DeferredInv, SampleOrderInv, Ahead
  <2> QED
    BY <1>1, <2>1, <2>2 DEF DeferredInv, SampleOrderInv, Increasing, Ahead, Deferred!ThreadOrder
<1>15. PlaceInv'
  <2>1. Cardinality(deferrals') = Cardinality(deferrals) + 1 /\ Cardinality(deferrals) \in Nat
    BY <1>8, FS_AddElement, FS_CardinalityType DEF DeferredInv, HistoryTypes
  <2>2. \A s \in deferrals' : \E e \in Deferred!Held' : e.n = s.n
    BY <1>2, <1>3, <1>7, <1>8 DEF DeferredInv, PlaceInv
  <2>3. Len(batch) \in Nat /\ Len(emitted) \in Nat
    BY LenProperties DEF DeferredInv, Deferred!TypeOK
  <2>4. Len(waiting') + Len(batch') + Len(emitted') = Cardinality(deferrals')
    BY <1>1, <1>2, <1>4, <1>5, <2>1, <2>3 DEF DeferredInv, PlaceInv
  <2> QED
    BY <1>1, <1>2, <2>2, <2>4 DEF DeferredInv, PlaceInv
<1> QED
  BY <1>11, <1>12, <1>13, <1>14, <1>15 DEF DeferredInv

\* What a chain makes of a sample it takes: the same sample, decided.
LEMMA ResolvedIs ==
  ASSUME Deferred!DeferredAssumption, NEW s \in Deferred!DeferredFoldSample,
         NEW n \in 1 .. DeferredRecords, NEW cookie \in Cookies
  PROVE  LET e == Deferred!Resolved(s, n, cookie)
         IN /\ e \in Deferred!DeferredFoldSample /\ e.n = s.n /\ e.tid = s.tid
                 /\ e.cookie = s.cookie
            /\ s.cookie = cookie => e.chain = n /\ e.cookie_to_suppress = s.cookie_to_suppress
            /\ s.cookie # cookie => e.chain = s.chain /\ e.cookie_to_suppress = NoCookie
<1>1. CASE s.cookie = cookie
  <2>1. Deferred!Resolved(s, n, cookie) = [s EXCEPT !.chain = n]
    BY <1>1 DEF Deferred!Resolved, Deferred!Merged
  <2> QED
    BY <1>1, <2>1 DEF Deferred!DeferredFoldSample, Deferred!DeferredAssumption
<1>2. CASE s.cookie # cookie
  <2>1. Deferred!Resolved(s, n, cookie) = [s EXCEPT !.cookie_to_suppress = NoCookie]
    BY <1>2 DEF Deferred!Resolved
  <2> QED
    BY <1>2, <2>1 DEF Deferred!DeferredFoldSample
<1> QED
  BY <1>1, <1>2

\* A chain takes what waits for it.
LEMMA ChainKeeps ==
  ASSUME Deferred!DeferredAssumption, DeferredInv, Deferred!CallchainDeferred
  PROVE  DeferredInv'
<1>1. PICK tid \in Deferred!Threads, cookie \in Cookies :
        /\ Deferred!Apply
        /\ batch' = [i \in DOMAIN Deferred!Matched(tid, cookie) |->
             Deferred!Resolved(Deferred!Matched(tid, cookie)[i], deferred_count', cookie)]
        /\ waiting' = Deferred!Unmatched(tid, cookie)
        /\ chains' = chains \cup {[n |-> deferred_count', tid |-> tid, cookie |-> cookie]}
        /\ deferred_pc' = "matched"
        /\ UNCHANGED <<deferrals, emitted>>
  BY DEF Deferred!CallchainDeferred
<1>2. /\ deferred_pc = "replay" /\ deferred_count \in Nat /\ DeferredRecords \in Nat
           /\ deferred_count < DeferredRecords /\ deferred_count' = deferred_count + 1
      /\ deferred_count' \in 1 .. DeferredRecords
  BY <1>1 DEF Deferred!Apply, DeferredInv, Deferred!TypeOK, Deferred!DeferredAssumption
<1>3. PICK c0 : c0 = [n |-> deferred_count', tid |-> tid, cookie |-> cookie]
  OBVIOUS
<1>4. /\ c0 \in Applied /\ c0.n = deferred_count' /\ c0.tid = tid /\ c0.cookie = cookie
      /\ chains' = chains \cup {c0}
  BY <1>1, <1>2, <1>3 DEF Applied
<1>5. batch = <<>> /\ Deferred!ToSet(batch) = {} /\ Len(batch) = 0
  BY <1>2 DEF DeferredInv, PlaceInv, Deferred!ToSet
<1> DEFINE I == Deferred!TakenAt(tid, cookie)
           J == DOMAIN waiting \ Deferred!TakenAt(tid, cookie)
           taken == Deferred!Matched(tid, cookie)
<1>6. /\ waiting \in Seq(Deferred!DeferredFoldSample) /\ Len(waiting) \in Nat
      /\ DOMAIN waiting = 1 .. Len(waiting)
      /\ \A i \in DOMAIN waiting : waiting[i] \in Deferred!DeferredFoldSample
  BY LenProperties, ElementOfSeq DEF DeferredInv, Deferred!TypeOK
<1>7. /\ I \subseteq DOMAIN waiting /\ J \subseteq DOMAIN waiting
      /\ I \cup J = DOMAIN waiting
      /\ \A i \in I : waiting[i].tid = tid
      /\ \A i \in J : waiting[i].tid # tid
  BY DEF Deferred!TakenAt, Deferred!Taken
<1>8. Cardinality(I) + Cardinality(J) = Len(waiting)
  <2>1. IsFiniteSet(DOMAIN waiting) /\ Cardinality(DOMAIN waiting) = Len(waiting)
    BY <1>6, FS_Interval
  <2>2. IsFiniteSet(I) /\ IsFiniteSet(J) /\ I \cap J = {}
    BY <1>7, <2>1, FS_Subset
  <2>3. Cardinality(I \cup J) = Cardinality(I) + Cardinality(J) - Cardinality(I \cap J)
    BY <2>2, FS_Union
  <2>4. Cardinality(I \cap J) = 0 /\ Cardinality(I) \in Nat /\ Cardinality(J) \in Nat
    BY <2>2, FS_EmptySet, FS_CardinalityType
  <2> QED
    BY <1>7, <2>1, <2>3, <2>4
<1>9. /\ taken \in Seq(Deferred!DeferredFoldSample) /\ Len(taken) = Cardinality(I)
           /\ Len(taken) \in Nat
      /\ \A k \in DOMAIN taken : Nth(I, k) \in I /\ taken[k] = waiting[Nth(I, k)]
      /\ \A k, l \in DOMAIN taken : k < l => Nth(I, k) < Nth(I, l)
      /\ \A i \in I : \E k \in DOMAIN taken : Nth(I, k) = i
  BY <1>6, <1>7, AtIs DEF Deferred!Matched
<1>10. /\ waiting' \in Seq(Deferred!DeferredFoldSample) /\ Len(waiting') = Cardinality(J)
       /\ \A k \in DOMAIN waiting' :
            Nth(J, k) \in J /\ waiting'[k] = waiting[Nth(J, k)]
       /\ \A k, l \in DOMAIN waiting' : k < l => Nth(J, k) < Nth(J, l)
       /\ \A i \in J : \E k \in DOMAIN waiting' : Nth(J, k) = i
       /\ Len(waiting') \in Nat
  <2>1. waiting' = Deferred!At(waiting, J)
    BY <1>1 DEF Deferred!Unmatched
  <2> HIDE DEF J
  <2> QED
    BY <1>6, <1>7, <2>1, AtIs
<1>11. /\ DOMAIN batch' = DOMAIN taken
       /\ \A k \in DOMAIN batch' : batch'[k] =
            Deferred!Resolved(taken[k], deferred_count', cookie)
       /\ batch' \in Seq(Deferred!DeferredFoldSample) /\ Len(batch') = Cardinality(I)
  <2>1. DOMAIN taken = 1 .. Len(taken)
    BY <1>9, LenProperties
  <2>2. \A k \in DOMAIN taken : Deferred!Resolved(taken[k], deferred_count', cookie) \in
          Deferred!DeferredFoldSample
    BY <1>2, <1>6, <1>7, <1>9, ResolvedIs
  <2>3. batch' = [k \in 1 .. Len(taken) |->
          Deferred!Resolved(taken[k], deferred_count', cookie)]
    BY <1>1, <2>1
  <2>4. batch' \in [1 .. Len(taken) -> Deferred!DeferredFoldSample]
    BY <2>1, <2>2, <2>3
  <2>5. batch' \in Seq(Deferred!DeferredFoldSample) /\ Len(batch') = Len(taken)
    BY <1>9, <2>4, SeqDef, LenProperties
  <2> QED
    BY <1>9, <2>1, <2>3, <2>5
\* An entry of the batch is one that waited, with this chain's decision.
<1>12. ASSUME NEW k \in DOMAIN batch'
       PROVE  LET d == waiting[Nth(I, k)]
                  e == batch'[k]
              IN /\ Nth(I, k) \in I /\ Nth(I, k) \in DOMAIN waiting
                 /\ d \in Deferred!ToSet(waiting) /\ d \in Deferred!DeferredFoldSample
                 /\ e.n = d.n /\ e.tid = d.tid /\ e.tid = tid /\ e.cookie = d.cookie
                 /\ d.cookie = cookie => e.chain = deferred_count'
                      /\ e.cookie_to_suppress = d.cookie_to_suppress
                 /\ d.cookie # cookie => e.chain = d.chain /\ e.cookie_to_suppress = NoCookie
  <2>1. taken[k] = waiting[Nth(I, k)] /\ Nth(I, k) \in I
          /\ batch'[k] = Deferred!Resolved(taken[k], deferred_count', cookie)
    BY <1>9, <1>11
  <2>2. Nth(I, k) \in DOMAIN waiting /\ waiting[Nth(I, k)].tid = tid
        /\ waiting[Nth(I, k)] \in Deferred!DeferredFoldSample
    BY <1>6, <1>7, <2>1
  <2> QED
    BY <1>2, <2>1, <2>2, ResolvedIs DEF Deferred!ToSet
\* What goes on waiting is of other threads.
<1>13. ASSUME NEW k \in DOMAIN waiting'
       PROVE  /\ Nth(J, k) \in J /\ Nth(J, k) \in DOMAIN waiting
              /\ waiting'[k] = waiting[Nth(J, k)] /\ waiting'[k].tid # tid
              /\ waiting'[k] \in Deferred!ToSet(waiting)
  BY <1>7, <1>10 DEF Deferred!ToSet
<1>14. \A c \in chains : c.n < deferred_count' /\ c.n \in Int
  BY <1>2 DEF DeferredInv, HistoryTypes, Applied
<1>15. \A d \in Deferred!ToSet(waiting) : d.n \in Int /\ d.n < deferred_count' /\ Waits(d)
         /\ Known(d)
  BY <1>2 DEF DeferredInv, ListInv, HistoryTypes, Known, Applied, Deferred!Held
<1>16. Deferred!TypeOK'
  BY <1>1, <1>2, <1>10, <1>11 DEF DeferredInv, Deferred!TypeOK
<1>17. HistoryTypes'
  <2>1. chains' \subseteq Applied /\ \A c \in chains' : c.n <= deferred_count'
    BY <1>2, <1>4, <1>14 DEF DeferredInv, HistoryTypes
  <2>2. \A s \in deferrals : s.n <= deferred_count'
    BY <1>2 DEF DeferredInv, HistoryTypes, Applied
  <2> QED
    BY <1>1, <2>1, <2>2 DEF DeferredInv, HistoryTypes
<1> HIDE DEF I, J, taken
<1>18. ASSUME NEW e \in Deferred!ToSet(batch')
       PROVE  \E k \in DOMAIN batch' : e = batch'[k]
  BY DEF Deferred!ToSet
<1>19. ListInv'
  <2>1. ASSUME NEW e \in Deferred!ToSet(batch') PROVE Known(e)' /\ Decided(e)'
    <3>1. PICK k \in DOMAIN batch' : e = batch'[k]
      BY <1>18
    <3>2. PICK d \in Deferred!ToSet(waiting) :
            /\ d \in Deferred!DeferredFoldSample
            /\ e.n = d.n /\ e.tid = d.tid /\ e.tid = tid /\ e.cookie = d.cookie
            /\ d.cookie = cookie => e.chain = deferred_count'
                 /\ e.cookie_to_suppress = d.cookie_to_suppress
            /\ d.cookie # cookie => e.chain = d.chain /\ e.cookie_to_suppress = NoCookie
      BY <1>12, <3>1
    <3>3. d.n \in Int /\ d.n < deferred_count' /\ Waits(d) /\ Known(d)
      BY <1>15
    <3>4. Known(e)'
      BY <1>1, <3>2, <3>3 DEF Known
    <3>5. \A c \in chains : c.tid = tid => c.n < e.n
      BY <3>2, <3>3 DEF Waits
    <3>6. Deferred!ChainsAfter(e)' = {c0}
      <4>1. c0 \in chains' /\ c0.tid = e.tid /\ c0.n > e.n
        BY <1>4, <3>2, <3>3
      <4>2. \A c \in chains' : c.tid = e.tid /\ c.n > e.n => c = c0
        BY <1>4, <1>14, <3>2, <3>3, <3>5
      <4> QED
        BY <4>1, <4>2 DEF Deferred!ChainsAfter
    <3>7. e.chain = (IF e.cookie = cookie THEN c0.n ELSE 0)
          /\ e.cookie_to_suppress = (IF e.cookie = cookie THEN e.cookie ELSE NoCookie)
      BY <1>4, <3>2, <3>3 DEF Waits
    <3>8. c0.n <= c0.n
      BY <1>2, <1>4
    <3> QED
      BY <1>4, <3>4, <3>6, <3>7, <3>8 DEF Decided
  <2>2. ASSUME NEW e \in Deferred!ToSet(emitted) PROVE Known(e)' /\ Decided(e)'
    <3>1. Known(e) /\ Decided(e)
      BY <1>2 DEF DeferredInv, ListInv, Deferred!Held
    <3>2. PICK c \in Deferred!ChainsAfter(e) :
            /\ \A d \in Deferred!ChainsAfter(e) : c.n <= d.n
            /\ \/ c.cookie = e.cookie /\ e.chain = c.n /\ e.cookie_to_suppress = e.cookie
               \/ c.cookie # e.cookie /\ e.chain = 0 /\ e.cookie_to_suppress = NoCookie
      BY <3>1 DEF Decided
    <3>3. c \in Deferred!ChainsAfter(e)'
      BY <1>4, <3>2 DEF Deferred!ChainsAfter
    <3>4. c.n <= c0.n
      BY <1>4, <1>14, <1>2, <3>2 DEF Deferred!ChainsAfter
    <3>5. \A d \in Deferred!ChainsAfter(e)' : c.n <= d.n
      BY <1>4, <3>2, <3>4 DEF Deferred!ChainsAfter
    <3>6. Decided(e)'
      BY <3>2, <3>3, <3>5 DEF Decided
    <3> QED
      BY <1>1, <3>1, <3>6 DEF Known
  <2>3. ASSUME NEW e \in Deferred!ToSet(waiting') PROVE Known(e)' /\ Waits(e)'
    <3>1. PICK k \in DOMAIN waiting' : e = waiting'[k]
      BY DEF Deferred!ToSet
    <3>2. e \in Deferred!ToSet(waiting) /\ e.tid # tid
      BY <1>13, <3>1
    <3>3. Known(e) /\ Waits(e)
      BY <1>15, <3>2
    <3> QED
      BY <1>1, <1>4, <3>2, <3>3 DEF Known, Waits
  <2> QED
    BY <1>1, <2>1, <2>2, <2>3 DEF ListInv, Deferred!Held
<1>20. SampleOrderInv'
  <2>1. \A i, j \in DOMAIN waiting : i < j => waiting[i].n < waiting[j].n
    BY DEF DeferredInv, SampleOrderInv, Increasing
  <2>2. Increasing(batch')
    <3> SUFFICES ASSUME NEW k \in DOMAIN batch', NEW l \in DOMAIN batch', k < l
                 PROVE  batch'[k].n < batch'[l].n
      BY DEF Increasing
    <3>1. Nth(I, k) < Nth(I, l)
      BY <1>9, <1>11
    <3> QED
      BY <1>12, <2>1, <3>1
  <2>3. Increasing(waiting')
    <3> SUFFICES ASSUME NEW k \in DOMAIN waiting', NEW l \in DOMAIN waiting', k < l
                 PROVE  waiting'[k].n < waiting'[l].n
      BY DEF Increasing
    <3>1. Nth(J, k) < Nth(J, l)
      BY <1>10
    <3> QED
      BY <1>13, <2>1, <3>1
  <2>4. \A i \in DOMAIN emitted, j \in DOMAIN waiting :
          emitted[i].tid = waiting[j].tid => emitted[i].n < waiting[j].n
    BY DEF DeferredInv, SampleOrderInv, Ahead
  <2>5. Ahead(emitted', batch') /\ Ahead(emitted', waiting')
    BY <1>1, <1>12, <1>13, <2>4 DEF Ahead
  <2>6. Ahead(batch', waiting')
    BY <1>12, <1>13 DEF Ahead
  <2>7. Deferred!ThreadOrder'
    BY <1>1 DEF DeferredInv, SampleOrderInv, Deferred!ThreadOrder
  <2> QED
    BY <2>2, <2>3, <2>5, <2>6, <2>7 DEF SampleOrderInv
<1>21. PlaceInv'
  <2>1. ASSUME NEW e \in Deferred!ToSet(waiting)
        PROVE  \E x \in Deferred!Held' : x.n = e.n
    <3>1. PICK i \in DOMAIN waiting : e = waiting[i]
      BY DEF Deferred!ToSet
    <3>2. CASE i \in I
      <4>1. PICK k \in DOMAIN batch' : Nth(I, k) = i
        BY <1>9, <1>11, <3>2
      <4>2. batch'[k].n = e.n /\ batch'[k] \in Deferred!ToSet(batch')
        BY <1>12, <3>1, <4>1 DEF Deferred!ToSet
      <4> QED
        BY <4>2 DEF Deferred!Held
    <3>3. CASE i \in J
      <4>1. PICK k \in DOMAIN waiting' : Nth(J, k) = i
        BY <1>10, <3>3
      <4>2. waiting'[k].n = e.n /\ waiting'[k] \in Deferred!ToSet(waiting')
        BY <1>13, <3>1, <4>1 DEF Deferred!ToSet
      <4> QED
        BY <4>2 DEF Deferred!Held
    <3> QED
      BY <1>7, <3>2, <3>3
  <2>2. \A e \in Deferred!ToSet(emitted) : e \in Deferred!Held'
    BY <1>1 DEF Deferred!Held
  <2>3. \A s \in deferrals' : \E e \in Deferred!Held' : e.n = s.n
    <3> SUFFICES ASSUME NEW s \in deferrals PROVE \E e \in Deferred!Held' : e.n = s.n
      BY <1>1
    <3>1. PICK e \in Deferred!Held : e.n = s.n
      BY <1>2 DEF DeferredInv, PlaceInv
    <3>2. e \in Deferred!ToSet(waiting) \/ e \in Deferred!ToSet(emitted)
      BY <1>5 DEF Deferred!Held
    <3> QED
      BY <2>1, <2>2, <3>1, <3>2
  <2>4. Len(waiting') + Len(batch') + Len(emitted') = Cardinality(deferrals')
    <3>1. Len(waiting) + Len(batch) + Len(emitted) = Cardinality(deferrals)
      BY <1>2 DEF DeferredInv, PlaceInv
    <3>2. Len(emitted) \in Nat /\ Cardinality(I) \in Nat /\ Cardinality(J) \in Nat
      BY <1>9, <1>10, LenProperties DEF DeferredInv, Deferred!TypeOK
    <3>3. /\ Len(waiting') = Cardinality(J) /\ Len(batch') = Cardinality(I)
          /\ emitted' = emitted /\ deferrals' = deferrals
      BY <1>1, <1>10, <1>11
    <3>4. Len(waiting) + Len(emitted) = Cardinality(deferrals)
      BY <1>5, <1>6, <3>1, <3>2
    <3>5. Cardinality(J) + Cardinality(I) + Len(emitted) = Cardinality(deferrals)
      BY <1>8, <3>2, <3>4
    <3> QED
      BY <3>3, <3>5
  <2> QED
    BY <1>1, <2>3, <2>4 DEF PlaceInv
<1> QED
  BY <1>16, <1>17, <1>19, <1>20, <1>21 DEF DeferredInv

\* One of the batch is delivered.
LEMMA DeliverKeeps ==
  ASSUME Deferred!DeferredAssumption, DeferredInv, Deferred!Deliver
  PROVE  DeferredInv'
<1>1. /\ deferred_pc \in {"matched", "final"} /\ batch # <<>>
      /\ emitted' = Append(emitted, Head(batch)) /\ batch' = Tail(batch)
      /\ UNCHANGED <<waiting, deferred_pc, deferred_count, deferrals, chains>>
  BY DEF Deferred!Deliver, Deferred!histVars
<1>2. PICK e : e = Head(batch)
  OBVIOUS
<1>3. /\ batch' \in Seq(Deferred!DeferredFoldSample) /\ Len(batch') = Len(batch) - 1
      /\ e \in Deferred!DeferredFoldSample /\ 1 \in DOMAIN batch /\ e = batch[1]
      /\ DOMAIN batch' = 1 .. Len(batch) - 1
      /\ \A i \in DOMAIN batch' : i + 1 \in DOMAIN batch /\ batch'[i] = batch[i + 1]
      /\ Deferred!ToSet(batch) = Deferred!ToSet(batch') \cup {e}
  BY <1>1, <1>2, Shortened DEF DeferredInv, Deferred!TypeOK
<1>4. /\ emitted' \in Seq(Deferred!DeferredFoldSample) /\ Len(emitted') = Len(emitted) + 1
      /\ DOMAIN emitted' = 1 .. Len(emitted) + 1
      /\ \A i \in DOMAIN emitted : i # Len(emitted) + 1 /\ emitted'[i] = emitted[i]
      /\ emitted'[Len(emitted) + 1] = e
      /\ Deferred!ToSet(emitted') = Deferred!ToSet(emitted) \cup {e}
  BY <1>1, <1>2, <1>3, Appended DEF DeferredInv, Deferred!TypeOK
<1>5. /\ Len(emitted) \in Nat /\ DOMAIN emitted = 1 .. Len(emitted)
      /\ Len(batch) \in Nat /\ DOMAIN batch = 1 .. Len(batch) /\ Len(waiting) \in Nat
  BY LenProperties DEF DeferredInv, Deferred!TypeOK
<1>6. \A i \in DOMAIN emitted' : i \in DOMAIN emitted \/ i = Len(emitted) + 1
  BY <1>4, <1>5
<1>7. /\ \A i \in DOMAIN emitted : emitted[i] \in Deferred!DeferredFoldSample
      /\ \A i \in DOMAIN batch : batch[i] \in Deferred!DeferredFoldSample
  BY Typed DEF DeferredInv
<1>8. Deferred!TypeOK' /\ HistoryTypes'
  BY <1>1, <1>3, <1>4 DEF DeferredInv, Deferred!TypeOK, HistoryTypes
<1>9. Deferred!ToSet(batch') \cup Deferred!ToSet(emitted') =
        Deferred!ToSet(batch) \cup Deferred!ToSet(emitted) /\ Deferred!Held' = Deferred!Held
  BY <1>1, <1>3, <1>4 DEF Deferred!Held
<1>10. ListInv'
  BY <1>1, <1>9 DEF DeferredInv, ListInv, Known, Waits, Decided, Deferred!ChainsAfter
<1>11. SampleOrderInv'
  <2>1. \A i, j \in DOMAIN batch : i < j => batch[i].n < batch[j].n
    BY DEF DeferredInv, SampleOrderInv, Increasing
  <2>2. \A i \in DOMAIN emitted, j \in DOMAIN batch : emitted[i].tid = batch[j].tid =>
          emitted[i].n < batch[j].n
    BY DEF DeferredInv, SampleOrderInv, Ahead
  <2>3. \A i, j \in DOMAIN emitted : i < j
          /\ emitted[i].tid = emitted[j].tid => emitted[i].n < emitted[j].n
    BY DEF DeferredInv, SampleOrderInv, Deferred!ThreadOrder
  <2>4. Increasing(batch')
    <3> SUFFICES ASSUME NEW i \in DOMAIN batch', NEW j \in DOMAIN batch', i < j
                 PROVE  batch'[i].n < batch'[j].n
      BY DEF Increasing
    <3>1. i + 1 \in DOMAIN batch /\ j + 1 \in DOMAIN batch /\ i + 1 < j + 1
      BY <1>3, <1>5
    <3> QED
      BY <1>3, <2>1, <3>1
  <2>5. \A j \in DOMAIN batch' : e.n < batch'[j].n
    <3> SUFFICES ASSUME NEW j \in DOMAIN batch' PROVE e.n < batch'[j].n
      OBVIOUS
    <3>1. j + 1 \in DOMAIN batch /\ 1 < j + 1
      BY <1>3, <1>5
    <3> QED
      BY <1>3, <2>1, <3>1
  <2>6. Ahead(emitted', batch')
    <3> SUFFICES ASSUME NEW i \in DOMAIN emitted',
                        NEW j \in DOMAIN batch', emitted'[i].tid = batch'[j].tid
                 PROVE  emitted'[i].n < batch'[j].n
      BY DEF Ahead
    <3>1. CASE i \in DOMAIN emitted
      BY <1>3, <1>4, <2>2, <3>1
    <3>2. CASE i = Len(emitted) + 1
      BY <1>4, <2>5, <3>2
    <3> QED
      BY <1>6, <3>1, <3>2
  <2>7. Deferred!ThreadOrder'
    <3> SUFFICES ASSUME NEW i \in DOMAIN emitted',
                        NEW j \in DOMAIN emitted', i < j, emitted'[i].tid = emitted'[j].tid
                 PROVE  emitted'[i].n < emitted'[j].n
      BY DEF Deferred!ThreadOrder
    <3>1. CASE i \in DOMAIN emitted /\ j \in DOMAIN emitted
      BY <1>4, <2>3, <3>1
    <3>2. CASE i \in DOMAIN emitted /\ j = Len(emitted) + 1
      BY <1>3, <1>4, <2>2, <3>2
    <3>3. i # Len(emitted) + 1
      BY <1>4, <1>5
    <3> QED
      BY <1>6, <3>1, <3>2, <3>3
  <2>8. \A i \in DOMAIN batch, j \in DOMAIN waiting :
          batch[i].tid = waiting[j].tid => batch[i].n < waiting[j].n
    BY DEF DeferredInv, SampleOrderInv, Ahead
  <2>9. Ahead(batch', waiting')
    BY <1>1, <1>3, <2>8 DEF Ahead
  <2>10. Ahead(emitted', waiting')
    <3> SUFFICES ASSUME NEW i \in DOMAIN emitted', NEW j \in DOMAIN waiting,
                        emitted'[i].tid = waiting[j].tid
                 PROVE  emitted'[i].n < waiting[j].n
      BY <1>1 DEF Ahead
    <3>1. CASE i \in DOMAIN emitted
      BY <1>4, <3>1 DEF DeferredInv, SampleOrderInv, Ahead
    <3>2. CASE i = Len(emitted) + 1
      BY <1>3, <1>4, <2>8, <3>2
    <3> QED
      BY <1>6, <3>1, <3>2
  <2>11. Increasing(waiting')
    BY <1>1 DEF DeferredInv, SampleOrderInv, Increasing
  <2> QED
    BY <2>4, <2>6, <2>7, <2>9, <2>10, <2>11 DEF SampleOrderInv
<1>12. PlaceInv'
  <2>1. Len(waiting') + Len(batch') + Len(emitted') = Len(waiting) + Len(batch) + Len(emitted)
    BY <1>1, <1>3, <1>4, <1>5
  <2> QED
    BY <1>1, <1>9, <2>1 DEF DeferredInv, PlaceInv
<1> QED
  BY <1>8, <1>10, <1>11, <1>12 DEF DeferredInv

\* The data ends: what waits is delivered as it is.
LEMMA EndKeeps ==
  ASSUME Deferred!DeferredAssumption, DeferredInv, Deferred!EndOfData
  PROVE  DeferredInv'
<1>1. /\ deferred_pc = "replay" /\ deferred_pc' = "final" /\ batch' = waiting /\ waiting' = <<>>
      /\ UNCHANGED <<deferred_count, deferrals, chains, emitted>>
  BY DEF Deferred!EndOfData, Deferred!Flushed, Deferred!histVars
<1>2. batch = <<>> /\ Deferred!ToSet(batch) = {} /\ Deferred!ToSet(waiting') = {}
        /\ Len(waiting') = 0
      /\ Len(batch) = 0
  BY <1>1 DEF DeferredInv, PlaceInv, Deferred!ToSet
<1>3. Deferred!Held' = Deferred!Held
  BY <1>1, <1>2 DEF Deferred!Held
<1>4. Deferred!TypeOK' /\ HistoryTypes'
  BY <1>1 DEF DeferredInv, Deferred!TypeOK, HistoryTypes
<1>5. ListInv'
  <2>1. \A e \in Deferred!Held' : Known(e)'
    BY <1>1, <1>3 DEF DeferredInv, ListInv, Known
  <2>2. \A e \in Deferred!ToSet(batch') : Waits(e)'
    BY <1>1 DEF DeferredInv, ListInv, Waits
  <2>3. \A e \in Deferred!ToSet(emitted') : Decided(e)'
    BY <1>1 DEF DeferredInv, ListInv, Decided, Deferred!ChainsAfter
  <2> QED
    BY <1>1, <1>2, <2>1, <2>2, <2>3 DEF ListInv
<1>6. SampleOrderInv'
  BY <1>1 DEF DeferredInv, SampleOrderInv, Increasing, Ahead, Deferred!ThreadOrder
<1>7. PlaceInv'
  <2>1. Len(waiting) \in Nat /\ Len(emitted) \in Nat
    BY LenProperties DEF DeferredInv, Deferred!TypeOK
  <2>2. Len(waiting) + Len(batch) + Len(emitted) = Cardinality(deferrals)
    BY <1>1 DEF DeferredInv, PlaceInv
  <2>3. Len(waiting') + Len(batch') + Len(emitted') = Cardinality(deferrals')
    BY <1>1, <1>2, <2>1, <2>2
  <2> QED
    BY <1>1, <1>3, <2>3 DEF DeferredInv, PlaceInv
<1> QED
  BY <1>4, <1>5, <1>6, <1>7 DEF DeferredInv

\* A payload that cannot be merged, a consumer that fails and the end of a batch.
LEMMA OthersKeep ==
  ASSUME Deferred!DeferredAssumption, DeferredInv,
         Deferred!MergeFails \/ Deferred!DeliverFails \/ Deferred!BatchDone
  PROVE  DeferredInv'
<1>0. Deferred!ToSet(<<>>) = {}
  BY DEF Deferred!ToSet
<1>1. CASE Deferred!MergeFails
  <2>1. /\ deferred_pc = "replay" /\ deferred_count < DeferredRecords
             /\ deferred_count' = deferred_count + 1 /\ waiting' = <<>>
                  /\ deferred_pc' = "failed"
        /\ UNCHANGED <<batch, deferrals, chains, emitted>>
    BY <1>1 DEF Deferred!MergeFails, Deferred!Apply, Deferred!histVars
  <2>2. deferred_count \in Nat /\ DeferredRecords \in Nat
          /\ deferred_count' \in 0 .. DeferredRecords
    BY <2>1 DEF DeferredInv, Deferred!TypeOK, Deferred!DeferredAssumption
  <2>3. Deferred!TypeOK'
    BY <2>1, <2>2 DEF DeferredInv, Deferred!TypeOK
  <2>4. HistoryTypes'
    BY <2>1, <2>2 DEF DeferredInv, HistoryTypes, Applied
  <2>5. ListInv'
    BY <1>0, <2>1 DEF DeferredInv, ListInv, Deferred!Held, Known, Waits, Decided, Deferred!ChainsAfter
  <2>6. SampleOrderInv' /\ PlaceInv'
    BY <2>1 DEF DeferredInv, SampleOrderInv, PlaceInv, Increasing, Ahead, Deferred!ThreadOrder
  <2> QED
    BY <2>3, <2>4, <2>5, <2>6 DEF DeferredInv
<1>2. CASE Deferred!DeliverFails
  <2>1. /\ deferred_pc \in {"matched", "final"} /\ batch' = <<>> /\ deferred_pc' = "failed"
        /\ UNCHANGED <<waiting, deferred_count, deferrals, chains, emitted>>
    BY <1>2 DEF Deferred!DeliverFails, Deferred!histVars
  <2>2. Deferred!TypeOK' /\ HistoryTypes'
    BY <2>1 DEF DeferredInv, Deferred!TypeOK, HistoryTypes
  <2>3. ListInv'
    BY <1>0, <2>1 DEF DeferredInv, ListInv, Deferred!Held, Known, Waits, Decided, Deferred!ChainsAfter
  <2>4. SampleOrderInv' /\ PlaceInv'
    BY <2>1 DEF DeferredInv, SampleOrderInv, PlaceInv, Increasing, Ahead, Deferred!ThreadOrder
  <2> QED
    BY <2>2, <2>3, <2>4 DEF DeferredInv
<1>3. CASE Deferred!BatchDone
  <2>1. /\ deferred_pc \in {"matched", "final"} /\ batch = <<>>
        /\ deferred_pc' = IF deferred_pc = "matched" THEN "replay" ELSE "done"
        /\ UNCHANGED <<waiting, batch, deferred_count, deferrals, chains, emitted>>
    BY <1>3 DEF Deferred!BatchDone, Deferred!histVars
  <2>2. Deferred!TypeOK' /\ HistoryTypes'
    BY <2>1 DEF DeferredInv, Deferred!TypeOK, HistoryTypes
  <2>3. ListInv'
    BY <2>1 DEF DeferredInv, ListInv, Deferred!Held, Known, Waits, Decided, Deferred!ChainsAfter
  <2>4. SampleOrderInv'
    BY <2>1 DEF DeferredInv, SampleOrderInv, Increasing, Ahead, Deferred!ThreadOrder
  <2>5. PlaceInv'
    BY <2>1 DEF DeferredInv, PlaceInv, Deferred!Held
  <2> QED
    BY <2>2, <2>3, <2>4, <2>5 DEF DeferredInv
<1> QED
  BY <1>1, <1>2, <1>3

\* Every step of the replay and the consumer.
LEMMA DeferredNext ==
  ASSUME Deferred!DeferredAssumption, DeferredInv, [Deferred!Next]_(Deferred!vars)
  PROVE  DeferredInv'
<1>1. CASE Deferred!Ended \/ UNCHANGED Deferred!vars
  <2>1. UNCHANGED <<waiting, batch, deferred_pc, deferred_count, deferrals, chains, emitted>>
    BY <1>1 DEF Deferred!Ended, Deferred!vars, Deferred!histVars
  <2>2. Deferred!TypeOK' /\ HistoryTypes'
    BY <2>1 DEF DeferredInv, Deferred!TypeOK, HistoryTypes
  <2>3. ListInv'
    BY <2>1 DEF DeferredInv, ListInv, Deferred!Held, Known, Waits, Decided, Deferred!ChainsAfter
  <2>4. SampleOrderInv' /\ PlaceInv'
    BY <2>1 DEF DeferredInv, SampleOrderInv, PlaceInv, Increasing, Ahead, Deferred!ThreadOrder, Deferred!Held
  <2> QED
    BY <2>2, <2>3, <2>4 DEF DeferredInv
<1> QED
  BY <1>1, DeferKeeps, ChainKeeps, DeliverKeeps, EndKeeps, OthersKeep DEF Deferred!Next

\* Until the replay fails, every deferred sample is in exactly one place, once, and
\* in the end delivered; the first chain record of its thread decides it, whatever
\* other threads do in between; the samples of a thread keep their order, and none
\* waits behind its chain (SampleSink::write_deferred_callchain, flush).
THEOREM DeferralIsExact == Deferred!Spec => []DeferredExact
<1>1. Deferred!Init => DeferredInv
  BY DeferredConstants, DeferredInit
<1>2. DeferredInv /\ [Deferred!Next]_(Deferred!vars) => DeferredInv'
  BY DeferredConstants, DeferredNext
<1>3. DeferredInv => DeferredExact
  BY InvIsExact DEF DeferredExact
<1> QED
  BY <1>1, <1>2, <1>3, PTL DEF Deferred!Spec

-----------------------------------------------------------------------------
(* The fold's passes.                                                        *)

\* A set of numbers that is not empty has a least one.
LEMMA LeastNumber ==
  ASSUME NEW S \in SUBSET Nat, S # {}
  PROVE  \E n \in S : \A m \in S : n <= m
<1>1. PICK n \in S : \A m \in S : ~ (<<m, n>> \in OpToRel(<, Nat))
  BY NatLessThanWellFounded, WFMin, Zenon
<1>2. \A m \in S : ~ (m < n)
  BY <1>1, Zenon DEF OpToRel
<1> QED
  BY <1>2

\* The meanings of a recording's beginnings exist.
LEMMA MeaningsExist ==
  ASSUME NEW N \in Nat, NEW records
  PROVE  \E m : m = [i \in 0 .. N |-> IF i =
           0 THEN Passes!Beginning ELSE Passes!After(m[i - 1], records[i])]
<1> DEFINE P(n) == \E m : m = [i \in 0 .. n |-> IF i =
             0 THEN Passes!Beginning ELSE Passes!After(m[i - 1], records[i])]
           Bad == {n \in Nat : ~ P(n)}
<1>1. P(0)
  <2>1. [i \in 0 .. 0 |-> Passes!Beginning]
          = [i \in 0 .. 0 |-> IF i =
            0 THEN Passes!Beginning ELSE Passes!After([j \in 0 .. 0 |->
              Passes!Beginning][i - 1], records[i])]
    OBVIOUS
  <2> QED
    BY <2>1
<1>2. ASSUME NEW n \in Nat, P(n)
      PROVE  P(n + 1)
  <2>1. PICK m : m = [i \in 0 .. n |-> IF i =
          0 THEN Passes!Beginning ELSE Passes!After(m[i - 1], records[i])]
    BY <1>2
  <2> DEFINE g == [i \in 0 .. n + 1 |-> IF i =
               n + 1 THEN Passes!After(m[n], records[n + 1]) ELSE m[i]]
  <2>2. \A i \in 0 .. n : g[i] = m[i]
    OBVIOUS
  <2>3. ASSUME NEW i \in 0 .. n + 1
        PROVE  g[i] = IF i = 0 THEN Passes!Beginning ELSE Passes!After(g[i - 1], records[i])
    <3>1. CASE i = 0
      BY <2>1, <2>2, <3>1
    <3>2. CASE i = n + 1
      <4>1. i - 1 = n /\ n \in 0 .. n /\ i # 0
        BY <3>2
      <4>2. g[i] = Passes!After(m[n], records[n + 1])
        BY <3>2
      <4> QED
        BY <2>2, <3>2, <4>1, <4>2
    <3>3. CASE i \in 1 .. n
      <4>1. i - 1 \in 0 .. n /\ i \in 0 .. n /\ i # 0
        BY <3>3
      <4>2. m[i] = Passes!After(m[i - 1], records[i])
        BY <2>1, <4>1
      <4> QED
        BY <2>2, <4>1, <4>2
    <3> QED
      BY <3>1, <3>2, <3>3
  <2>4. g = [i \in 0 .. n + 1 |-> IF i =
          0 THEN Passes!Beginning ELSE Passes!After(g[i - 1], records[i])]
    BY <2>3
  <2> QED
    BY <2>4
<1> HIDE DEF P
<1>3. Bad = {}
  <2> SUFFICES ASSUME Bad # {} PROVE FALSE
    OBVIOUS
  <2>1. PICK n \in Bad : \A k \in Bad : n <= k
    BY LeastNumber
  <2>2. n # 0
    BY <1>1, <2>1
  <2>3. n - 1 \in Nat /\ n - 1 \notin Bad
    BY <2>1, <2>2
  <2>4. P((n - 1) + 1)
    BY <1>2, <2>3
  <2>5. (n - 1) + 1 = n
    BY <2>1
  <2> QED
    BY <2>1, <2>4, <2>5
<1>4. P(N)
  BY <1>3
<1> QED
  BY <1>4 DEF P

\* What they are.
LEMMA MeaningsAre ==
  ASSUME NEW records, Len(records) \in Nat
  PROVE  /\ DOMAIN Passes!Meanings(records) = 0 .. Len(records)
         /\ Passes!Meanings(records)[0] = Passes!Beginning
         /\ \A i \in 1 .. Len(records) :
              Passes!Meanings(records)[i] =
                Passes!After(Passes!Meanings(records)[i - 1], records[i])
<1>1. Passes!Meanings(records) =
        [i \in 0 .. Len(records) |->
           IF i = 0
             THEN Passes!Beginning ELSE Passes!After(Passes!Meanings(records)[i - 1], records[i])]
  BY MeaningsExist DEF Passes!Meanings
<1> QED
  BY <1>1

-----------------------------------------------------------------------------
(* The inductive invariant.                                                  *)

Dso == [build_id : Passes!Ids, symbol_build_id : Passes!Ids \cup {Passes!NotLoaded}]
States ==
  [header_build_ids : [Paths -> Passes!Ids], dsos : [Paths -> Dso], sources : Seq(Paths \X Passes!Ids),
   maps : [Regions -> [path : Paths \cup {"none"}, source : Nat]], comm : Passes!Comms]

\* A mapping's source is in the table, with its path.
Sourced(s) ==
  \A r \in Regions : s.maps[r].source > 0 =>
    /\ s.maps[r].source \in DOMAIN s.sources
    /\ s.sources[s.maps[r].source][1] = s.maps[r].path

\* One table of sources continues another.
Continues(t, s) ==
  \A i \in DOMAIN s.sources : i \in DOMAIN t.sources /\ t.sources[i] = s.sources[i]

\* A frame that is kept is what its object was loaded with.
Faithful(s) ==
  \A i \in DOMAIN fold_cache :
    /\ i \in DOMAIN s.sources
    /\ fold_cache[i] = Passes!Resolved(s, s.sources[i][1])
    /\ s.dsos[s.sources[i][1]].symbol_build_id # Passes!NotLoaded

\* What an object is loaded with if no BUILD_ID record says otherwise.
Final(path) == IF HeaderIds[path] = NoId THEN LiveIds[path] ELSE HeaderIds[path]
Static(s) ==
  /\ s.header_build_ids = HeaderIds
  /\ \A p \in Paths :
       IF s.dsos[p].symbol_build_id = Passes!NotLoaded THEN s.dsos[p].build_id = HeaderIds[p]
       ELSE s.dsos[p].symbol_build_id = Final(p)

\* Samples that were skipped leave no trace in these.
Alike(s, t) ==
  /\ s.header_build_ids = t.header_build_ids /\ s.sources = t.sources
  /\ s.maps = t.maps /\ s.comm = t.comm

Meant(i) == Passes!Meanings(fold_file)[i].state
End == Meant(Len(fold_file))

Types ==
  /\ fold_file \in Seq(Passes!Record) /\ Len(fold_file) <= FoldRecords
       /\ fold_pos \in 0 .. Len(fold_file)
  /\ fold_pc \in {"direct", "stream", "done", "failed"}
  /\ fold_state \in States /\ Sourced(fold_state)
  /\ requires_stream_parser \in BOOLEAN /\ fold_output \in Seq(Passes!Frame)
  /\ \A i \in DOMAIN fold_cache : fold_cache[i] \in Passes!Frame

\* The recording so far.
MeantInv ==
  \A i \in 0 .. Len(fold_file) :
    /\ Meant(i) \in States /\ Sourced(Meant(i))
         /\ Passes!Meanings(fold_file)[i].output \in Seq(Passes!Frame)
    /\ Continues(End, Meant(i))
    /\ Passes!NoStreamIds => Static(Meant(i))

\* The first pass, as long as it counts.
DirectInv ==
  ~requires_stream_parser /\ fold_pc \in {"direct", "done"} =>
    /\ fold_pos = Len(fold_file) /\ fold_state = End
         /\ fold_output = Passes!Meanings(fold_file)[Len(fold_file)].output
    /\ Faithful(fold_state)

\* What it leaves if the ids did not change.
CacheInv ==
  Passes!NoStreamIds =>
    \A i \in DOMAIN fold_cache :
      /\ i \in DOMAIN End.sources
      /\ fold_cache[i] = [path |-> End.sources[i][1], id |-> Final(End.sources[i][1])]

SkippedInv ==
  /\ fold_pc = "direct" => fold_pos = Len(fold_file) /\ Alike(fold_state, End)
  /\ fold_pc = "direct" /\ Passes!NoStreamIds => Static(fold_state)

\* The second pass.
StreamInv ==
  /\ fold_pc = "stream" => requires_stream_parser
  /\ requires_stream_parser /\ fold_pc \in {"stream", "done"} /\ Passes!NoStreamIds =>
       /\ fold_state = Meant(fold_pos)
            /\ fold_output = Passes!Meanings(fold_file)[fold_pos].output
       /\ fold_pc = "done" => fold_pos = Len(fold_file)

PassInv == Types /\ MeantInv /\ DirectInv /\ CacheInv /\ SkippedInv /\ StreamInv

-----------------------------------------------------------------------------
(* The operations of a session.                                              *)

\* The records, by kind.
LEMMA RecordKinds ==
  ASSUME NEW r \in Passes!Record
  PROVE  /\ r.kind \in {"comm", "build_id", "mmap", "sample"}
         /\ r.kind = "comm" => r.comm \in Passes!Comms
         /\ r.kind = "build_id" => r.path \in Paths /\ r.id \in BuildIds
         /\ r.kind = "mmap" => r.path \in Paths /\ r.region \in Regions
         /\ r.kind = "sample" => r.region \in Regions
  BY DEF Passes!Record

\* A source is found, or added behind the others.
LEMMA InternedIs ==
  ASSUME NEW s \in States, NEW path \in Paths
  PROVE  /\ Passes!Interned(s, path).sources \in Seq(Paths \X Passes!Ids)
         /\ Passes!Interned(s, path).id \in DOMAIN Passes!Interned(s, path).sources
         /\ Passes!Interned(s, path).sources[Passes!Interned(s, path).id][1] = path
         /\ Passes!Interned(s, path).id \in Nat
         /\ \A i \in DOMAIN s.sources :
              /\ i \in DOMAIN Passes!Interned(s, path).sources
              /\ Passes!Interned(s, path).sources[i] = s.sources[i]
<1> DEFINE key == Passes!SourceKey(s, path)
           known == \E i \in DOMAIN s.sources : s.sources[i] = key
           table == IF known THEN s.sources ELSE Append(s.sources, key)
           id == CHOOSE i \in DOMAIN table : table[i] = key
<1>1. s.sources \in Seq(Paths \X Passes!Ids) /\ key \in Paths \X Passes!Ids /\ key[1] = path
  BY DEF States, Passes!SourceKey
<1> HIDE DEF key
<1>2. /\ table \in Seq(Paths \X Passes!Ids)
      /\ \A i \in DOMAIN s.sources : i \in DOMAIN table /\ table[i] = s.sources[i]
      /\ \E i \in DOMAIN table : table[i] = key
  <2>1. CASE known
    BY <1>1, <2>1
  <2>2. CASE ~known
    <3>1. table = Append(s.sources, key)
      BY <2>2
    <3>2. /\ table \in Seq(Paths \X Passes!Ids) /\ Len(s.sources) \in Nat
          /\ DOMAIN table = 1 .. Len(s.sources) + 1 /\ DOMAIN s.sources = 1 .. Len(s.sources)
          /\ \A i \in 1 .. Len(s.sources) : table[i] = s.sources[i]
          /\ table[Len(s.sources) + 1] = key
      BY <1>1, <3>1, AppendProperties, LenProperties
    <3>3. Len(s.sources) + 1 \in DOMAIN table
            /\ \A i \in 1 .. Len(s.sources) : i \in DOMAIN table
      BY <3>2
    <3> QED
      BY <3>2, <3>3
  <2> QED
    BY <2>1, <2>2
<1> HIDE DEF known, table
<1>3. id \in DOMAIN table /\ table[id] = key
  BY <1>2
<1>4. DOMAIN table \subseteq Nat
  BY <1>2, LenProperties
<1>5. Passes!Interned(s, path) = [sources |-> table, id |-> id]
  BY DEF Passes!Interned, table, known, key
<1> HIDE DEF id
<1> QED
  BY <1>1, <1>2, <1>3, <1>4, <1>5

\* A metadata record, field by field.
LEMMA ApplyIs ==
  ASSUME Passes!PassesAssumption, NEW s \in States, Sourced(s),
         NEW r \in Passes!Record, r.kind # "sample"
  PROVE  LET t == Passes!ApplyMetadata(s, r)
         IN /\ t \in States /\ Sourced(t) /\ Continues(t, s)
            /\ \A p \in Paths : t.dsos[p].symbol_build_id = s.dsos[p].symbol_build_id
            /\ r.kind # "build_id" => t.header_build_ids = s.header_build_ids /\ t.dsos = s.dsos
<1>1. CASE r.kind = "comm"
  <2>1. Passes!ApplyMetadata(s, r) = [s EXCEPT !.comm = r.comm] /\ r.comm \in Passes!Comms
    BY <1>1, RecordKinds DEF Passes!ApplyMetadata
  <2> QED
    BY <1>1, <2>1 DEF States, Sourced, Continues
<1>2. CASE r.kind = "build_id"
  <2>1. Passes!ApplyMetadata(s, r) = [s EXCEPT !.header_build_ids[r.path] =
          r.id, !.dsos[r.path].build_id = r.id]
    BY <1>2 DEF Passes!ApplyMetadata
  <2>2. r.path \in Paths /\ r.id \in Passes!Ids
    BY <1>2, RecordKinds DEF Passes!Ids
  <2>3. /\ Passes!ApplyMetadata(s, r).header_build_ids = [s.header_build_ids EXCEPT ![r.path] =
             r.id]
        /\ Passes!ApplyMetadata(s, r).dsos = [s.dsos EXCEPT ![r.path] =
             [s.dsos[r.path] EXCEPT !.build_id = r.id]]
        /\ Passes!ApplyMetadata(s, r).sources = s.sources
             /\ Passes!ApplyMetadata(s, r).maps = s.maps
        /\ Passes!ApplyMetadata(s, r).comm = s.comm
    BY <2>1 DEF States
  <2>4. [s.dsos EXCEPT ![r.path] = [s.dsos[r.path] EXCEPT !.build_id = r.id]] \in [Paths -> Dso]
    BY <2>2 DEF States, Dso
  <2>5. \A p \in Paths :
          [s.dsos EXCEPT ![r.path] = [s.dsos[r.path] EXCEPT !.build_id =
            r.id]][p].symbol_build_id
            = s.dsos[p].symbol_build_id
    BY <2>2 DEF States, Dso
  <2>6. [s.header_build_ids EXCEPT ![r.path] = r.id] \in [Paths -> Passes!Ids]
    BY <2>2 DEF States
  <2>7. Passes!ApplyMetadata(s, r) =
          [header_build_ids |-> Passes!ApplyMetadata(s, r).header_build_ids,
          dsos |-> Passes!ApplyMetadata(s, r).dsos, sources |-> s.sources, maps |-> s.maps,
            comm |-> s.comm]
    BY <2>1 DEF States
  <2>8. Passes!ApplyMetadata(s, r) \in States
    BY <2>3, <2>4, <2>6, <2>7 DEF States
  <2> QED
    BY <1>2, <2>3, <2>5, <2>8 DEF Sourced, Continues
<1>3. CASE r.kind = "mmap"
  <2>1. Passes!ApplyMetadata(s, r) =
          [s EXCEPT !.sources = Passes!Interned(s, r.path).sources,
                    !.maps[r.region] =
                      [path |-> r.path, source |-> Passes!Interned(s, r.path).id]]
    BY <1>3 DEF Passes!ApplyMetadata
  <2>2. r.path \in Paths /\ r.region \in Regions
    BY <1>3, RecordKinds
  <2>3. PICK table, id : table = Passes!Interned(s, r.path).sources
          /\ id = Passes!Interned(s, r.path).id
    OBVIOUS
  <2>4. /\ table \in Seq(Paths \X Passes!Ids) /\ id \in DOMAIN table
             /\ table[id][1] = r.path /\ id \in Nat
        /\ \A i \in DOMAIN s.sources : i \in DOMAIN table /\ table[i] = s.sources[i]
    BY <2>2, <2>3, InternedIs
  <2>5. Passes!ApplyMetadata(s, r) =
          [header_build_ids |-> s.header_build_ids, dsos |-> s.dsos, sources |-> table,
           maps |-> [s.maps EXCEPT ![r.region] = [path |-> r.path, source |-> id]],
             comm |-> s.comm]
    BY <2>1, <2>3 DEF States
  <2>6. [s.maps EXCEPT ![r.region] = [path |-> r.path, source |-> id]]
          \in [Regions -> [path : Paths \cup {"none"}, source : Nat]]
    BY <2>2, <2>4 DEF States
  <2>7. Passes!ApplyMetadata(s, r) \in States
    BY <2>4, <2>5, <2>6 DEF States
  <2>8. Sourced(Passes!ApplyMetadata(s, r))
    <3> SUFFICES ASSUME NEW q \in Regions, Passes!ApplyMetadata(s, r).maps[q].source > 0
                 PROVE  /\ Passes!ApplyMetadata(s, r).maps[q].source \in DOMAIN table
                        /\ table[Passes!ApplyMetadata(s, r).maps[q].source][1] =
                             Passes!ApplyMetadata(s, r).maps[q].path
      BY <2>5 DEF Sourced
    <3>1. CASE q = r.region
      <4>1. Passes!ApplyMetadata(s, r).maps[q] = [path |-> r.path, source |-> id]
        BY <2>2, <2>5, <3>1 DEF States
      <4> QED
        BY <2>4, <4>1
    <3>2. CASE q # r.region
      <4>1. Passes!ApplyMetadata(s, r).maps[q] = s.maps[q]
        BY <2>5, <3>2 DEF States
      <4> QED
        BY <2>4, <4>1 DEF Sourced
    <3> QED
      BY <3>1, <3>2
  <2> QED
    BY <1>3, <2>4, <2>5, <2>7, <2>8 DEF Continues
<1> QED
  BY <1>1, <1>2, <1>3, RecordKinds

\* Where two sessions are alike, a metadata record keeps them so.
LEMMA ApplyAlike ==
  ASSUME NEW s \in States, NEW t \in States, Alike(s, t),
         NEW r \in Passes!Record, r.kind # "sample"
  PROVE  Alike(Passes!ApplyMetadata(s, r), Passes!ApplyMetadata(t, r))
<1>1. CASE r.kind = "comm"
  BY <1>1 DEF Passes!ApplyMetadata, Alike, States
<1>2. CASE r.kind = "build_id"
  BY <1>2 DEF Passes!ApplyMetadata, Alike, States
<1>3. CASE r.kind = "mmap"
  <2>1. Passes!Interned(s, r.path) = Passes!Interned(t, r.path)
    BY DEF Passes!Interned, Passes!SourceKey, Alike
  <2> HIDE DEF Passes!Interned
  <2> QED
    BY <1>3, <2>1 DEF Passes!ApplyMetadata, Alike, States
<1> QED
  BY <1>1, <1>2, <1>3, RecordKinds

\* Loading an object.
LEMMA LoadedIs ==
  ASSUME Passes!PassesAssumption, NEW s \in States, NEW path \in Paths
  PROVE  LET t == Passes!Loaded(s, path)
         IN /\ t \in States /\ Alike(t, s)
            /\ t.dsos[path].symbol_build_id \in Passes!Ids
                 /\ t.dsos[path].symbol_build_id # Passes!NotLoaded
            /\ \A p \in Paths : s.dsos[p].symbol_build_id # Passes!NotLoaded =>
                 t.dsos[p].symbol_build_id = s.dsos[p].symbol_build_id
            /\ s.dsos[path].symbol_build_id # Passes!NotLoaded => t = s
            /\ Static(s) => Static(t) /\ t.dsos[path].symbol_build_id = Final(path)
<1>0. s.dsos \in [Paths -> Dso] /\ s.dsos[path] \in Dso /\ Passes!NotLoaded \notin Passes!Ids
      /\ LiveIds[path] \in Passes!Ids /\ HeaderIds[path] \in Passes!Ids
  BY DEF States, Passes!PassesAssumption, Passes!Ids
<1>1. CASE s.dsos[path].symbol_build_id # Passes!NotLoaded
  BY <1>0, <1>1 DEF Passes!Loaded, Alike, Static, Dso
<1>2. CASE s.dsos[path].symbol_build_id = Passes!NotLoaded
  <2> DEFINE id == IF s.dsos[path].build_id = NoId THEN LiveIds[path] ELSE s.dsos[path].build_id
  <2>1. Passes!Loaded(s, path) = [s EXCEPT !.dsos[path] =
          [build_id |-> id, symbol_build_id |-> id]]
    <3>1. CASE s.dsos[path].build_id = NoId
      BY <1>2, <3>1 DEF Passes!Loaded, Passes!LoadedAnew
    <3>2. CASE s.dsos[path].build_id # NoId
      <4>1. Passes!Loaded(s, path) = [s EXCEPT !.dsos[path].symbol_build_id =
              s.dsos[path].build_id]
        BY <1>2, <3>2 DEF Passes!Loaded, Passes!LoadedAnew
      <4>2. [s.dsos[path] EXCEPT !.symbol_build_id = s.dsos[path].build_id]
              = [build_id |-> id, symbol_build_id |-> id]
        BY <1>0, <3>2 DEF Dso
      <4> QED
        BY <4>1, <4>2 DEF States
    <3> QED
      BY <3>1, <3>2
  <2>2. id \in Passes!Ids
    BY <1>0 DEF Dso
  <2>3. Passes!Loaded(s, path) =
          [header_build_ids |-> s.header_build_ids,
           dsos |-> [s.dsos EXCEPT ![path] = [build_id |-> id, symbol_build_id |-> id]],
           sources |-> s.sources, maps |-> s.maps, comm |-> s.comm]
    BY <2>1 DEF States
  <2>4. [s.dsos EXCEPT ![path] = [build_id |-> id, symbol_build_id |-> id]] \in [Paths -> Dso]
    BY <1>0, <2>2 DEF Dso
  <2>5. Passes!Loaded(s, path) \in States /\ Alike(Passes!Loaded(s, path), s)
    BY <2>3, <2>4 DEF States, Alike
  <2>6. /\ Passes!Loaded(s, path).dsos[path] = [build_id |-> id, symbol_build_id |-> id]
        /\ \A p \in Paths : p # path => Passes!Loaded(s, path).dsos[p] = s.dsos[p]
    BY <1>0, <2>3
  <2>7. Static(s) => id = Final(path)
    BY <1>2 DEF Static, Final
  <2> HIDE DEF id
  <2>8. Static(s) => Static(Passes!Loaded(s, path))
          /\ Passes!Loaded(s, path).dsos[path].symbol_build_id = Final(path)
    BY <1>0, <2>2, <2>5, <2>6, <2>7 DEF Static, Alike
  <2> QED
    BY <1>0, <1>2, <2>2, <2>5, <2>6, <2>8
<1> QED
  BY <1>1, <1>2

\* A session as it starts.
LEMMA NewStateIs ==
  ASSUME Passes!PassesAssumption, NEW ids \in [Paths -> Passes!Ids]
  PROVE  /\ Passes!NewState(ids) \in States /\ Sourced(Passes!NewState(ids))
         /\ Passes!NewState(ids).sources = <<>>
         /\ ids = HeaderIds => Static(Passes!NewState(ids))
<1>1. [p \in Paths |-> [build_id |-> ids[p], symbol_build_id |-> Passes!NotLoaded]] \in
        [Paths -> Dso]
  BY DEF Dso
<1>2. [r \in Regions |-> [path |-> "none", source |-> 0]]
        \in [Regions -> [path : Paths \cup {"none"}, source : Nat]]
  OBVIOUS
<1>3. Passes!NewState(ids) \in States
  BY <1>1, <1>2 DEF Passes!NewState, States, Passes!Comms
<1>4. Sourced(Passes!NewState(ids))
  BY DEF Passes!NewState, Sourced
<1>5. ids = HeaderIds => Static(Passes!NewState(ids))
  BY DEF Passes!NewState, Static
<1> QED
  BY <1>3, <1>4, <1>5 DEF Passes!NewState

\* A place of a session that is mapped.
LEMMA MappedPath ==
  ASSUME NEW s \in States, Sourced(s), NEW q \in Regions, s.maps[q].source # 0
  PROVE  /\ s.maps[q].source > 0 /\ s.maps[q].source \in DOMAIN s.sources
         /\ s.sources[s.maps[q].source][1] = s.maps[q].path /\ s.maps[q].path \in Paths
<1>1. s.maps[q].source \in Nat
  BY DEF States
<1>2. s.maps[q].source > 0
  BY <1>1
<1>3. /\ s.maps[q].source \in DOMAIN s.sources
      /\ s.sources[s.maps[q].source][1] = s.maps[q].path
  BY <1>2 DEF Sourced
<1>4. s.sources[s.maps[q].source] \in Paths \X Passes!Ids
  BY <1>3 DEF States
<1> QED
  BY <1>2, <1>3, <1>4

\* What one record does to what a recording means.
LEMMA AfterIs ==
  ASSUME Passes!PassesAssumption,
         NEW a, a.state \in States, Sourced(a.state), a.output \in Seq(Passes!Frame),
         NEW r \in Passes!Record
  PROVE  /\ Passes!After(a, r).state \in States /\ Sourced(Passes!After(a, r).state)
         /\ Passes!After(a, r).output \in Seq(Passes!Frame)
         /\ Continues(Passes!After(a, r).state, a.state)
         /\ r.kind # "build_id" /\ Static(a.state) => Static(Passes!After(a, r).state)
<1>1. CASE r.kind # "sample"
  <2>1. Passes!After(a, r).state = Passes!ApplyMetadata(a.state, r)
          /\ Passes!After(a, r).output = a.output
    BY <1>1 DEF Passes!After
  <2>2. PICK t : t = Passes!ApplyMetadata(a.state, r)
    OBVIOUS
  <2>3. /\ t \in States /\ Sourced(t) /\ Continues(t, a.state)
        /\ r.kind # "build_id" => t.header_build_ids = a.state.header_build_ids
             /\ t.dsos = a.state.dsos
    BY <1>1, <2>2, ApplyIs
  <2> QED
    BY <2>1, <2>2, <2>3 DEF Static
<1>2. CASE r.kind = "sample" /\ a.state.maps[r.region].source = 0
  <2>1. Passes!After(a, r).state = a.state
          /\ Passes!After(a, r).output = Append(a.output, Passes!Unmapped)
    BY <1>2 DEF Passes!After, Passes!Sampled
  <2>2. Append(a.output, Passes!Unmapped) \in Seq(Passes!Frame)
    BY AppendProperties DEF Passes!Frame
  <2> QED
    BY <2>1, <2>2 DEF Continues
<1>3. CASE r.kind = "sample" /\ a.state.maps[r.region].source # 0
  <2>1. PICK path : path = a.state.maps[r.region].path
    OBVIOUS
  <2>2. path \in Paths
    BY <1>3, <2>1, RecordKinds, MappedPath
  <2>3. PICK t : t = Passes!Loaded(a.state, path)
    OBVIOUS
  <2>4. /\ t \in States /\ Alike(t, a.state) /\ t.dsos[path].symbol_build_id \in Passes!Ids
        /\ Static(a.state) => Static(t)
    BY <2>2, <2>3, LoadedIs
  <2>5. Passes!After(a, r).state = t
          /\ Passes!After(a, r).output = Append(a.output, Passes!Resolved(t, path))
    BY <1>3, <2>1, <2>3 DEF Passes!After, Passes!Sampled
  <2>6. Passes!Resolved(t, path) \in Passes!Frame
    BY <2>2, <2>4 DEF Passes!Resolved, Passes!Frame
  <2>7. Append(a.output, Passes!Resolved(t, path)) \in Seq(Passes!Frame)
    BY <2>6, AppendProperties
  <2>8. Sourced(t) /\ Continues(t, a.state)
    BY <2>4 DEF Sourced, Continues, Alike
  <2> QED
    BY <2>4, <2>5, <2>7, <2>8
<1> QED
  BY <1>1, <1>2, <1>3

\* A record more does not change what those before it mean.
LEMMA MeaningsGrow ==
  ASSUME NEW f \in Seq(Passes!Record), NEW r \in Passes!Record
  PROVE  /\ \A i \in 0 .. Len(f) : Passes!Meanings(Append(f, r))[i] = Passes!Meanings(f)[i]
         /\ Passes!Meanings(Append(f, r))[Len(f) + 1] =
              Passes!After(Passes!Meanings(f)[Len(f)], r)
<1> DEFINE g == Append(f, r)
<1>1. /\ Len(f) \in Nat /\ Len(g) = Len(f) + 1 /\ g[Len(f) + 1] = r
      /\ \A i \in 1 .. Len(f) : g[i] = f[i]
  BY AppendProperties, LenProperties
<1> HIDE DEF g
<1>2. PICK m, n : m = Passes!Meanings(f) /\ n = Passes!Meanings(g)
  OBVIOUS
<1>3. m[0] = Passes!Beginning /\ \A i \in 1 .. Len(f) : m[i] = Passes!After(m[i - 1], f[i])
  BY <1>1, <1>2, MeaningsAre
<1>4. n[0] = Passes!Beginning /\ \A i \in 1 .. Len(f) + 1 : n[i] = Passes!After(n[i - 1], g[i])
  BY <1>1, <1>2, MeaningsAre
<1> DEFINE Bad == {i \in 0 .. Len(f) : n[i] # m[i]}
<1>5. Bad = {}
  <2> SUFFICES ASSUME Bad # {} PROVE FALSE
    OBVIOUS
  <2>0. Bad \in SUBSET Nat
    BY <1>1
  <2> HIDE DEF Bad
  <2>1. PICK i \in Bad : \A k \in Bad : i <= k
    BY <2>0, LeastNumber
  <2> USE DEF Bad
  <2>2. i # 0
    BY <1>3, <1>4, <2>1
  <2>3. i \in 1 .. Len(f) /\ i - 1 \in 0 .. Len(f) /\ i \in 1 .. Len(f) + 1
    BY <1>1, <2>1, <2>2
  <2>4. i - 1 \notin Bad
    BY <2>1, <2>3
  <2>5. n[i - 1] = m[i - 1]
    BY <2>3, <2>4
  <2>6. n[i] = m[i]
    BY <1>1, <1>3, <1>4, <2>3, <2>5
  <2> QED
    BY <2>1, <2>6
<1>6. \A i \in 0 .. Len(f) : n[i] = m[i]
  BY <1>5
<1>7. n[Len(f) + 1] = Passes!After(m[Len(f)], r)
  <2>1. Len(f) + 1 \in 1 .. Len(f) + 1 /\ (Len(f) + 1) - 1 = Len(f) /\ Len(f) \in 0 .. Len(f)
    BY <1>1
  <2> QED
    BY <1>1, <1>4, <1>6, <2>1
<1> QED
  BY <1>2, <1>6, <1>7 DEF g

\* The recording and its meaning, when a record is read.
LEMMA ReadMeant ==
  ASSUME Passes!PassesAssumption, Types, MeantInv,
         NEW r \in Passes!Record, fold_file' = Append(fold_file, r)
  PROVE  /\ MeantInv'
         /\ \A i \in 0 .. Len(fold_file) : Meant(i)' = Meant(i)
         /\ End' = Passes!After(Passes!Meanings(fold_file)[Len(fold_file)], r).state
         /\ Passes!Meanings(fold_file)[Len(fold_file)]' =
              Passes!After(Passes!Meanings(fold_file)[Len(fold_file)], r)
         /\ Continues(End', End)
         /\ Passes!NoStreamIds' => Passes!NoStreamIds /\ r.kind # "build_id"
         /\ fold_file' \in Seq(Passes!Record) /\ Len(fold_file') = Len(fold_file) + 1
              /\ Len(fold_file) \in Nat
<1>1. /\ fold_file \in Seq(Passes!Record) /\ Len(fold_file) \in Nat
           /\ fold_file' \in Seq(Passes!Record) /\ Len(fold_file') = Len(fold_file) + 1
      /\ DOMAIN fold_file = 1 .. Len(fold_file) /\ DOMAIN fold_file' = 1 .. Len(fold_file) + 1
      /\ fold_file'[Len(fold_file) + 1] = r
           /\ \A i \in 1 .. Len(fold_file) : fold_file'[i] = fold_file[i]
  BY AppendProperties, LenProperties DEF Types
<1>2. PICK old, new : old = Passes!Meanings(fold_file) /\ new = Passes!Meanings(fold_file')
  OBVIOUS
<1>3. (\A i \in 0 .. Len(fold_file) : new[i] = old[i])
        /\ new[Len(fold_file) + 1] = Passes!After(old[Len(fold_file)], r)
  BY <1>1, <1>2, MeaningsGrow
<1>4. \A i \in 0 .. Len(fold_file) :
        /\ old[i].state \in States /\ Sourced(old[i].state)
             /\ old[i].output \in Seq(Passes!Frame)
        /\ Continues(old[Len(fold_file)].state, old[i].state)
        /\ Passes!NoStreamIds => Static(old[i].state)
  BY <1>2 DEF MeantInv, Meant, End
<1>5. Passes!NoStreamIds' => Passes!NoStreamIds /\ r.kind # "build_id"
  <2>1. (\A i \in DOMAIN fold_file' : fold_file'[i].kind # "build_id") =>
          (\A i \in DOMAIN fold_file : fold_file[i].kind # "build_id") /\ r.kind # "build_id"
    BY <1>1
  <2> QED
    BY <2>1 DEF Passes!NoStreamIds
<1>6. PICK a : a = old[Len(fold_file)]
  OBVIOUS
<1>7. Len(fold_file) \in 0 .. Len(fold_file)
  BY <1>1
<1>8. /\ Passes!After(a, r).state \in States /\ Sourced(Passes!After(a, r).state)
      /\ Passes!After(a, r).output \in Seq(Passes!Frame)
      /\ Continues(Passes!After(a, r).state, a.state)
      /\ r.kind # "build_id" /\ Static(a.state) => Static(Passes!After(a, r).state)
  BY <1>4, <1>6, <1>7, AfterIs
<1>9. ASSUME NEW i \in 0 .. Len(fold_file) + 1
      PROVE  /\ new[i].state \in States /\ Sourced(new[i].state)
                  /\ new[i].output \in Seq(Passes!Frame)
             /\ Continues(new[Len(fold_file) + 1].state, new[i].state)
             /\ Passes!NoStreamIds' => Static(new[i].state)
  <2>1. CASE i = Len(fold_file) + 1
    <3>1. new[i] = Passes!After(a, r)
      BY <1>3, <1>6, <2>1
    <3>2. Continues(Passes!After(a, r).state, Passes!After(a, r).state)
      BY DEF Continues
    <3> QED
      BY <1>4, <1>5, <1>6, <1>7, <1>8, <2>1, <3>1, <3>2
  <2>2. CASE i \in 0 .. Len(fold_file)
    <3>1. new[i] = old[i] /\ Continues(a.state, old[i].state)
      BY <1>3, <1>4, <1>6, <2>2
    <3>2. Continues(Passes!After(a, r).state, old[i].state)
      BY <1>8, <3>1 DEF Continues
    <3> QED
      BY <1>3, <1>4, <1>5, <1>6, <2>2, <3>1, <3>2
  <2> QED
    BY <1>1, <2>1, <2>2
<1>10. MeantInv'
  <2>1. \A i \in 0 .. Len(fold_file') :
          /\ new[i].state \in States /\ Sourced(new[i].state)
               /\ new[i].output \in Seq(Passes!Frame)
          /\ Continues(new[Len(fold_file')].state, new[i].state)
          /\ Passes!NoStreamIds' => Static(new[i].state)
    BY <1>1, <1>9
  <2>2. \A i : Meant(i)' = new[i].state
    BY <1>2 DEF Meant
  <2>3. End' = new[Len(fold_file')].state
    BY <1>2 DEF End, Meant
  <2>4. HeaderIds' = HeaderIds /\ LiveIds' = LiveIds
    OBVIOUS
  <2> QED
    BY <1>2, <2>1, <2>2, <2>3, Zenon DEF MeantInv
<1>11. End' = new[Len(fold_file) + 1].state /\ End = a.state
         /\ Passes!Meanings(fold_file)[Len(fold_file)]' = new[Len(fold_file) + 1]
  BY <1>1, <1>2, <1>6 DEF End, Meant
<1>12. \A i \in 0 .. Len(fold_file) : Meant(i)' = Meant(i)
  BY <1>2, <1>3 DEF Meant
<1> QED
  BY <1>1, <1>2, <1>3, <1>5, <1>6, <1>8, <1>10, <1>11, <1>12

-----------------------------------------------------------------------------
(* The steps.                                                                *)

LEMMA InitPass ==
  ASSUME Passes!PassesAssumption, Passes!Init
  PROVE  PassInv
<1>1. /\ fold_file = <<>> /\ fold_pos = 0 /\ fold_pc = "direct"
           /\ fold_state = Passes!NewState(HeaderIds)
      /\ fold_cache = <<>> /\ requires_stream_parser = FALSE /\ fold_output = <<>>
      /\ Len(fold_file) = 0 /\ DOMAIN fold_cache = {}
  BY DEF Passes!Init
<1>2. HeaderIds \in [Paths -> Passes!Ids]
  BY DEF Passes!PassesAssumption, Passes!Ids
<1>3. PICK s : s = Passes!NewState(HeaderIds)
  OBVIOUS
<1>4. s \in States /\ Sourced(s) /\ s.sources = <<>> /\ Static(s)
  BY <1>2, <1>3, NewStateIs
<1>5. Passes!Meanings(fold_file)[0] = [state |-> s, output |-> <<>>]
  BY <1>1, <1>3, MeaningsAre DEF Passes!Beginning
<1>6. Types
  <2>1. /\ fold_file \in Seq(Passes!Record) /\ fold_output \in Seq(Passes!Frame)
        /\ Len(fold_file) \in Int /\ FoldRecords \in Nat /\ fold_pos \in Int
    BY <1>1 DEF Passes!PassesAssumption
  <2>2. Len(fold_file) <= FoldRecords /\ fold_pos \in 0 .. Len(fold_file)
    BY <1>1, <2>1
  <2>3. \A i \in DOMAIN fold_cache : fold_cache[i] \in Passes!Frame
    BY <1>1
  <2> QED
    BY <1>1, <1>3, <1>4, <2>1, <2>2, <2>3 DEF Types
<1>7. MeantInv
  <2>1. PICK m : m = Passes!Meanings(fold_file)
    OBVIOUS
  <2>2. m[0].state = s /\ m[0].output = <<>> /\ <<>> \in Seq(Passes!Frame) /\ Continues(s, s)
    BY <1>5, <2>1 DEF Continues
  <2>3. \A i \in 0 .. 0 : i = 0
    OBVIOUS
  <2> QED
    BY <1>1, <1>4, <2>1, <2>2, <2>3, Zenon DEF MeantInv, Meant, End
<1>8. End = s
  BY <1>1, <1>5 DEF End, Meant
<1>9. DirectInv
  BY <1>1, <1>3, <1>5, <1>8 DEF DirectInv, Faithful
<1>10. CacheInv
  BY <1>1 DEF CacheInv
<1>11. SkippedInv /\ StreamInv
  BY <1>1, <1>3, <1>4, <1>8 DEF SkippedInv, StreamInv, Alike
<1> QED
  BY <1>6, <1>7, <1>9, <1>10, <1>11 DEF PassInv

\* A sample in a mapped place: what becomes of source n of an object.
Counts(n, path) ==
  /\ n > 0 /\ n \in DOMAIN fold_state.sources /\ fold_state.sources[n][1] = path
       /\ path \in Paths
  /\ fold_state' \in States /\ Sourced(fold_state') /\ Alike(fold_state', fold_state)
  /\ fold_state' = fold_state \/ fold_state' = Passes!Loaded(fold_state, path)
  /\ fold_pc = "stream" \/ n \notin DOMAIN fold_cache =>
       fold_state' = Passes!Loaded(fold_state, path)
  /\ fold_pc # "stream" /\ n \in DOMAIN fold_cache => fold_state' = fold_state
  /\ DOMAIN fold_cache' = DOMAIN fold_cache \cup {n}
  /\ \A i \in DOMAIN fold_cache : fold_cache'[i] = fold_cache[i]
  /\ n \notin DOMAIN fold_cache =>
       fold_cache'[n] = Passes!Resolved(Passes!Loaded(fold_state, path), path)
  /\ \A i \in DOMAIN fold_cache' : fold_cache'[i] \in Passes!Frame
  /\ fold_output' = Append(fold_output, fold_cache'[n]) /\ fold_output' \in Seq(Passes!Frame)
  /\ requires_stream_parser' = requires_stream_parser

LEMMA Counted ==
  ASSUME Passes!PassesAssumption, Types,
         NEW r \in Passes!Record, r.kind = "sample", Passes!CountMapped(r),
         NEW n, NEW path, Passes!Mapping(r).source = n, Passes!Mapping(r).path = path
  PROVE  Counts(n, path)
<1> DEFINE s == IF fold_pc =
             "stream" \/ n \notin DOMAIN fold_cache
               THEN Passes!Loaded(fold_state, path) ELSE fold_state
           frame == IF n \in DOMAIN fold_cache THEN fold_cache[n] ELSE Passes!Resolved(s, path)
<1>1. /\ n > 0 /\ fold_state' = s /\ fold_output' = Append(fold_output, frame)
      /\ fold_cache' =
           [i \in DOMAIN fold_cache \cup {n} |-> IF i \in DOMAIN fold_cache
             THEN fold_cache[i] ELSE frame]
      /\ requires_stream_parser' = requires_stream_parser
  BY DEF Passes!CountMapped, Passes!Cached
<1>2. r.region \in Regions /\ fold_state \in States /\ Sourced(fold_state)
  BY RecordKinds DEF Types
<1>3. n \in DOMAIN fold_state.sources /\ fold_state.sources[n][1] = path /\ path \in Paths
  <2>1. fold_state.maps[r.region].source = n /\ fold_state.maps[r.region].path = path
    BY DEF Passes!Mapping
  <2>2. n # 0
    BY <1>1, <1>2, <2>1 DEF States
  <2> QED
    BY <1>2, <2>1, <2>2, MappedPath
<1>4. PICK t : t = Passes!Loaded(fold_state, path)
  OBVIOUS
<1>5. t \in States /\ Alike(t, fold_state) /\ t.dsos[path].symbol_build_id \in Passes!Ids
  BY <1>2, <1>3, <1>4, LoadedIs
<1>6. Alike(fold_state, fold_state) /\ Sourced(t)
  BY <1>2, <1>5 DEF Alike, Sourced
<1>7. Passes!Resolved(t, path) \in Passes!Frame
  BY <1>3, <1>5 DEF Passes!Resolved, Passes!Frame
<1>8. frame \in Passes!Frame
  BY <1>4, <1>7 DEF Types
<1>9. fold_cache'[n] = frame /\ \A i \in DOMAIN fold_cache' : fold_cache'[i] \in Passes!Frame
  BY <1>1, <1>8 DEF Types
<1>10. fold_output' \in Seq(Passes!Frame)
  BY <1>1, <1>8, AppendProperties DEF Types
<1> QED
  BY <1>1, <1>2, <1>3, <1>4, <1>5, <1>6, <1>9, <1>10 DEF Counts

\* A sample in a place where nothing is mapped.
LEMMA CountedUnmapped ==
  ASSUME Types, NEW r \in Passes!Record, Passes!CountUnmapped(r)
  PROVE  /\ fold_state' = fold_state /\ fold_cache' = fold_cache
              /\ requires_stream_parser' = requires_stream_parser
         /\ fold_output' = Append(fold_output, Passes!Unmapped)
              /\ fold_output' \in Seq(Passes!Frame)
<1>1. Passes!Unmapped \in Passes!Frame
  BY DEF Passes!Frame
<1> QED
  BY <1>1, AppendProperties DEF Passes!CountUnmapped, Types

\* A cache that agrees with the final ids goes on doing so.
LEMMA CacheGrows ==
  ASSUME Passes!PassesAssumption, Types, CacheInv, Passes!NoStreamIds', Passes!NoStreamIds,
         Continues(End', End),
         Static(fold_state), NEW r \in Passes!Record, r.kind = "sample", Passes!CountMapped(r),
         \A i \in DOMAIN fold_state.sources : i \in DOMAIN End.sources
           /\ End.sources[i] = fold_state.sources[i]
  PROVE  CacheInv'
<1>1. PICK n, path : Passes!Mapping(r).source = n /\ Passes!Mapping(r).path = path
  OBVIOUS
<1>2. /\ n \in DOMAIN fold_state.sources /\ fold_state.sources[n][1] = path /\ path \in Paths
      /\ DOMAIN fold_cache' = DOMAIN fold_cache \cup {n}
      /\ \A i \in DOMAIN fold_cache : fold_cache'[i] = fold_cache[i]
      /\ n \notin DOMAIN fold_cache =>
           fold_cache'[n] = Passes!Resolved(Passes!Loaded(fold_state, path), path)
  <2>1. Counts(n, path)
    BY <1>1, Counted
  <2> QED
    BY <2>1 DEF Counts
<1>3. Passes!Loaded(fold_state, path).dsos[path].symbol_build_id = Final(path)
  BY <1>2, LoadedIs DEF Types
<1>4. PICK old, new : old = End.sources /\ new = End'.sources
  OBVIOUS
<1>5. /\ \A i \in DOMAIN old : i \in DOMAIN new /\ new[i] = old[i]
      /\ n \in DOMAIN old /\ old[n][1] = path
      /\ \A i \in DOMAIN fold_cache : i \in DOMAIN old
           /\ fold_cache[i] = [path |-> old[i][1], id |-> Final(old[i][1])]
  BY <1>2, <1>4 DEF Continues, CacheInv
<1>6. \A i \in DOMAIN fold_cache' : i \in DOMAIN new
        /\ fold_cache'[i] = [path |-> new[i][1], id |-> Final(new[i][1])]
  <2> SUFFICES ASSUME NEW i \in DOMAIN fold_cache'
               PROVE  i \in DOMAIN new
                        /\ fold_cache'[i] = [path |-> new[i][1], id |-> Final(new[i][1])]
    OBVIOUS
  <2>1. CASE i \in DOMAIN fold_cache
    BY <1>2, <1>5, <2>1
  <2>2. CASE i \notin DOMAIN fold_cache
    <3>1. i = n /\ fold_cache'[i] = Passes!Resolved(Passes!Loaded(fold_state, path), path)
      BY <1>2, <2>2
    <3> QED
      BY <1>3, <1>5, <3>1 DEF Passes!Resolved
  <2> QED
    BY <2>1, <2>2
<1> QED
  BY <1>4, <1>6 DEF CacheInv, Final

\* What the samples and records of a pass do to its session.
LEMMA MetadataTypes ==
  ASSUME Passes!PassesAssumption, Types, NEW r \in Passes!Record, Passes!Metadata(r)
  PROVE  /\ fold_state' = Passes!ApplyMetadata(fold_state, r) /\ fold_state' \in States
              /\ Sourced(fold_state')
         /\ Continues(fold_state', fold_state)
         /\ \A p \in Paths : fold_state'.dsos[p].symbol_build_id =
              fold_state.dsos[p].symbol_build_id
         /\ r.kind # "build_id" /\ Static(fold_state) => Static(fold_state')
         /\ fold_cache' = fold_cache /\ fold_output' = fold_output
              /\ requires_stream_parser' = requires_stream_parser
<1>1. /\ r.kind # "sample" /\ fold_state' = Passes!ApplyMetadata(fold_state, r)
      /\ fold_cache' = fold_cache /\ fold_output' = fold_output
           /\ requires_stream_parser' = requires_stream_parser
  BY DEF Passes!Metadata
<1>2. PICK t : t = Passes!ApplyMetadata(fold_state, r)
  OBVIOUS
<1>3. /\ t \in States /\ Sourced(t) /\ Continues(t, fold_state)
      /\ \A p \in Paths : t.dsos[p].symbol_build_id = fold_state.dsos[p].symbol_build_id
      /\ r.kind # "build_id" => t.header_build_ids = fold_state.header_build_ids
           /\ t.dsos = fold_state.dsos
  BY <1>1, <1>2, ApplyIs DEF Types
<1>4. r.kind # "build_id" /\ Static(fold_state) => Static(t)
  BY <1>3 DEF Static
<1> QED
  BY <1>1, <1>2, <1>3, <1>4

LEMMA StepTypes ==
  ASSUME Passes!PassesAssumption, Types,
         NEW r \in Passes!Record, Passes!Metadata(r) \/ Passes!Sample(r)
  PROVE  /\ fold_state' \in States /\ Sourced(fold_state')
         /\ requires_stream_parser' \in BOOLEAN /\ fold_output' \in Seq(Passes!Frame)
         /\ \A i \in DOMAIN fold_cache' : fold_cache'[i] \in Passes!Frame
         /\ requires_stream_parser' # requires_stream_parser => fold_pc = "direct"
         /\ requires_stream_parser => requires_stream_parser'
<1>1. CASE Passes!Metadata(r)
  BY <1>1, MetadataTypes DEF Types
<1>2. CASE Passes!SkipSample
  BY <1>2 DEF Passes!SkipSample, Types
<1>3. CASE r.kind = "sample" /\ Passes!CountMapped(r)
  <2>1. PICK n, path : Passes!Mapping(r).source = n /\ Passes!Mapping(r).path = path
    OBVIOUS
  <2>2. Counts(n, path)
    BY <1>3, <2>1, Counted
  <2> QED
    BY <2>2 DEF Counts, Types
<1>4. CASE Passes!CountUnmapped(r)
  BY <1>4, CountedUnmapped DEF Types
<1> QED
  BY <1>1, <1>2, <1>3, <1>4 DEF Passes!Sample

\* The first pass, when a metadata record is read.
LEMMA DirectMetadata ==
  ASSUME Passes!PassesAssumption, PassInv, fold_pc = "direct", fold_pc' = fold_pc,
         NEW r \in Passes!Record, Passes!Metadata(r),
         fold_file' = Append(fold_file, r), fold_pos' = fold_pos + 1
  PROVE  DirectInv' /\ CacheInv' /\ SkippedInv'
<1>1. Types /\ MeantInv /\ DirectInv /\ CacheInv /\ SkippedInv
  BY DEF PassInv
<1>2. /\ End' = Passes!After(Passes!Meanings(fold_file)[Len(fold_file)], r).state
      /\ Passes!Meanings(fold_file)[Len(fold_file)]' =
           Passes!After(Passes!Meanings(fold_file)[Len(fold_file)], r)
      /\ Continues(End', End)
      /\ Passes!NoStreamIds' => Passes!NoStreamIds /\ r.kind # "build_id"
      /\ Len(fold_file') = Len(fold_file) + 1 /\ Len(fold_file) \in Nat
  BY <1>1, ReadMeant
<1>3. /\ fold_state' = Passes!ApplyMetadata(fold_state, r) /\ fold_state' \in States
      /\ Continues(fold_state', fold_state)
      /\ \A p \in Paths : fold_state'.dsos[p].symbol_build_id =
           fold_state.dsos[p].symbol_build_id
      /\ r.kind # "build_id" /\ Static(fold_state) => Static(fold_state')
      /\ fold_cache' = fold_cache /\ fold_output' = fold_output
           /\ requires_stream_parser' = requires_stream_parser
      /\ r.kind # "sample"
  BY <1>1, MetadataTypes DEF Passes!Metadata
<1>4. PICK a : a = Passes!Meanings(fold_file)[Len(fold_file)]
  OBVIOUS
<1>5. End = a.state /\ a.state \in States
  <2>1. Len(fold_file) \in 0 .. Len(fold_file)
    BY <1>2
  <2> QED
    BY <1>1, <1>4, <2>1 DEF End, Meant, MeantInv
<1>6. End' = Passes!ApplyMetadata(a.state, r)
        /\ Passes!Meanings(fold_file)[Len(fold_file)]'.output = a.output
  BY <1>2, <1>3, <1>4 DEF Passes!After
<1>7. DirectInv'
  <2> SUFFICES ASSUME ~requires_stream_parser'
               PROVE  /\ fold_pos' = Len(fold_file') /\ fold_state' = End'
                      /\ fold_output' = Passes!Meanings(fold_file)[Len(fold_file)]'.output
                           /\ Faithful(fold_state)'
    BY DEF DirectInv
  <2>1. /\ fold_pos = Len(fold_file) /\ fold_state = End /\ fold_output = a.output
             /\ Faithful(fold_state)
    BY <1>1, <1>3, <1>4 DEF DirectInv
  <2>2. Faithful(fold_state)'
    <3> SUFFICES ASSUME NEW i \in DOMAIN fold_cache
                 PROVE  /\ i \in DOMAIN fold_state'.sources
                        /\ fold_cache[i] =
                             Passes!Resolved(fold_state', fold_state'.sources[i][1])
                        /\ fold_state'.dsos[fold_state'.sources[i][1]].symbol_build_id # Passes!NotLoaded
      BY <1>3 DEF Faithful
    <3>1. PICK path : path = fold_state.sources[i][1]
      OBVIOUS
    <3>2. /\ i \in DOMAIN fold_state.sources
               /\ fold_cache[i] = Passes!Resolved(fold_state, path)
          /\ fold_state.dsos[path].symbol_build_id # Passes!NotLoaded
      BY <2>1, <3>1 DEF Faithful
    <3>3. path \in Paths
      BY <1>1, <3>1, <3>2 DEF Types, States
    <3>4. i \in DOMAIN fold_state'.sources /\ fold_state'.sources[i] = fold_state.sources[i]
      BY <1>3, <3>2 DEF Continues
    <3>5. fold_state'.dsos[path].symbol_build_id = fold_state.dsos[path].symbol_build_id
      BY <1>3, <3>3
    <3> QED
      BY <3>1, <3>2, <3>4, <3>5 DEF Passes!Resolved
  <2> QED
    BY <1>2, <1>3, <1>5, <1>6, <2>1, <2>2
<1>8. CacheInv'
  <2>1. PICK old, new : old = End.sources /\ new = End'.sources
    OBVIOUS
  <2>2. \A i \in DOMAIN old : i \in DOMAIN new /\ new[i] = old[i]
    BY <1>2, <2>1 DEF Continues
  <2>3. Passes!NoStreamIds' => \A i \in DOMAIN fold_cache : i \in DOMAIN old
          /\ fold_cache[i] = [path |-> old[i][1], id |-> Final(old[i][1])]
    BY <1>1, <1>2, <2>1 DEF CacheInv
  <2>4. Passes!NoStreamIds' => \A i \in DOMAIN fold_cache' : i \in DOMAIN new
          /\ fold_cache'[i] = [path |-> new[i][1], id |-> Final(new[i][1])]
    BY <1>3, <2>2, <2>3
  <2> QED
    BY <2>1, <2>4 DEF CacheInv
<1>9. SkippedInv'
  <2>1. Alike(fold_state', End')
    <3>1. Alike(fold_state, a.state) /\ fold_state \in States
      BY <1>1, <1>5 DEF SkippedInv, Types
    <3> QED
      BY <1>3, <1>5, <1>6, <3>1, ApplyAlike
  <2>2. fold_pos' = Len(fold_file')
    BY <1>1, <1>2 DEF SkippedInv
  <2>3. Passes!NoStreamIds' => Static(fold_state')
    BY <1>1, <1>2, <1>3 DEF SkippedInv
  <2> QED
    BY <2>1, <2>2, <2>3 DEF SkippedInv
<1> QED
  BY <1>7, <1>8, <1>9

\* The first pass, when it skips a sample.
LEMMA DirectSkip ==
  ASSUME Passes!PassesAssumption, PassInv, fold_pc = "direct", fold_pc' = fold_pc,
         NEW r \in Passes!Record,
         r.kind = "sample", Passes!SkipSample, fold_file' = Append(fold_file, r),
           fold_pos' = fold_pos + 1
  PROVE  DirectInv' /\ CacheInv' /\ SkippedInv'
<1>1. Types /\ MeantInv /\ DirectInv /\ CacheInv /\ SkippedInv
  BY DEF PassInv
<1>2. /\ End' = Passes!After(Passes!Meanings(fold_file)[Len(fold_file)], r).state
      /\ Continues(End', End)
      /\ Passes!NoStreamIds' => Passes!NoStreamIds
      /\ Len(fold_file') = Len(fold_file) + 1 /\ Len(fold_file) \in Nat
  BY <1>1, ReadMeant
<1>3. fold_state' = fold_state /\ fold_cache' = fold_cache /\ fold_output' = fold_output
        /\ requires_stream_parser' = TRUE
  BY DEF Passes!SkipSample
<1>4. PICK a : a = Passes!Meanings(fold_file)[Len(fold_file)]
  OBVIOUS
<1>5. End = a.state /\ a.state \in States /\ Sourced(a.state)
  <2>1. Len(fold_file) \in 0 .. Len(fold_file)
    BY <1>2
  <2> QED
    BY <1>1, <1>4, <2>1 DEF End, Meant, MeantInv
<1>6. Alike(End', End)
  <2>1. End' = Passes!Sampled(a, a.state.maps[r.region]).state
    BY <1>2, <1>4 DEF Passes!After
  <2>2. CASE a.state.maps[r.region].source = 0
    BY <1>5, <2>1, <2>2 DEF Passes!Sampled, Alike
  <2>3. CASE a.state.maps[r.region].source # 0
    <3>1. PICK path : path = a.state.maps[r.region].path
      OBVIOUS
    <3>2. path \in Paths
      BY <1>5, <2>3, <3>1, RecordKinds, MappedPath
    <3>3. End' = Passes!Loaded(a.state, path)
      BY <2>1, <2>3, <3>1 DEF Passes!Sampled
    <3>4. Alike(Passes!Loaded(a.state, path), a.state)
      BY <1>5, <3>2, LoadedIs
    <3> QED
      BY <1>5, <3>3, <3>4
  <2> QED
    BY <2>2, <2>3
<1>7. DirectInv'
  BY <1>3 DEF DirectInv
<1>8. CacheInv'
  <2>1. PICK old, new : old = End.sources /\ new = End'.sources
    OBVIOUS
  <2>2. new = old
    BY <1>6, <2>1 DEF Alike
  <2>3. Passes!NoStreamIds' => \A i \in DOMAIN fold_cache : i \in DOMAIN old
          /\ fold_cache[i] = [path |-> old[i][1], id |-> Final(old[i][1])]
    BY <1>1, <1>2, <2>1 DEF CacheInv
  <2>4. Passes!NoStreamIds' => \A i \in DOMAIN fold_cache' : i \in DOMAIN new
          /\ fold_cache'[i] = [path |-> new[i][1], id |-> Final(new[i][1])]
    BY <1>3, <2>2, <2>3
  <2> QED
    BY <2>1, <2>4 DEF CacheInv
<1>9. SkippedInv'
  <2>1. Alike(fold_state, End')
    BY <1>1, <1>6 DEF SkippedInv, Alike
  <2>2. fold_pos' = Len(fold_file')
    BY <1>1, <1>2 DEF SkippedInv
  <2> QED
    BY <1>1, <1>2, <1>3, <2>1, <2>2 DEF SkippedInv
<1> QED
  BY <1>7, <1>8, <1>9

\* The first pass, when it counts a sample.
LEMMA DirectCount ==
  ASSUME Passes!PassesAssumption, PassInv, fold_pc = "direct", fold_pc' = fold_pc,
         NEW r \in Passes!Record,
         r.kind = "sample", ~Passes!Skips, Passes!CountMapped(r),
           fold_file' = Append(fold_file, r), fold_pos' = fold_pos + 1
  PROVE  DirectInv' /\ CacheInv' /\ SkippedInv'
<1>1. Types /\ MeantInv /\ DirectInv /\ CacheInv /\ SkippedInv
  BY DEF PassInv
<1>2. /\ End' = Passes!After(Passes!Meanings(fold_file)[Len(fold_file)], r).state
      /\ Passes!Meanings(fold_file)[Len(fold_file)]' =
           Passes!After(Passes!Meanings(fold_file)[Len(fold_file)], r)
      /\ Continues(End', End)
      /\ Passes!NoStreamIds' => Passes!NoStreamIds
      /\ Len(fold_file') = Len(fold_file) + 1 /\ Len(fold_file) \in Nat
  BY <1>1, ReadMeant
<1>3. PICK a : a = Passes!Meanings(fold_file)[Len(fold_file)]
  OBVIOUS
<1>4. /\ fold_pos = Len(fold_file) /\ fold_state = a.state /\ fold_output = a.output
           /\ Faithful(fold_state)
      /\ End = fold_state /\ ~requires_stream_parser /\ fold_state \in States
  BY <1>1, <1>3 DEF DirectInv, Passes!Skips, End, Meant, Types
<1>5. PICK n, path : Passes!Mapping(r).source = n /\ Passes!Mapping(r).path = path
  OBVIOUS
<1>6. Counts(n, path)
  BY <1>1, <1>5, Counted
<1>7. n # 0 /\ fold_state.maps[r.region].source = n /\ fold_state.maps[r.region].path = path
  BY <1>5, <1>6 DEF Counts, Passes!Mapping
<1>8. /\ End' = Passes!Loaded(fold_state, path)
      /\ Passes!Meanings(fold_file)[Len(fold_file)]'.output =
           Append(fold_output, Passes!Resolved(Passes!Loaded(fold_state, path), path))
  BY <1>2, <1>3, <1>4, <1>7 DEF Passes!After, Passes!Sampled
<1>9. PICK t : t = Passes!Loaded(fold_state, path)
  OBVIOUS
<1>10. /\ t \in States /\ Alike(t, fold_state)
       /\ t.dsos[path].symbol_build_id # Passes!NotLoaded
       /\ \A p \in Paths : fold_state.dsos[p].symbol_build_id # Passes!NotLoaded =>
            t.dsos[p].symbol_build_id = fold_state.dsos[p].symbol_build_id
       /\ fold_state.dsos[path].symbol_build_id # Passes!NotLoaded => t = fold_state
       /\ Static(fold_state) => Static(t)
  BY <1>4, <1>6, <1>9, LoadedIs DEF Counts
<1>11. n \in DOMAIN fold_cache => fold_cache[n] = Passes!Resolved(fold_state, path)
         /\ t = fold_state
  BY <1>4, <1>6, <1>10 DEF Faithful, Counts
<1>12. fold_state' = t /\ fold_cache'[n] = Passes!Resolved(t, path)
  BY <1>4, <1>6, <1>9, <1>11 DEF Counts
<1>13. Faithful(fold_state)'
  <2> SUFFICES ASSUME NEW i \in DOMAIN fold_cache'
               PROVE  /\ i \in DOMAIN t.sources
                           /\ fold_cache'[i] = Passes!Resolved(t, t.sources[i][1])
                      /\ t.dsos[t.sources[i][1]].symbol_build_id # Passes!NotLoaded
    BY <1>12 DEF Faithful
  <2>1. t.sources = fold_state.sources
    BY <1>10 DEF Alike
  <2>2. CASE i \in DOMAIN fold_cache
    <3>1. PICK p : p = fold_state.sources[i][1]
      OBVIOUS
    <3>2. /\ i \in DOMAIN fold_state.sources /\ fold_cache[i] = Passes!Resolved(fold_state, p)
          /\ fold_state.dsos[p].symbol_build_id # Passes!NotLoaded
      BY <1>4, <2>2, <3>1 DEF Faithful
    <3>3. p \in Paths
      BY <1>4, <3>1, <3>2 DEF States
    <3>4. t.dsos[p].symbol_build_id = fold_state.dsos[p].symbol_build_id
      BY <1>10, <3>2, <3>3
    <3>5. fold_cache'[i] = fold_cache[i]
      BY <1>6, <2>2 DEF Counts
    <3> QED
      BY <2>1, <3>1, <3>2, <3>4, <3>5 DEF Passes!Resolved
  <2>3. CASE i \notin DOMAIN fold_cache
    <3>1. i = n
      BY <1>6, <2>3 DEF Counts
    <3> QED
      BY <1>6, <1>10, <1>12, <2>1, <3>1 DEF Counts
  <2> QED
    BY <2>2, <2>3
<1>14. DirectInv'
  <2>1. /\ fold_pos' = Len(fold_file') /\ fold_state' = End'
        /\ fold_output' = Passes!Meanings(fold_file)[Len(fold_file)]'.output
    BY <1>2, <1>4, <1>6, <1>8, <1>9, <1>12 DEF Counts
  <2> QED
    BY <1>13, <2>1 DEF DirectInv
<1>15. Alike(fold_state', End') /\ fold_pos' = Len(fold_file')
  BY <1>2, <1>4, <1>8, <1>9, <1>12 DEF Alike
<1>16. SkippedInv'
  <2>1. Passes!NoStreamIds' => Static(fold_state')
    BY <1>1, <1>2, <1>10, <1>12 DEF SkippedInv
  <2> QED
    BY <1>15, <2>1 DEF SkippedInv
<1>17. CacheInv'
  <2>1. CASE Passes!NoStreamIds'
    <3>1. Static(fold_state) /\ Passes!NoStreamIds
      BY <1>1, <1>2, <2>1 DEF SkippedInv
    <3> QED
      BY <1>1, <1>2, <1>4, <2>1, <3>1, CacheGrows
  <2>2. CASE ~Passes!NoStreamIds'
    BY <2>2 DEF CacheInv
  <2> QED
    BY <2>1, <2>2
<1> QED
  BY <1>14, <1>16, <1>17

\* The first pass, when nothing is mapped where a sample was taken.
LEMMA DirectUnmapped ==
  ASSUME Passes!PassesAssumption, PassInv, fold_pc = "direct", fold_pc' = fold_pc,
         NEW r \in Passes!Record,
         r.kind = "sample", ~Passes!Skips, Passes!CountUnmapped(r),
           fold_file' = Append(fold_file, r), fold_pos' = fold_pos + 1
  PROVE  DirectInv' /\ CacheInv' /\ SkippedInv'
<1>1. Types /\ MeantInv /\ DirectInv /\ CacheInv /\ SkippedInv
  BY DEF PassInv
<1>2. /\ End' = Passes!After(Passes!Meanings(fold_file)[Len(fold_file)], r).state
      /\ Passes!Meanings(fold_file)[Len(fold_file)]' =
           Passes!After(Passes!Meanings(fold_file)[Len(fold_file)], r)
      /\ Passes!NoStreamIds' => Passes!NoStreamIds
      /\ Len(fold_file') = Len(fold_file) + 1 /\ Len(fold_file) \in Nat
  BY <1>1, ReadMeant
<1>3. PICK a : a = Passes!Meanings(fold_file)[Len(fold_file)]
  OBVIOUS
<1>4. /\ fold_pos = Len(fold_file) /\ fold_state = a.state /\ fold_output = a.output
           /\ Faithful(fold_state)
      /\ End = fold_state /\ ~requires_stream_parser
  BY <1>1, <1>3 DEF DirectInv, Passes!Skips, End, Meant, Types
<1>5. /\ fold_state' = fold_state /\ fold_cache' = fold_cache
           /\ requires_stream_parser' = requires_stream_parser
      /\ fold_output' = Append(fold_output, Passes!Unmapped)
           /\ fold_state.maps[r.region].source = 0
  BY DEF Passes!CountUnmapped, Passes!Mapping
<1>6. End' = fold_state
        /\ Passes!Meanings(fold_file)[Len(fold_file)]'.output =
             Append(fold_output, Passes!Unmapped)
  BY <1>2, <1>3, <1>4, <1>5 DEF Passes!After, Passes!Sampled
<1>7. DirectInv'
  <2>1. Faithful(fold_state)'
    BY <1>4, <1>5 DEF Faithful
  <2>2. fold_pos' = Len(fold_file') /\ fold_state' = End'
          /\ fold_output' = Passes!Meanings(fold_file)[Len(fold_file)]'.output
    BY <1>2, <1>4, <1>5, <1>6
  <2> QED
    BY <2>1, <2>2 DEF DirectInv
<1>8. CacheInv'
  <2>1. PICK table : table = End.sources
    OBVIOUS
  <2>2. End'.sources = table
    BY <1>4, <1>6, <2>1
  <2>3. Passes!NoStreamIds' => \A i \in DOMAIN fold_cache : i \in DOMAIN table
          /\ fold_cache[i] = [path |-> table[i][1], id |-> Final(table[i][1])]
    BY <1>1, <1>2, <2>1 DEF CacheInv
  <2> QED
    BY <1>5, <2>2, <2>3 DEF CacheInv
<1>9. SkippedInv'
  <2>1. Alike(fold_state', End') /\ fold_pos' = Len(fold_file')
    BY <1>2, <1>4, <1>5, <1>6 DEF Alike
  <2>2. Passes!NoStreamIds' => Static(fold_state')
    BY <1>1, <1>2, <1>5 DEF SkippedInv
  <2> QED
    BY <2>1, <2>2 DEF SkippedInv
<1> QED
  BY <1>7, <1>8, <1>9

LEMMA DirectStep ==
  ASSUME Passes!PassesAssumption, PassInv, Passes!ApplyDirect
  PROVE  PassInv'
<1>1. PICK r \in Passes!Record : (Passes!Metadata(r) \/ Passes!Sample(r))
        /\ fold_file' = Append(fold_file, r)
  BY DEF Passes!ApplyDirect
<1>2. fold_pc = "direct" /\ Len(fold_file) < FoldRecords /\ fold_pos' = fold_pos + 1
        /\ fold_pc' = fold_pc
  BY DEF Passes!ApplyDirect
<1>3. Types /\ MeantInv /\ SkippedInv
  BY DEF PassInv
<1>4. MeantInv' /\ fold_file' \in Seq(Passes!Record) /\ Len(fold_file') = Len(fold_file) + 1
        /\ Len(fold_file) \in Nat
  BY <1>1, <1>3, ReadMeant
<1>5. Types'
  <2>1. /\ fold_state' \in States /\ Sourced(fold_state')
        /\ requires_stream_parser' \in BOOLEAN /\ fold_output' \in Seq(Passes!Frame)
        /\ \A i \in DOMAIN fold_cache' : fold_cache'[i] \in Passes!Frame
    BY <1>1, <1>3, StepTypes
  <2>2. Len(fold_file') <= FoldRecords /\ fold_pos' \in 0 .. Len(fold_file')
    BY <1>2, <1>3, <1>4 DEF SkippedInv, Passes!PassesAssumption
  <2> QED
    BY <1>2, <1>4, <2>1, <2>2 DEF Types
<1>6. DirectInv' /\ CacheInv' /\ SkippedInv'
  <2>1. CASE Passes!Metadata(r)
    BY <1>1, <1>2, <2>1, DirectMetadata
  <2>2. CASE r.kind = "sample" /\ Passes!SkipSample
    BY <1>1, <1>2, <2>2, DirectSkip
  <2>3. CASE r.kind = "sample" /\ ~Passes!Skips /\ Passes!CountMapped(r)
    BY <1>1, <1>2, <2>3, DirectCount
  <2>4. CASE r.kind = "sample" /\ ~Passes!Skips /\ Passes!CountUnmapped(r)
    BY <1>1, <1>2, <2>4, DirectUnmapped
  <2> QED
    BY <1>1, <1>2, <2>1, <2>2, <2>3, <2>4 DEF Passes!Sample
<1>7. StreamInv'
  BY <1>2 DEF StreamInv
<1> QED
  BY <1>4, <1>5, <1>6, <1>7 DEF PassInv

\* What depends on the recording only.
LEMMA RecordingKept ==
  ASSUME MeantInv, fold_file' = fold_file
  PROVE  /\ MeantInv' /\ (Passes!NoStreamIds' <=> Passes!NoStreamIds) /\ End' = End
         /\ \A i : Passes!Meanings(fold_file)[i]' = Passes!Meanings(fold_file)[i]
<1>1. PICK m : m = Passes!Meanings(fold_file)
  OBVIOUS
<1>2. Passes!Meanings(fold_file') = m
  BY <1>1
<1>3. Passes!NoStreamIds' <=> Passes!NoStreamIds
  BY DEF Passes!NoStreamIds
<1> QED
  BY <1>1, <1>2, <1>3, Zenon DEF MeantInv, Meant, End

\* The second pass, over a recording without BUILD_ID records.
LEMMA StreamRecord ==
  ASSUME Passes!PassesAssumption, PassInv, fold_pc = "stream", fold_pos < Len(fold_file),
         NEW r \in Passes!Record,
         r = fold_file[fold_pos + 1], Passes!Metadata(r) \/ Passes!Sample(r),
           fold_file' = fold_file, fold_pc' = fold_pc, fold_pos' = fold_pos + 1,
         Passes!NoStreamIds
  PROVE  /\ CacheInv'
         /\ fold_state' = Meant(fold_pos + 1)
              /\ fold_output' = Passes!Meanings(fold_file)[fold_pos + 1].output
<1>1. Types /\ MeantInv /\ CacheInv /\ StreamInv
  BY DEF PassInv
<1>2. PICK a, new : a = Passes!Meanings(fold_file)[fold_pos]
        /\ new = Passes!Meanings(fold_file)[fold_pos + 1]
  OBVIOUS
<1>3. fold_pos \in 0 .. Len(fold_file) /\ Len(fold_file) \in Nat
        /\ fold_pos + 1 \in 1 .. Len(fold_file) /\ (fold_pos + 1) - 1 = fold_pos
  BY <1>1, LenProperties DEF Types
<1>4. new = Passes!After(a, r)
  BY <1>2, <1>3, MeaningsAre
<1>5. /\ fold_state = a.state /\ fold_output = a.output /\ Static(fold_state)
           /\ fold_state \in States
      /\ Continues(End, fold_state)
  BY <1>1, <1>2, <1>3 DEF StreamInv, MeantInv, Meant, Types
<1>6. End' = End /\ Passes!NoStreamIds' /\ Continues(End', End)
  <2>1. End' = End /\ Passes!NoStreamIds'
    BY <1>1, RecordingKept
  <2> QED
    BY <2>1 DEF Continues
<1>7. ASSUME fold_cache' = fold_cache PROVE CacheInv'
  BY <1>1, <1>6, <1>7 DEF CacheInv, Final
<1>8. CASE Passes!Metadata(r)
  <2>1. r.kind # "sample" /\ fold_state' = Passes!ApplyMetadata(fold_state, r)
          /\ fold_cache' = fold_cache /\ fold_output' = fold_output
    BY <1>8 DEF Passes!Metadata
  <2>2. fold_state' = new.state /\ fold_output' = new.output
    BY <1>4, <1>5, <2>1 DEF Passes!After
  <2> QED
    BY <1>2, <1>7, <2>1, <2>2 DEF Meant
<1>9. CASE r.kind = "sample" /\ Passes!CountUnmapped(r)
  <2>1. /\ fold_state' = fold_state /\ fold_cache' = fold_cache
             /\ fold_output' = Append(fold_output, Passes!Unmapped)
        /\ fold_state.maps[r.region].source = 0
    BY <1>9 DEF Passes!CountUnmapped, Passes!Mapping
  <2>2. fold_state' = new.state /\ fold_output' = new.output
    BY <1>4, <1>5, <1>9, <2>1 DEF Passes!After, Passes!Sampled
  <2> QED
    BY <1>2, <1>7, <2>1, <2>2 DEF Meant
<1>10. CASE r.kind = "sample" /\ Passes!CountMapped(r)
  <2>1. PICK n, path : Passes!Mapping(r).source = n /\ Passes!Mapping(r).path = path
    OBVIOUS
  <2>2. Counts(n, path)
    BY <1>1, <1>10, <2>1, Counted
  <2>3. n # 0 /\ fold_state.maps[r.region].source = n /\ fold_state.maps[r.region].path = path
    BY <2>1, <2>2 DEF Counts, Passes!Mapping
  <2>4. PICK t : t = Passes!Loaded(fold_state, path)
    OBVIOUS
  <2>5. fold_state' = t
    BY <2>2, <2>4 DEF Counts
  <2>6. t.dsos[path].symbol_build_id = Final(path)
    BY <1>5, <2>2, <2>4, LoadedIs DEF Counts
  <2>7. new.state = t /\ new.output = Append(fold_output, Passes!Resolved(t, path))
    BY <1>4, <1>5, <1>10, <2>3, <2>4 DEF Passes!After, Passes!Sampled
  <2>8. fold_cache'[n] = Passes!Resolved(t, path)
    <3>1. CASE n \in DOMAIN fold_cache
      <4>1. /\ fold_cache'[n] = fold_cache[n]
                 /\ fold_cache[n] =
                      [path |-> End.sources[n][1], id |-> Final(End.sources[n][1])]
            /\ End.sources[n][1] = path
        BY <1>1, <1>5, <2>2, <3>1 DEF Counts, CacheInv, Continues
      <4> QED
        BY <2>6, <4>1 DEF Passes!Resolved
    <3>2. CASE n \notin DOMAIN fold_cache
      BY <2>2, <2>4, <3>2 DEF Counts
    <3> QED
      BY <3>1, <3>2
  <2>9. fold_state' = new.state /\ fold_output' = new.output
    BY <2>2, <2>5, <2>7, <2>8 DEF Counts
  <2>10. CacheInv'
    BY <1>1, <1>5, <1>6, <1>10, CacheGrows DEF Continues
  <2> QED
    BY <1>2, <2>9, <2>10 DEF Meant
<1> QED
  BY <1>8, <1>9, <1>10 DEF Passes!Sample, Passes!SkipSample

LEMMA StreamStep ==
  ASSUME Passes!PassesAssumption, PassInv, Passes!ApplyStream
  PROVE  PassInv'
<1>1. /\ fold_pc = "stream" /\ fold_pos < Len(fold_file) /\ fold_pos' = fold_pos + 1
           /\ fold_pc' = fold_pc /\ fold_file' = fold_file
      /\ Passes!Metadata(fold_file[fold_pos + 1]) \/ Passes!Sample(fold_file[fold_pos + 1])
  BY DEF Passes!ApplyStream
<1>2. Types /\ MeantInv /\ StreamInv /\ CacheInv
  BY DEF PassInv
<1>3. Len(fold_file) \in Nat /\ fold_pos + 1 \in 1 .. Len(fold_file)
  BY <1>1, <1>2, LenProperties DEF Types
<1>4. PICK r \in Passes!Record : r = fold_file[fold_pos + 1]
  BY <1>2, <1>3 DEF Types
<1>5. /\ MeantInv' /\ (Passes!NoStreamIds' <=> Passes!NoStreamIds)
           /\ \A i : Passes!Meanings(fold_file)[i]' = Passes!Meanings(fold_file)[i]
  BY <1>1, <1>2, RecordingKept
<1>6. requires_stream_parser /\ requires_stream_parser'
  BY <1>1, <1>2, <1>4, StepTypes DEF StreamInv
<1>7. Types'
  <2>1. /\ fold_state' \in States /\ Sourced(fold_state')
        /\ requires_stream_parser' \in BOOLEAN /\ fold_output' \in Seq(Passes!Frame)
        /\ \A i \in DOMAIN fold_cache' : fold_cache'[i] \in Passes!Frame
    BY <1>1, <1>2, <1>4, StepTypes
  <2>2. fold_pos' \in 0 .. Len(fold_file')
    BY <1>1, <1>3
  <2> QED
    BY <1>1, <1>2, <2>1, <2>2 DEF Types
<1>8. CASE Passes!NoStreamIds
  <2>1. CacheInv' /\ fold_state' = Meant(fold_pos + 1)
          /\ fold_output' = Passes!Meanings(fold_file)[fold_pos + 1].output
    BY <1>1, <1>4, <1>8, StreamRecord
  <2>2. StreamInv'
    BY <1>1, <1>5, <1>6, <2>1 DEF StreamInv, Meant
  <2> QED
    BY <1>1, <1>5, <1>6, <1>7, <2>1, <2>2 DEF PassInv, DirectInv, SkippedInv
<1>9. CASE ~Passes!NoStreamIds
  <2>1. CacheInv' /\ StreamInv'
    BY <1>1, <1>5, <1>6, <1>9 DEF CacheInv, StreamInv
  <2> QED
    BY <1>1, <1>5, <1>6, <1>7, <2>1 DEF PassInv, DirectInv, SkippedInv
<1> QED
  BY <1>8, <1>9

\* The first pass ends: the second begins, or the fold is done.
LEMMA EndDirectStep ==
  ASSUME Passes!PassesAssumption, PassInv, Passes!EndDirect
  PROVE  PassInv'
<1>1. /\ fold_pc = "direct" /\ fold_file' = fold_file /\ fold_cache' = fold_cache
      /\ requires_stream_parser' = requires_stream_parser
  BY DEF Passes!EndDirect
<1>2. Types /\ MeantInv /\ DirectInv /\ SkippedInv /\ CacheInv /\ StreamInv
  BY DEF PassInv
<1>3. /\ MeantInv' /\ (Passes!NoStreamIds' <=> Passes!NoStreamIds) /\ End' = End
      /\ \A i : Passes!Meanings(fold_file)[i]' = Passes!Meanings(fold_file)[i]
  BY <1>1, <1>2, RecordingKept
<1>4. CacheInv'
  BY <1>1, <1>2, <1>3 DEF CacheInv, Final
<1>5. CASE requires_stream_parser
  <2>1. /\ fold_pc' = "stream" /\ fold_pos' = 0 /\ fold_output' = <<>>
        /\ fold_state' = Passes!NewState(fold_state.header_build_ids)
    BY <1>5 DEF Passes!EndDirect
  <2>2. fold_state.header_build_ids \in [Paths -> Passes!Ids] /\ Len(fold_file) \in Nat
    BY <1>2, LenProperties DEF Types, States
  <2>3. fold_state' \in States /\ Sourced(fold_state')
    BY <2>1, <2>2, NewStateIs
  <2>4. Types'
    <3>1. <<>> \in Seq(Passes!Frame) /\ 0 \in 0 .. Len(fold_file)
      BY <2>2
    <3> QED
      BY <1>1, <1>2, <2>1, <2>3, <3>1 DEF Types
  <2>5. Passes!NoStreamIds => fold_state' = Meant(0)
          /\ fold_output' = Passes!Meanings(fold_file)[0].output
    <3>1. Passes!Meanings(fold_file)[0] = Passes!Beginning
      BY <2>2, MeaningsAre
    <3>2. Passes!NoStreamIds => fold_state.header_build_ids = HeaderIds
      BY <1>1, <1>2 DEF SkippedInv, Static
    <3> QED
      BY <2>1, <3>1, <3>2 DEF Meant, Passes!Beginning
  <2>6. StreamInv'
    BY <1>1, <1>3, <1>5, <2>1, <2>5 DEF StreamInv, Meant
  <2> QED
    BY <1>1, <1>3, <1>4, <1>5, <2>1, <2>4, <2>6 DEF PassInv, DirectInv, SkippedInv
<1>6. CASE ~requires_stream_parser
  <2>1. fold_pc' = "done" /\ fold_pos' = fold_pos /\ fold_state' = fold_state
          /\ fold_output' = fold_output
    BY <1>6 DEF Passes!EndDirect
  <2>2. Types'
    BY <1>1, <1>2, <2>1 DEF Types
  <2>3. DirectInv'
    BY <1>1, <1>2, <1>3, <1>6, <2>1 DEF DirectInv, Faithful
  <2> QED
    BY <1>1, <1>3, <1>4, <1>6, <2>1, <2>2, <2>3 DEF PassInv, SkippedInv, StreamInv
<1> QED
  BY <1>5, <1>6

\* Only the place in the program changes.
LEMMA OtherSteps ==
  ASSUME Passes!PassesAssumption, PassInv,
         Passes!EndStream \/ Passes!Fails \/ UNCHANGED Passes!vars
  PROVE  PassInv'
<1>1. UNCHANGED <<fold_file, fold_pos, fold_state, fold_cache, requires_stream_parser, fold_output>>
  BY DEF Passes!EndStream, Passes!Fails, Passes!vars
<1>2. Types /\ MeantInv /\ DirectInv /\ SkippedInv /\ CacheInv /\ StreamInv
  BY DEF PassInv
<1>3. /\ MeantInv' /\ (Passes!NoStreamIds' <=> Passes!NoStreamIds) /\ End' = End
      /\ \A i : Passes!Meanings(fold_file)[i]' = Passes!Meanings(fold_file)[i]
  BY <1>1, <1>2, RecordingKept
<1>4. CacheInv'
  BY <1>1, <1>2, <1>3 DEF CacheInv, Final
<1>5. \/ fold_pc' = fold_pc
      \/ fold_pc = "stream" /\ fold_pos = Len(fold_file) /\ fold_pc' = "done"
      \/ fold_pc' = "failed"
  BY DEF Passes!EndStream, Passes!Fails, Passes!vars
<1>6. Types'
  BY <1>1, <1>2, <1>5 DEF Types
<1>7. DirectInv'
  BY <1>1, <1>2, <1>3, <1>5 DEF DirectInv, Faithful, StreamInv
<1>8. SkippedInv'
  BY <1>1, <1>2, <1>3, <1>5 DEF SkippedInv
<1>9. StreamInv'
  BY <1>1, <1>2, <1>3, <1>5 DEF StreamInv, Meant
<1> QED
  BY <1>3, <1>4, <1>6, <1>7, <1>8, <1>9 DEF PassInv

\* A fold is exact, and its variables keep their types.
LEMMA PassInvIsExact ==
  ASSUME Passes!PassesAssumption, PassInv
  PROVE  Passes!FoldExact
<1>1. Types /\ DirectInv /\ StreamInv
  BY DEF PassInv
<1>2. Passes!TypeOK
  <2>1. /\ fold_state.header_build_ids \in [Paths -> Passes!Ids]
             /\ fold_state.comm \in Passes!Comms
        /\ \A p \in Paths : fold_state.dsos[p].symbol_build_id \in
             Passes!Ids \cup {Passes!NotLoaded}
    BY <1>1 DEF Types, States, Dso
  <2>2. \A r \in Regions : fold_state.maps[r].source \in 0 .. Len(fold_state.sources)
    <3> SUFFICES ASSUME NEW r \in Regions
                 PROVE  fold_state.maps[r].source \in 0 .. Len(fold_state.sources)
      OBVIOUS
    <3>1. /\ fold_state.maps[r].source \in Nat
               /\ fold_state.sources \in Seq(Paths \X Passes!Ids)
          /\ fold_state.maps[r].source > 0 =>
               fold_state.maps[r].source \in DOMAIN fold_state.sources
      BY <1>1 DEF Types, States, Sourced
    <3>2. DOMAIN fold_state.sources = 1 .. Len(fold_state.sources)
            /\ Len(fold_state.sources) \in Nat
      BY <3>1, LenProperties
    <3> QED
      BY <3>1, <3>2
  <2> QED
    BY <1>1, <2>1, <2>2 DEF Passes!TypeOK, Types
<1>3. Passes!PassExact
  BY <1>1 DEF Passes!PassExact, DirectInv, StreamInv, Passes!Meaning, Types
<1> QED
  BY <1>2, <1>3 DEF Passes!FoldExact

THEOREM FoldIsExact == Passes!Spec => []FoldExact
<1>1. Passes!Init => PassInv
  BY PassesConstants, InitPass
<1>2. PassInv /\ [Passes!Next]_(Passes!vars) => PassInv'
  BY PassesConstants, DirectStep, StreamStep, EndDirectStep, OtherSteps
     DEF Passes!Next, Passes!Ended
<1>3. PassInv => FoldExact
  BY PassesConstants, PassInvIsExact DEF FoldExact
<1> QED
  BY <1>1, <1>2, <1>3, PTL DEF Passes!Spec
=============================================================================
