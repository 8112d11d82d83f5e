------------------------- MODULE ResolutionProofs -------------------------
(***************************************************************************)
(* What DsoMemorySources and SymbolFrameCache promise.                     *)
(*                                                                         *)
(* Of the memory, for any sources, offsets, limits of descriptors, and     *)
(* sizes of objects, blocks and words that are no larger than a block: a   *)
(* word read is the file's, the files that are open are exactly those that *)
(* wait to be evicted, fewer than the limit, and what the first open of a  *)
(* source decided stays.  Least and greatest numbers and the length of a   *)
(* queue come first, then what closing the oldest files, a retried open    *)
(* and a block that is kept do to the descriptors and the blocks, then the *)
(* steps.                                                                  *)
(*                                                                         *)
(* Of the cache, for any recording and any answers of the resolver: frames *)
(* are served as the resolver gives them.  Hints and tables come first,    *)
(* then batches, then the resolver and the operations of the whole cache,  *)
(* then the steps.                                                         *)
(***************************************************************************)
EXTENDS Resolution, FunctionTheorems, FiniteSetTheorems, SequenceTheorems,
        WellFoundedInduction, NaturalsInduction, TLAPS

-----------------------------------------------------------------------------
(* Numbers.                                                                  *)

\* The lesser of two numbers.
LEMMA MinPair ==
  ASSUME NEW a \in Int, NEW b \in Int
  PROVE  Min({a, b}) = IF a <= b THEN a ELSE b
<1> DEFINE m == IF a <= b THEN a ELSE b
<1>1. m \in {a, b} /\ \A y \in {a, b} : m <= y
  OBVIOUS
<1>2. \A x \in {a, b} : (\A y \in {a, b} : x <= y) => x = m
  OBVIOUS
<1> QED
  BY <1>1, <1>2 DEF Min

\* The greater one.
LEMMA MaxPair ==
  ASSUME NEW a \in Int, NEW b \in Int
  PROVE  Max({a, b}) = IF a >= b THEN a ELSE b
<1> DEFINE m == IF a >= b THEN a ELSE b
<1>1. m \in {a, b} /\ \A y \in {a, b} : m >= y
  OBVIOUS
<1>2. \A x \in {a, b} : (\A y \in {a, b} : x >= y) => x = m
  OBVIOUS
<1> QED
  BY <1>1, <1>2 DEF Max

\* A set of numbers with a greatest one has it as its Max.
LEMMA MaxIs ==
  ASSUME NEW S \in SUBSET Nat, NEW m \in S, \A n \in S : n <= m
  PROVE  Max(S) = m
<1>1. m \in S /\ \A y \in S : m >= y
  OBVIOUS
<1>2. \A x \in S : (\A y \in S : x >= y) => x = m
  OBVIOUS
<1> QED
  BY <1>1, <1>2 DEF Max

\* A nonempty set of numbers has a least one, its Min.
LEMMA MinIn ==
  ASSUME NEW S \in SUBSET Nat, S # {}
  PROVE  Min(S) \in S /\ \A m \in S : Min(S) <= m
<1>1. PICK n \in S : \A m \in S : ~ (<<m, n>> \in OpToRel(<, Nat))
  BY NatLessThanWellFounded, WFMin, Zenon
<1>2. \A m \in S : ~ (m < n)
  BY <1>1, Zenon DEF OpToRel
<1>3. n \in S /\ \A y \in S : n <= y
  BY <1>2
<1> QED
  BY <1>3 DEF Min

-----------------------------------------------------------------------------
(* The invariant.                                                            *)

Sources == {Absent, Unusable} \cup UNION {DsoMemories(S) : S \in SUBSET (0 .. Length)}
States == [sources : [Ids -> Sources], open_order : Seq(Ids)]

\* What a source knows of its file: a block is what the file has there.
BlockOf(path, start) == Bytes(path, start, Min({Length, start + Block}))
Faithful(s) ==
  /\ s.len = IF s.file THEN Length ELSE 0
  /\ \A start \in DOMAIN s.blocks : s.blocks[start] = BlockOf(s.path, start)

\* The queue holds the open files, each once.
Queued(st) ==
  /\ \A i \in 1 .. Len(st.open_order) : st.open_order[i] \in Open(st)
  /\ \A id \in Open(st) : \E i \in 1 .. Len(st.open_order) : st.open_order[i] = id
  /\ \A i, j \in 1 .. Len(st.open_order) : st.open_order[i] = st.open_order[j] => i = j

Good(st) ==
  /\ st \in States /\ Queued(st)
  /\ \A id \in Ids : Known(st, id) => Faithful(st.sources[id])

Few(st) == Len(st.open_order) <= Max({1, FdLimit - 1})

\* The last read got the word of the file of its source.
LastExact ==
  /\ last.usable => last.id \in Ids /\ Known(State, last.id)
  /\ ReadExact

MemoryInv ==
  /\ Good(State) /\ Few(State) /\ LastExact
  /\ present \subseteq Files /\ others \in 0 .. MaxFds

\* What closing and opening other files leaves of a source.
Alike(st, u, id) ==
  /\ st.sources[id] \in {Absent, Unusable} => u.sources[id] = st.sources[id]
  /\ Known(st, id) => /\ Known(u, id)
                      /\ u.sources[id].path = st.sources[id].path
                      /\ u.sources[id].failed = st.sources[id].failed

\* A source that is known is a DsoMemory, and conversely.
LEMMA KnownSource ==
  ASSUME NEW s \in Sources
  PROVE  /\ s \notin {Absent, Unusable} <=> \E S \in SUBSET (0 .. Length) : s \in DsoMemories(S)
         /\ s \notin {Absent, Unusable} =>
              /\ s = [file |-> s.file, path |-> s.path, len |-> s.len, failed |-> s.failed,
                      blocks |-> s.blocks]
              /\ s.file \in BOOLEAN /\ s.path \in Files /\ s.len \in {0, Length}
              /\ s.failed \in BOOLEAN
              /\ DOMAIN s.blocks \subseteq 0 .. Length
              /\ s.blocks \in [DOMAIN s.blocks -> Seq(Files \X Nat)]
<1>1. \A S \in SUBSET (0 .. Length) : Absent \notin DsoMemories(S) /\ Unusable \notin DsoMemories(S)
  BY DsoAssumption
<1>2. s \notin {Absent, Unusable} <=> \E S \in SUBSET (0 .. Length) : s \in DsoMemories(S)
  BY <1>1 DEF Sources
<1>3. ASSUME NEW S \in SUBSET (0 .. Length), s \in DsoMemories(S)
      PROVE  /\ s = [file |-> s.file, path |-> s.path, len |-> s.len, failed |-> s.failed,
                     blocks |-> s.blocks]
             /\ s.file \in BOOLEAN /\ s.path \in Files /\ s.len \in {0, Length}
             /\ s.failed \in BOOLEAN
             /\ DOMAIN s.blocks \subseteq 0 .. Length
             /\ s.blocks \in [DOMAIN s.blocks -> Seq(Files \X Nat)]
  BY <1>3 DEF DsoMemories
<1> QED
  BY <1>2, <1>3

\* A record of such parts is a source that is known.
LEMMA MadeSource ==
  ASSUME NEW file \in BOOLEAN, NEW path \in Files, NEW len \in {0, Length},
         NEW failed \in BOOLEAN, NEW blocks, DOMAIN blocks \subseteq 0 .. Length,
         blocks \in [DOMAIN blocks -> Seq(Files \X Nat)],
         NEW s, s = [file |-> file, path |-> path, len |-> len, failed |-> failed,
                     blocks |-> blocks]
  PROVE  s \in Sources /\ s \notin {Absent, Unusable}
<1>1. s \in DsoMemories(DOMAIN blocks)
  BY DEF DsoMemories
<1>2. DOMAIN blocks \in SUBSET (0 .. Length)
  OBVIOUS
<1>3. s \in Sources
  BY <1>1, <1>2 DEF Sources
<1> QED
  BY <1>1, <1>2, <1>3, KnownSource

-----------------------------------------------------------------------------
(* Closing files.                                                            *)

\* All the files in the queue can be closed.
LEMMA AllClosable ==
  ASSUME NEW st, Good(st)
  PROVE  Closable(st) = Len(st.open_order) /\ Len(st.open_order) \in Nat
<1>1. Len(st.open_order) \in Nat
  BY LenProperties DEF Good, States
<1> DEFINE S == {n \in 0 .. Len(st.open_order) : \A i \in 1 .. n : st.open_order[i] \in Open(st)}
<1>2. Len(st.open_order) \in S
  BY <1>1 DEF Good, Queued
<1>3. S \in SUBSET Nat /\ \A n \in S : n <= Len(st.open_order)
  BY <1>1
<1>4. Max(S) = Len(st.open_order)
  BY <1>2, <1>3, MaxIs
<1> QED
  BY <1>1, <1>4 DEF Closable

\* Closing the oldest leaves a good state without them.
LEMMA ClosedGood ==
  ASSUME NEW st, Good(st), NEW n \in 0 .. Len(st.open_order)
  PROVE  /\ Good(Closed(st, n))
         /\ Open(Closed(st, n)) = {st.open_order[i] : i \in n + 1 .. Len(st.open_order)}
         /\ Len(Closed(st, n).open_order) = Len(st.open_order) - n
         /\ \A id \in Ids : Alike(st, Closed(st, n), id)
<1> DEFINE oo == st.open_order
           c == Closed(st, n)
           Oldest == {oo[i] : i \in 1 .. n}
<1>1. /\ oo \in Seq(Ids) /\ Len(oo) \in Nat /\ n \in Nat /\ n <= Len(oo)
      /\ st.sources \in [Ids -> Sources] /\ Queued(st)
      /\ \A id \in Ids : Known(st, id) => Faithful(st.sources[id])
  BY LenProperties DEF Good, States
<1>2. /\ SubSeq(oo, 1, n) \in Seq(Ids) /\ Len(SubSeq(oo, 1, n)) = n
      /\ \A i \in 1 .. n : SubSeq(oo, 1, n)[i] = oo[i]
  BY <1>1, SubSeqProperties
<1>3. /\ SubSeq(oo, n + 1, Len(oo)) \in Seq(Ids) /\ Len(SubSeq(oo, n + 1, Len(oo))) = Len(oo) - n
      /\ \A i \in 1 .. Len(oo) - n : SubSeq(oo, n + 1, Len(oo))[i] = oo[n + i]
  BY <1>1, SubSeqProperties
<1>4. ToSet(SubSeq(oo, 1, n)) = Oldest
  <2> DEFINE w == SubSeq(oo, 1, n)
  <2>1. DOMAIN w = 1 .. n /\ \A i \in 1 .. n : w[i] = oo[i]
    BY <1>2
  <2> HIDE DEF w
  <2>2. ToSet(w) = {oo[i] : i \in 1 .. n}
    BY <2>1 DEF ToSet
  <2> QED
    BY <2>2 DEF w
<1>5. \A id \in Oldest : id \in Ids /\ Known(st, id) /\ st.sources[id].file
  BY <1>1 DEF Queued, Open
<1>6. /\ c.open_order = SubSeq(oo, n + 1, Len(oo))
      /\ c.sources = [id \in Ids |-> IF id \in Oldest
                        THEN [st.sources[id] EXCEPT !.file = FALSE, !.len = 0]
                        ELSE st.sources[id]]
      /\ c = [sources |-> c.sources, open_order |-> c.open_order]
  BY <1>4 DEF Closed, ClosedSources
<1>7. ASSUME NEW id \in Oldest
      PROVE  /\ c.sources[id] \in Sources /\ Known(c, id) /\ Faithful(c.sources[id])
             /\ ~c.sources[id].file
             /\ c.sources[id].path = st.sources[id].path
             /\ c.sources[id].failed = st.sources[id].failed
  <2> DEFINE s == st.sources[id]
  <2>1. /\ s \in Sources /\ s \notin {Absent, Unusable} /\ Faithful(s)
    BY <1>1, <1>5, <1>7 DEF Known
  <2>2. /\ s = [file |-> s.file, path |-> s.path, len |-> s.len, failed |-> s.failed,
                blocks |-> s.blocks]
        /\ s.path \in Files /\ s.failed \in BOOLEAN /\ DOMAIN s.blocks \subseteq 0 .. Length
        /\ s.blocks \in [DOMAIN s.blocks -> Seq(Files \X Nat)]
    BY <2>1, KnownSource
  <2>3. PICK S \in SUBSET (0 .. Length) : s \in DsoMemories(S)
    BY <2>1, KnownSource
  <2>4. c.sources[id] = [s EXCEPT !.file = FALSE, !.len = 0]
    BY <1>5, <1>6, <1>7
  <2>5. /\ c.sources[id] \in DsoMemories(S)
        /\ c.sources[id].file = FALSE /\ c.sources[id].path = s.path /\ c.sources[id].len = 0
        /\ c.sources[id].failed = s.failed /\ c.sources[id].blocks = s.blocks
    <3> HIDE DEF s, c
    <3> QED
      BY <2>3, <2>4 DEF DsoMemories
  <2>6. c.sources[id] \in Sources
    BY <2>5 DEF Sources
  <2>7. Known(c, id)
    BY <2>5, <2>6, KnownSource DEF Known
  <2>8. Faithful(c.sources[id])
    BY <2>1, <2>5 DEF Faithful
  <2> QED
    BY <2>5, <2>6, <2>7, <2>8
<1>8. \A id \in Ids \ Oldest : c.sources[id] = st.sources[id]
  BY <1>6
<1>9. \A id \in Ids : c.sources[id] \in Sources
  BY <1>1, <1>7, <1>8
<1>10. c \in States
  BY <1>3, <1>6, <1>9 DEF States
<1>11. Open(c) = Open(st) \ Oldest
  BY <1>7, <1>8 DEF Open, Known
<1>12. Open(c) = {oo[i] : i \in n + 1 .. Len(oo)}
  <2>1. \A i \in n + 1 .. Len(oo) : oo[i] \in Open(c)
    BY <1>1, <1>11 DEF Queued
  <2>2. \A id \in Open(c) : \E i \in n + 1 .. Len(oo) : oo[i] = id
    BY <1>1, <1>11 DEF Queued
  <2> QED
    BY <2>1, <2>2
<1>13. Queued(c)
  <2>1. Len(c.open_order) = Len(oo) - n
    BY <1>3, <1>6
  <2>2. \A i \in 1 .. Len(oo) - n : c.open_order[i] = oo[n + i]
    BY <1>3, <1>6
  <2>3. \A i, j \in 1 .. Len(oo) : oo[i] = oo[j] => i = j
    BY <1>1 DEF Queued
  <2> HIDE DEF oo, c
  <2>4. \A i \in 1 .. Len(oo) - n : n + i \in n + 1 .. Len(oo) /\ n + i \in 1 .. Len(oo)
    BY <1>1
  <2>5. \A i \in 1 .. Len(c.open_order) : c.open_order[i] \in Open(c)
    BY <1>12, <2>1, <2>2, <2>4
  <2>6. ASSUME NEW id \in Open(c) PROVE \E i \in 1 .. Len(c.open_order) : c.open_order[i] = id
    <3>1. PICK k \in n + 1 .. Len(oo) : oo[k] = id
      BY <1>12, <2>6
    <3>2. k - n \in 1 .. Len(oo) - n /\ n + (k - n) = k
      BY <1>1, <3>1
    <3> QED
      BY <2>1, <2>2, <3>1, <3>2
  <2>7. \A i, j \in 1 .. Len(c.open_order) : c.open_order[i] = c.open_order[j] => i = j
    <3>1. \A i, j \in 1 .. Len(oo) - n : n + i = n + j => i = j
      BY <1>1
    <3> QED
      BY <2>1, <2>2, <2>3, <2>4, <3>1
  <2> QED
    BY <2>5, <2>6, <2>7 DEF Queued
<1>14. \A id \in Ids : Known(c, id) => Faithful(c.sources[id])
  BY <1>1, <1>7, <1>8 DEF Known
<1>15. \A id \in Ids : Alike(st, c, id)
  BY <1>5, <1>7, <1>8 DEF Alike, Known
<1> QED
  BY <1>3, <1>6, <1>10, <1>12, <1>13, <1>14, <1>15 DEF Good

\* A file that exists is not opened only if the rest of the process holds every
\* descriptor, and then all others have been closed for it.
LEMMA EvictionGood ==
  ASSUME NEW st, Good(st), NEW path, others \in 0 .. MaxFds
  PROVE  LET r == OpenWithEviction(st, path) IN
         /\ Good(r.st) /\ Len(r.st.open_order) <= Len(st.open_order)
         /\ Open(r.st) \subseteq Open(st) /\ \A id \in Ids : Alike(st, r.st, id)
         /\ r.path = path /\ r.ok \in BOOLEAN
         /\ path \in present /\ ~r.ok => others = MaxFds /\ Open(r.st) = {}
<1> DEFINE r == OpenWithEviction(st, path)
           S == {n \in 0 .. Closable(st) : Free(Closed(st, n)) \/ n = Closable(st)}
           e == Evictions(st)
<1>1. Closable(st) = Len(st.open_order) /\ Len(st.open_order) \in Nat
  BY AllClosable
<1>2. S \in SUBSET Nat /\ Closable(st) \in S
  BY <1>1
<1>3. e \in S
  BY <1>2, MinIn DEF Evictions
<1>4. e \in 0 .. Len(st.open_order) /\ (Free(Closed(st, e)) \/ e = Len(st.open_order))
  BY <1>1, <1>3
<1> HIDE DEF e
<1>5. /\ Good(Closed(st, e))
      /\ Open(Closed(st, e)) = {st.open_order[i] : i \in e + 1 .. Len(st.open_order)}
      /\ Len(Closed(st, e).open_order) = Len(st.open_order) - e
      /\ \A id \in Ids : Alike(st, Closed(st, e), id)
  BY <1>4, ClosedGood
<1>6. \A id \in Ids : Alike(st, st, id)
  BY DEF Alike
<1>7. CASE path \notin present
  <2>1. r = [ok |-> FALSE, st |-> st, path |-> path]
    BY <1>7 DEF OpenWithEviction
  <2>2. Len(st.open_order) <= Len(st.open_order)
    BY <1>1
  <2> QED
    BY <1>6, <1>7, <2>1, <2>2
<1>8. CASE path \in present
  <2>1. r = [ok |-> Free(Closed(st, e)), st |-> Closed(st, e), path |-> path]
    <3>1. (path \in present /\ Free(Closed(st, e))) = Free(Closed(st, e))
      BY <1>8 DEF Free
    <3> QED
      BY <1>8, <3>1 DEF OpenWithEviction, e
  <2>2. Free(Closed(st, e)) \in BOOLEAN
    BY DEF Free
  <2>3. \A i \in e + 1 .. Len(st.open_order) : st.open_order[i] \in Open(st)
    <3>1. \A i \in e + 1 .. Len(st.open_order) : i \in 1 .. Len(st.open_order)
      BY <1>1, <1>4
    <3> QED
      BY <3>1 DEF Good, Queued
  <2>4. Len(st.open_order) - e <= Len(st.open_order)
    BY <1>1, <1>4
  <2>5. ASSUME ~Free(Closed(st, e)) PROVE others = MaxFds /\ Open(Closed(st, e)) = {}
    <3>1. e = Len(st.open_order)
      BY <1>4, <2>5
    <3>2. Open(Closed(st, e)) = {}
      BY <1>1, <1>5, <3>1
    <3>3. Cardinality(Open(Closed(st, e))) = 0
      BY <3>2, FS_EmptySet
    <3> QED
      BY <2>5, <3>2, <3>3, DsoAssumption DEF Free
  <2> HIDE DEF r
  <2>6. r.st = Closed(st, e) /\ r.path = path /\ r.ok = Free(Closed(st, e))
    BY <2>1
  <2>7. Open(r.st) \subseteq Open(st)
    BY <1>5, <2>3, <2>6
  <2> QED
    BY <1>5, <2>2, <2>4, <2>5, <2>6, <2>7 DEF r
<1> QED
  BY <1>7, <1>8

-----------------------------------------------------------------------------
(* Opening files.                                                            *)

\* A source without a file may become any other without one.
LEMMA SetGood ==
  ASSUME NEW st, Good(st), NEW id \in Ids, id \notin Open(st),
         NEW m \in Sources, m \notin {Absent, Unusable} => ~m.file /\ Faithful(m)
  PROVE  LET u == With(st, id, m) IN
         /\ Good(u) /\ Open(u) = Open(st) /\ u.open_order = st.open_order
         /\ u.sources[id] = m /\ \A x \in Ids \ {id} : Alike(st, u, x)
<1> DEFINE u == With(st, id, m)
<1>1. /\ st \in States /\ st.sources \in [Ids -> Sources] /\ Queued(st)
      /\ \A x \in Ids : Known(st, x) => Faithful(st.sources[x])
  BY DEF Good, States
<1>2. /\ u \in States /\ u.open_order = st.open_order /\ u.sources[id] = m
      /\ \A x \in Ids \ {id} : u.sources[x] = st.sources[x]
  BY <1>1 DEF States, With
<1> HIDE DEF u
<1>3. Open(u) = Open(st)
  BY <1>2 DEF Open, Known
<1>4. Queued(u)
  BY <1>1, <1>2, <1>3 DEF Queued
<1>5. \A x \in Ids : Known(u, x) => Faithful(u.sources[x])
  BY <1>1, <1>2 DEF Known
<1>6. \A x \in Ids \ {id} : Alike(st, u, x)
  BY <1>2 DEF Alike, Known
<1> QED
  BY <1>2, <1>3, <1>4, <1>5, <1>6 DEF Good, u

\* A file that is opened goes to the end of the queue.
LEMMA QueueGood ==
  ASSUME NEW st, Good(st), NEW id \in Ids, id \notin Open(st),
         NEW m \in Sources, m \notin {Absent, Unusable}, m.file, Faithful(m),
         NEW u, u.sources = [st.sources EXCEPT ![id] = m],
         u = [sources |-> u.sources, open_order |-> Append(st.open_order, id)]
  PROVE  /\ Good(u) /\ Len(u.open_order) = Len(st.open_order) + 1
         /\ u.sources[id] = m /\ \A x \in Ids \ {id} : Alike(st, u, x)
<1> DEFINE oo == st.open_order
<1>1. /\ st \in States /\ st.sources \in [Ids -> Sources] /\ Queued(st)
      /\ oo \in Seq(Ids) /\ Len(oo) \in Nat
      /\ \A x \in Ids : Known(st, x) => Faithful(st.sources[x])
  BY LenProperties DEF Good, States
<1>2. /\ u.sources \in [Ids -> Sources] /\ u.sources[id] = m
      /\ \A x \in Ids \ {id} : u.sources[x] = st.sources[x]
  BY <1>1
<1>3. /\ u.open_order \in Seq(Ids) /\ Len(u.open_order) = Len(oo) + 1
      /\ \A i \in 1 .. Len(oo) : u.open_order[i] = oo[i]
      /\ u.open_order[Len(oo) + 1] = id
  <2>1. u.open_order = Append(oo, id) /\ oo \in Seq(Ids)
    BY <1>1
  <2> HIDE DEF oo
  <2>2. /\ Append(oo, id) \in Seq(Ids) /\ Len(Append(oo, id)) = Len(oo) + 1
        /\ \A i \in 1 .. Len(oo) : Append(oo, id)[i] = oo[i]
        /\ Append(oo, id)[Len(oo) + 1] = id
    BY <2>1, AppendProperties
  <2> QED
    BY <2>1, <2>2
<1>4. u \in States
  BY <1>2, <1>3 DEF States
<1>5. Open(u) = Open(st) \cup {id}
  BY <1>2 DEF Open, Known
<1>6. Queued(u)
  <2> HIDE DEF oo
  <2>1. \A i \in 1 .. Len(oo) : oo[i] \in Open(st) /\ oo[i] # id
    BY <1>1 DEF Queued, oo
  <2>2. \A i \in 1 .. Len(oo) + 1 : i \in 1 .. Len(oo) \/ i = Len(oo) + 1
    BY <1>1
  <2>3. \A i \in 1 .. Len(oo) : i \in 1 .. Len(oo) + 1
    BY <1>1
  <2>4. Len(oo) + 1 \in 1 .. Len(oo) + 1
    BY <1>1
  <2>5. \A i \in 1 .. Len(u.open_order) : u.open_order[i] \in Open(u)
    BY <1>3, <1>5, <2>1, <2>2
  <2>6. ASSUME NEW x \in Open(u) PROVE \E i \in 1 .. Len(u.open_order) : u.open_order[i] = x
    <3>1. CASE x = id
      BY <1>3, <2>4, <3>1
    <3>2. CASE x \in Open(st)
      <4>1. PICK i \in 1 .. Len(oo) : oo[i] = x
        BY <1>1, <3>2 DEF Queued, oo
      <4> QED
        BY <1>3, <2>3, <4>1
    <3> QED
      BY <1>5, <3>1, <3>2
  <2>7. ASSUME NEW i \in 1 .. Len(u.open_order), NEW j \in 1 .. Len(u.open_order),
               u.open_order[i] = u.open_order[j]
        PROVE  i = j
    <3>1. CASE i \in 1 .. Len(oo) /\ j \in 1 .. Len(oo)
      BY <1>1, <1>3, <2>7, <3>1 DEF Queued, oo
    <3>2. CASE i = Len(oo) + 1 \/ j = Len(oo) + 1
      BY <1>3, <2>1, <2>2, <2>7, <3>2
    <3> QED
      BY <1>3, <2>2, <3>1, <3>2
  <2> QED
    BY <2>5, <2>6, <2>7 DEF Queued
<1>7. \A x \in Ids : Known(u, x) => Faithful(u.sources[x])
  BY <1>1, <1>2 DEF Known
<1>8. \A x \in Ids \ {id} : Alike(st, u, x)
  BY <1>2 DEF Alike, Known
<1> QED
  BY <1>2, <1>3, <1>4, <1>6, <1>7, <1>8 DEF Good

\* What is left of a sequence after its first elements.
LEMMA Rest ==
  ASSUME NEW S, NEW s \in Seq(S), NEW n \in 0 .. Len(s)
  PROVE  LET t == SubSeq(s, n + 1, Len(s))
         IN /\ t \in Seq(S) /\ Len(t) = Len(s) - n
            /\ \A i \in 1 .. Len(s) - n : t[i] = s[n + i]
<1>1. Len(s) \in Nat /\ n \in Nat /\ n <= Len(s)
  BY LenProperties
<1> QED
  BY <1>1, SubSeqProperties

\* Appending to it.
LEMMA RestOfAppend ==
  ASSUME NEW S, NEW s \in Seq(S), NEW n \in 0 .. Len(s), NEW x \in S
  PROVE  SubSeq(Append(s, x), n + 1, Len(s) + 1) = Append(SubSeq(s, n + 1, Len(s)), x)
<1> DEFINE w == Append(s, x)
           a == SubSeq(w, n + 1, Len(w))
           b == SubSeq(s, n + 1, Len(s))
<1>1. Len(s) \in Nat /\ n \in Nat /\ n <= Len(s)
  BY LenProperties
<1>2. /\ w \in Seq(S) /\ Len(w) = Len(s) + 1
      /\ \A i \in 1 .. Len(s) : w[i] = s[i]
      /\ w[Len(s) + 1] = x
  BY <1>1, AppendProperties
<1> HIDE DEF w
<1>3. n \in 0 .. Len(w)
  BY <1>1, <1>2
<1>4. a \in Seq(S) /\ Len(a) = Len(w) - n /\ \A i \in 1 .. Len(w) - n : a[i] = w[n + i]
  BY <1>2, <1>3, Rest
<1>5. b \in Seq(S) /\ Len(b) = Len(s) - n /\ \A i \in 1 .. Len(s) - n : b[i] = s[n + i]
  BY Rest
<1> HIDE DEF a, b
<1>6. /\ Append(b, x) \in Seq(S) /\ Len(Append(b, x)) = Len(b) + 1
      /\ \A i \in 1 .. Len(b) : Append(b, x)[i] = b[i]
      /\ Append(b, x)[Len(b) + 1] = x
  BY <1>5, AppendProperties
<1>7. \A i \in 1 .. Len(a) : \/ i \in 1 .. Len(s) - n /\ n + i \in 1 .. Len(s)
                             \/ i = Len(b) + 1 /\ n + i = Len(s) + 1
  BY <1>1, <1>2, <1>4, <1>5
<1>8. \A i \in 1 .. Len(a) : a[i] = Append(b, x)[i]
  BY <1>2, <1>4, <1>5, <1>6, <1>7
<1>9. Len(a) = Len(Append(b, x))
  BY <1>1, <1>2, <1>4, <1>5, <1>6
<1>10. a = Append(b, x)
  BY <1>4, <1>6, <1>8, <1>9, SeqEqual
<1> QED
  BY <1>2, <1>10 DEF a, b, w

\* register_open closes the oldest file where the limit is reached.
LEMMA RegisterGood ==
  ASSUME NEW st, Good(st), NEW id \in Ids, id \notin Open(st)
  PROVE  LET n == IF Len(st.open_order) + 1 >= FdLimit /\ Len(st.open_order) > 0 THEN 1 ELSE 0
         IN /\ n \in 0 .. Len(st.open_order)
            /\ RegisterOpen(st, id) = [sources |-> Closed(st, n).sources,
                                       open_order |-> Append(Closed(st, n).open_order, id)]
<1> DEFINE oo == st.open_order
           L == Len(oo)
           queued == [st EXCEPT !.open_order = Append(@, id)]
           n == IF L + 1 >= FdLimit /\ L > 0 THEN 1 ELSE 0
<1>1. /\ st \in States /\ st.sources \in [Ids -> Sources] /\ Queued(st)
      /\ oo \in Seq(Ids) /\ L \in Nat /\ FdLimit \in Nat
  BY LenProperties, DsoAssumption DEF Good, States
<1>2. n \in 0 .. L
  BY <1>1
<1>3. queued.sources = st.sources /\ queued.open_order = Append(oo, id)
  BY <1>1 DEF States
<1>4. /\ Append(oo, id) \in Seq(Ids) /\ Len(Append(oo, id)) = L + 1
      /\ \A i \in 1 .. L : Append(oo, id)[i] = oo[i]
      /\ Append(oo, id)[L + 1] = id
  BY <1>1, AppendProperties
<1> HIDE DEF queued
<1>5. Open(queued) = Open(st)
  BY <1>3 DEF Open, Known
<1>6. Closable(queued) = L
  <2> DEFINE S == {k \in 0 .. Len(queued.open_order) :
                     \A i \in 1 .. k : queued.open_order[i] \in Open(queued)}
  <2>1. L \in S
    <3>1. \A i \in 1 .. L : queued.open_order[i] \in Open(queued)
      BY <1>1, <1>3, <1>4, <1>5 DEF Queued
    <3> QED
      BY <1>1, <1>3, <1>4, <3>1
  <2>2. \A k \in S : k \in Nat /\ k <= L
    <3> SUFFICES ASSUME NEW k \in S, k > L PROVE FALSE
      BY <1>1, <1>3, <1>4
    <3>1. L + 1 \in 1 .. k /\ k \in Nat
      BY <1>1, <1>3, <1>4
    <3>2. id \in Open(queued)
      BY <1>3, <1>4, <3>1
    <3> QED
      BY <1>5, <3>2
  <2>3. S \in SUBSET Nat
    BY <2>2
  <2> HIDE DEF S
  <2>4. Max(S) = L
    BY <2>1, <2>2, <2>3, MaxIs
  <2> QED
    BY <2>4 DEF Closable, S
<1>7. RegisterOpen(st, id) = Closed(queued, n)
  BY <1>3, <1>4, <1>6 DEF RegisterOpen, OverLimit, queued
<1>8. SubSeq(Append(oo, id), 1, n) = SubSeq(oo, 1, n)
  BY <1>1, <1>2, <1>4
<1>9. SubSeq(Append(oo, id), n + 1, L + 1) = Append(SubSeq(oo, n + 1, L), id)
  <2> HIDE DEF n
  <2>1. n \in 0 .. Len(oo)
    BY <1>2
  <2> QED
    BY <1>1, <1>4, <2>1, RestOfAppend
<1>10. Closed(queued, n) = [sources |-> Closed(st, n).sources,
                            open_order |-> Append(Closed(st, n).open_order, id)]
  BY <1>3, <1>4, <1>8, <1>9 DEF Closed, ClosedSources
<1> QED
  BY <1>2, <1>7, <1>10

\* What a source becomes that is opened: the file is in the queue, the others keep
\* what they know.
LEMMA OpeningGood ==
  ASSUME NEW st, Good(st), Few(st), NEW id \in Ids, id \notin Open(st),
         NEW m \in Sources, m \notin {Absent, Unusable}, m.file, Faithful(m),
         NEW u, u = With(RegisterOpen(st, id), id, m)
  PROVE  /\ Good(u) /\ Few(u) /\ u.sources[id] = m
         /\ \A x \in Ids \ {id} : Alike(st, u, x)
<1> DEFINE L == Len(st.open_order)
           n == IF L + 1 >= FdLimit /\ L > 0 THEN 1 ELSE 0
           c == Closed(st, n)
<1>1. /\ n \in 0 .. L
      /\ RegisterOpen(st, id) = [sources |-> c.sources, open_order |-> Append(c.open_order, id)]
  BY RegisterGood
<1>2. L \in Nat /\ FdLimit \in Nat
  BY AllClosable, DsoAssumption
<1> HIDE DEF n
<1>3. /\ Good(c) /\ Len(c.open_order) = L - n
      /\ Open(c) = {st.open_order[i] : i \in n + 1 .. L}
      /\ \A x \in Ids : Alike(st, c, x)
  BY <1>1, ClosedGood
<1> HIDE DEF c
<1>4. id \notin Open(c)
  <2>1. \A i \in n + 1 .. L : st.open_order[i] \in Open(st)
    <3>1. \A i \in n + 1 .. L : i \in 1 .. L
      BY <1>1, <1>2
    <3> QED
      BY <3>1 DEF Good, Queued
  <2> QED
    BY <1>3, <2>1
<1>5. /\ u.sources = [c.sources EXCEPT ![id] = m]
      /\ u = [sources |-> u.sources, open_order |-> Append(c.open_order, id)]
  BY <1>1 DEF With
<1>6. /\ Good(u) /\ Len(u.open_order) = L - n + 1
      /\ u.sources[id] = m /\ \A x \in Ids \ {id} : Alike(c, u, x)
  <2>1. Good(u) /\ \A x \in Ids \ {id} : Alike(c, u, x)
    BY <1>3, <1>4, <1>5, QueueGood
  <2>2. c.sources \in [Ids -> Sources] /\ c.open_order \in Seq(Ids) /\ Len(c.open_order) \in Nat
    BY <1>3, LenProperties DEF Good, States
  <2>3. Len(u.open_order) = Len(c.open_order) + 1
    BY <1>5, <2>2, AppendProperties
  <2>4. u.sources[id] = m
    BY <1>5, <2>2
  <2> QED
    BY <1>3, <2>1, <2>3, <2>4
<1>7. \A x \in Ids \ {id} : Alike(st, u, x)
  BY <1>3, <1>6 DEF Alike, Known
<1>8. Few(u)
  <2>1. Max({1, FdLimit - 1}) = IF 1 >= FdLimit - 1 THEN 1 ELSE FdLimit - 1
    BY <1>2, MaxPair
  <2>2. L <= IF 1 >= FdLimit - 1 THEN 1 ELSE FdLimit - 1
    BY <2>1 DEF Few
  <2>3. L - n + 1 <= IF 1 >= FdLimit - 1 THEN 1 ELSE FdLimit - 1
    BY <1>2, <2>2 DEF n
  <2> QED
    BY <1>6, <2>1, <2>3 DEF Few
<1> QED
  BY <1>6, <1>7, <1>8

\* DsoMemory::open_with tries the build-id cache and the mapped path.
LEMMA OpenWithGood ==
  ASSUME NEW st, Good(st), NEW id \in Ids, others \in 0 .. MaxFds
  PROVE  LET r == OpenWith(st, id) IN
         /\ Good(r.st) /\ Len(r.st.open_order) <= Len(st.open_order)
         /\ Open(r.st) \subseteq Open(st) /\ \A x \in Ids : Alike(st, r.st, x)
         /\ r.path \in Files /\ r.ok \in BOOLEAN
         /\ <<id, "system">> \in present /\ ~r.ok => others = MaxFds /\ Open(r.st) = {}
<1> DEFINE cached == OpenWithEviction(st, <<id, "cache">>)
           first == IF id \in CachedIds THEN cached.st ELSE st
           system == OpenWithEviction(first, <<id, "system">>)
<1>1. /\ Good(cached.st) /\ Len(cached.st.open_order) <= Len(st.open_order)
      /\ Open(cached.st) \subseteq Open(st) /\ \A x \in Ids : Alike(st, cached.st, x)
      /\ cached.path = <<id, "cache">> /\ cached.ok \in BOOLEAN
  BY EvictionGood
<1> HIDE DEF cached
<1>2. Len(st.open_order) \in Nat /\ Len(cached.st.open_order) \in Nat
  BY <1>1, AllClosable
<1>3. /\ Good(first) /\ Len(first.open_order) <= Len(st.open_order)
      /\ Open(first) \subseteq Open(st) /\ \A x \in Ids : Alike(st, first, x)
      /\ Len(first.open_order) \in Nat
  BY <1>1, <1>2 DEF Alike
<1> HIDE DEF first
<1>4. /\ Good(system.st) /\ Len(system.st.open_order) <= Len(first.open_order)
      /\ Open(system.st) \subseteq Open(first) /\ \A x \in Ids : Alike(first, system.st, x)
      /\ system.path = <<id, "system">> /\ system.ok \in BOOLEAN
      /\ <<id, "system">> \in present /\ ~system.ok => others = MaxFds /\ Open(system.st) = {}
  BY <1>3, EvictionGood
<1> HIDE DEF system
<1>5. Len(system.st.open_order) \in Nat
  BY <1>4, AllClosable
<1>6. \A x \in Ids : Alike(st, system.st, x)
  BY <1>3, <1>4 DEF Alike, Known
<1>7. Len(system.st.open_order) <= Len(st.open_order) /\ Open(system.st) \subseteq Open(st)
  BY <1>2, <1>3, <1>4, <1>5
<1>8. CASE id \in CachedIds /\ cached.ok
  <2>1. OpenWith(st, id) = cached
    BY <1>8 DEF OpenWith, cached
  <2>2. cached.path \in Files
    BY <1>1, <1>8, DsoAssumption DEF Files
  <2> QED
    BY <1>1, <1>8, <2>1, <2>2
<1>9. CASE ~ (id \in CachedIds /\ cached.ok)
  <2>1. OpenWith(st, id) = system
    BY <1>9 DEF OpenWith, cached, first, system
  <2>2. system.path \in Files
    BY <1>4 DEF Files
  <2> QED
    BY <1>4, <1>6, <1>7, <2>1, <2>2
<1> QED
  BY <1>8, <1>9

\* What a source is when a word is read from it: open, unless it is given up, which
\* happens only when the rest of the process holds every descriptor.
Reached(st, u, id) ==
  /\ st.sources[id] = Unusable => u.sources[id] = Unusable
  /\ u.sources[id] # Absent
  /\ Known(st, id) => /\ Known(u, id) /\ u.sources[id].path = st.sources[id].path
                      /\ st.sources[id].failed => u.sources[id].failed
  /\ Known(u, id) /\ ~u.sources[id].failed => u.sources[id].file

Forced(st, u, id) ==
  /\ st.sources[id] = Absent \/ (Known(st, id) /\ ~st.sources[id].failed)
  /\ u.sources[id] = Unusable \/ (Known(u, id) /\ u.sources[id].failed)
  /\ <<id, "system">> \in present /\ (Known(st, id) => st.sources[id].path \in present)
  => others = MaxFds /\ Open(u) = {}

\* The first open of a source.
LEMMA FirstOpenGood ==
  ASSUME NEW st, Good(st), Few(st), NEW id \in Ids, st.sources[id] = Absent,
         others \in 0 .. MaxFds
  PROVE  LET u == FirstOpen(st, id) IN
         /\ Good(u) /\ Few(u) /\ \A x \in Ids \ {id} : Alike(st, u, x)
         /\ Reached(st, u, id) /\ Forced(st, u, id)
<1> DEFINE r == OpenWith(st, id)
           m == [file |-> TRUE, path |-> r.path, len |-> Length, failed |-> FALSE, blocks |-> <<>>]
           u == FirstOpen(st, id)
<1>1. /\ Good(r.st) /\ Len(r.st.open_order) <= Len(st.open_order)
      /\ Open(r.st) \subseteq Open(st) /\ \A x \in Ids : Alike(st, r.st, x)
      /\ r.path \in Files /\ r.ok \in BOOLEAN
      /\ <<id, "system">> \in present /\ ~r.ok => others = MaxFds /\ Open(r.st) = {}
  BY OpenWithGood
<1>2. FirstOpen(st, id) = IF ~r.ok THEN With(r.st, id, Unusable)
                          ELSE With(RegisterOpen(r.st, id), id, m)
  BY DEF FirstOpen
<1> HIDE DEF r
<1>3. Absent # Unusable /\ ~Known(st, id) /\ id \notin Open(r.st) /\ Few(r.st)
  <2>1. Len(r.st.open_order) \in Nat /\ Len(st.open_order) \in Nat /\ FdLimit \in Nat
    BY <1>1, AllClosable, DsoAssumption
  <2>2. Max({1, FdLimit - 1}) \in Int
    BY <2>1, MaxPair
  <2> QED
    BY <1>1, <2>1, <2>2, DsoAssumption DEF Open, Known, Few
<1>4. CASE ~r.ok
  <2>1. /\ Good(u) /\ Open(u) = Open(r.st) /\ u.open_order = r.st.open_order
        /\ u.sources[id] = Unusable /\ \A x \in Ids \ {id} : Alike(r.st, u, x)
    <3>1. Unusable \in Sources
      BY DEF Sources
    <3> QED
      BY <1>1, <1>2, <1>3, <1>4, <3>1, SetGood
  <2> HIDE DEF u
  <2>2. \A x \in Ids \ {id} : Alike(st, u, x)
    BY <1>1, <2>1 DEF Alike, Known
  <2> QED
    BY <1>1, <1>3, <1>4, <2>1, <2>2 DEF Few, Reached, Forced, Known, u
<1>5. CASE r.ok
  <2>1. m \in Sources /\ m \notin {Absent, Unusable}
    <3>1. DOMAIN <<>> \subseteq 0 .. Length /\ <<>> \in [DOMAIN <<>> -> Seq(Files \X Nat)]
      OBVIOUS
    <3> QED
      BY <1>1, <3>1, MadeSource
  <2>2. m.file /\ ~m.failed /\ Faithful(m)
    BY DEF Faithful
  <2> HIDE DEF m
  <2>3. /\ Good(u) /\ Few(u) /\ u.sources[id] = m
        /\ \A x \in Ids \ {id} : Alike(r.st, u, x)
    BY <1>1, <1>2, <1>3, <1>5, <2>1, <2>2, OpeningGood
  <2> HIDE DEF u
  <2>4. \A x \in Ids \ {id} : Alike(st, u, x)
    BY <1>1, <2>3 DEF Alike, Known
  <2> QED
    BY <1>3, <2>1, <2>2, <2>3, <2>4 DEF Reached, Forced, Known, u
<1> QED
  BY <1>1, <1>4, <1>5

\* An evicted file is opened again.
LEMMA ReopenGood ==
  ASSUME NEW st, Good(st), Few(st), NEW id \in Ids, Known(st, id),
         ~st.sources[id].failed, ~st.sources[id].file, others \in 0 .. MaxFds
  PROVE  LET u == Reopen(st, id) IN
         /\ Good(u) /\ Few(u) /\ \A x \in Ids \ {id} : Alike(st, u, x)
         /\ Reached(st, u, id) /\ Forced(st, u, id)
<1> DEFINE r == SelectedPath(st, id)
           u == Reopen(st, id)
           old == r.st.sources[id]
           again == RegisterOpen(r.st, id).sources[id]
           m == [again EXCEPT !.file = TRUE, !.path = r.path, !.len = Length]
<1>1. /\ Good(r.st) /\ Len(r.st.open_order) <= Len(st.open_order)
      /\ Open(r.st) \subseteq Open(st) /\ \A x \in Ids : Alike(st, r.st, x)
      /\ r.path = st.sources[id].path /\ r.ok \in BOOLEAN
      /\ st.sources[id].path \in present /\ ~r.ok => others = MaxFds /\ Open(r.st) = {}
  BY EvictionGood DEF SelectedPath
<1>2. u = IF ~r.ok THEN With(r.st, id, Failed(old)) ELSE With(RegisterOpen(r.st, id), id, m)
  BY DEF Reopen
<1> HIDE DEF r
<1>3. id \notin Open(r.st) /\ Few(r.st)
  <2>1. Len(r.st.open_order) \in Nat /\ Len(st.open_order) \in Nat /\ FdLimit \in Nat
    BY <1>1, AllClosable, DsoAssumption
  <2>2. Max({1, FdLimit - 1}) \in Int
    BY <2>1, MaxPair
  <2> QED
    BY <1>1, <2>1, <2>2 DEF Open, Few
<1>4. /\ Known(r.st, id) /\ old \in Sources /\ old \notin {Absent, Unusable} /\ Faithful(old)
      /\ old.path = st.sources[id].path /\ ~old.failed /\ ~old.file
  <2>1. Known(r.st, id) /\ old.path = st.sources[id].path /\ old.failed = st.sources[id].failed
    BY <1>1 DEF Alike
  <2>2. r.st.sources \in [Ids -> Sources]
    BY <1>1 DEF Good, States
  <2>3. old \in Sources
    BY <2>2
  <2> QED
    BY <1>1, <1>3, <2>1, <2>3 DEF Good, Known, Open
<1>5. PICK S \in SUBSET (0 .. Length) : old \in DsoMemories(S)
  BY <1>4, KnownSource
<1>6. CASE ~r.ok
  <2> DEFINE f == Failed(old)
  <2>1. /\ f \in DsoMemories(S) /\ f.failed /\ f.file = old.file /\ f.path = old.path
        /\ f.len = old.len /\ f.blocks = old.blocks
    <3> HIDE DEF old
    <3> QED
      BY <1>5 DEF DsoMemories, Failed
  <2>2. f \in Sources
    BY <2>1 DEF Sources
  <2>3. f \notin {Absent, Unusable} /\ ~f.file /\ Faithful(f)
    BY <1>4, <2>1, <2>2, KnownSource DEF Faithful
  <2>4. u = With(r.st, id, f)
    BY <1>2, <1>6
  <2> HIDE DEF f
  <2>5. /\ Good(u) /\ Open(u) = Open(r.st) /\ u.open_order = r.st.open_order
        /\ u.sources[id] = f /\ \A x \in Ids \ {id} : Alike(r.st, u, x)
    BY <1>1, <1>3, <2>2, <2>3, <2>4, SetGood
  <2> HIDE DEF u, old
  <2>6. \A x \in Ids \ {id} : Alike(st, u, x)
    BY <1>1, <2>5 DEF Alike, Known
  <2>7. Reached(st, u, id)
    BY <1>4, <2>1, <2>3, <2>5 DEF Reached, Known
  <2>8. Forced(st, u, id)
    BY <1>1, <1>6, <2>5 DEF Forced
  <2> QED
    BY <1>3, <2>5, <2>6, <2>7, <2>8 DEF Few, u
<1>7. CASE r.ok
  <2>1. again = old
    <3> DEFINE L == Len(r.st.open_order)
               n == IF L + 1 >= FdLimit /\ L > 0 THEN 1 ELSE 0
               c == Closed(r.st, n)
    <3>1. n \in 0 .. L /\ RegisterOpen(r.st, id).sources = c.sources
      BY <1>1, <1>3, RegisterGood
    <3>2. \A i \in 1 .. n : r.st.open_order[i] \in Open(r.st)
      BY <1>1, <3>1 DEF Good, Queued
    <3>3. id \notin ToSet(SubSeq(r.st.open_order, 1, n))
      <4>1. r.st.open_order \in Seq(Ids) /\ L \in Nat
        BY <1>1, LenProperties DEF Good, States
      <4>2. \A i \in DOMAIN SubSeq(r.st.open_order, 1, n) :
              i \in 1 .. n /\ SubSeq(r.st.open_order, 1, n)[i] = r.st.open_order[i]
        BY <3>1, <4>1
      <4> QED
        BY <1>3, <3>2, <4>2 DEF ToSet
    <3> QED
      BY <3>1, <3>3 DEF Closed, ClosedSources
  <2>2. /\ m \in DsoMemories(S) /\ m.file /\ m.path = r.path /\ m.len = Length
        /\ m.failed = old.failed /\ m.blocks = old.blocks
    <3>1. m = [old EXCEPT !.file = TRUE, !.path = r.path, !.len = Length]
      BY <2>1
    <3>2. r.path \in Files
      BY <1>1, <1>4, KnownSource
    <3> HIDE DEF m, old
    <3> QED
      BY <1>5, <3>1, <3>2 DEF DsoMemories
  <2>3. u = With(RegisterOpen(r.st, id), id, m)
    BY <1>2, <1>7
  <2> HIDE DEF m, again
  <2>4. m \in Sources
    BY <2>2 DEF Sources
  <2>5. m \notin {Absent, Unusable} /\ Faithful(m)
    BY <1>1, <1>4, <2>2, <2>4, KnownSource DEF Faithful
  <2>6. /\ Good(u) /\ Few(u) /\ u.sources[id] = m
        /\ \A x \in Ids \ {id} : Alike(r.st, u, x)
    BY <1>1, <1>3, <2>2, <2>3, <2>4, <2>5, OpeningGood
  <2> HIDE DEF u, old
  <2>7. \A x \in Ids \ {id} : Alike(st, u, x)
    BY <1>1, <2>6 DEF Alike, Known
  <2>8. Reached(st, u, id) /\ Forced(st, u, id)
    BY <1>1, <1>4, <2>2, <2>5, <2>6 DEF Reached, Forced, Known
  <2> QED
    BY <2>6, <2>7, <2>8 DEF u
<1> QED
  BY <1>1, <1>6, <1>7

\* Before a word is read its source is opened, unless it cannot be.
LEMMA ReadyGood ==
  ASSUME NEW st, Good(st), Few(st), NEW id \in Ids, others \in 0 .. MaxFds
  PROVE  LET u == Ready(st, id) IN
         /\ Good(u) /\ Few(u) /\ \A x \in Ids \ {id} : Alike(st, u, x)
         /\ Reached(st, u, id) /\ Forced(st, u, id)
<1>1. CASE st.sources[id] = Absent
  <2>1. Ready(st, id) = FirstOpen(st, id)
    BY <1>1 DEF Ready, Known
  <2> QED
    BY <1>1, <2>1, FirstOpenGood
<1>2. CASE Known(st, id) /\ ~st.sources[id].failed /\ ~st.sources[id].file
  <2>1. Ready(st, id) = Reopen(st, id)
    BY <1>2 DEF Ready, Known
  <2> QED
    BY <1>2, <2>1, ReopenGood
<1>3. CASE /\ st.sources[id] # Absent
           /\ ~ (Known(st, id) /\ ~st.sources[id].failed /\ ~st.sources[id].file)
  <2>1. Ready(st, id) = st
    BY <1>3 DEF Ready
  <2> QED
    BY <1>3, <2>1, DsoAssumption DEF Alike, Reached, Forced, Known
<1> QED
  BY <1>1, <1>2, <1>3

-----------------------------------------------------------------------------
(* Words.                                                                    *)

Lesser(a, b) == IF a <= b THEN a ELSE b

\* Bytes are a sequence, none where the end is not beyond the start.
LEMMA BytesAre ==
  ASSUME NEW path \in Files, NEW a \in Nat, NEW b \in Int
  PROVE  /\ Bytes(path, a, b) \in Seq(Files \X Nat)
         /\ Len(Bytes(path, a, b)) = IF a < b THEN b - a ELSE 0
         /\ \A i \in 1 .. Len(Bytes(path, a, b)) : Bytes(path, a, b)[i] = <<path, a + i - 1>>
<1> DEFINE n == IF a < b THEN b - a ELSE 0
           f == Bytes(path, a, b)
<1>1. n \in Nat /\ 1 .. b - a = 1 .. n
  OBVIOUS
<1>2. f = [i \in 1 .. n |-> <<path, a + i - 1>>]
  BY <1>1 DEF Bytes
<1> HIDE DEF n, f
<1>3. \A i \in 1 .. n : <<path, a + i - 1>> \in Files \X Nat
  BY <1>1
<1>4. f \in [1 .. n -> Files \X Nat]
  BY <1>2, <1>3
<1>5. f \in Seq(Files \X Nat) /\ Len(f) = n
  BY <1>1, <1>4
<1>6. \A i \in 1 .. n : f[i] = <<path, a + i - 1>>
  BY <1>2
<1> QED
  BY <1>5, <1>6 DEF n, f

\* As many as lie between the two.
LEMMA BytesUpTo ==
  ASSUME NEW path \in Files, NEW a \in Nat, NEW b \in Nat, a <= b
  PROVE  /\ Bytes(path, a, b) \in Seq(Files \X Nat) /\ Len(Bytes(path, a, b)) = b - a
         /\ \A i \in 1 .. b - a : Bytes(path, a, b)[i] = <<path, a + i - 1>>
<1> DEFINE f == Bytes(path, a, b)
<1>1. /\ f \in Seq(Files \X Nat) /\ Len(f) = IF a < b THEN b - a ELSE 0
      /\ \A i \in 1 .. Len(f) : f[i] = <<path, a + i - 1>>
  BY BytesAre
<1> HIDE DEF f
<1>2. Len(f) = b - a
  BY <1>1
<1> QED
  BY <1>1, <1>2 DEF f

\* Sequences of bytes are the same if they end at the same place, or are empty.
LEMMA BytesSame ==
  ASSUME NEW path \in Files, NEW a \in Nat, NEW b \in Int, NEW c \in Int,
         b = c \/ (b <= a /\ c <= a)
  PROVE  Bytes(path, a, b) = Bytes(path, a, c)
<1>1. 1 .. b - a = 1 .. c - a
  OBVIOUS
<1> QED
  BY <1>1 DEF Bytes

\* Bytes that follow each other.
LEMMA BytesJoin ==
  ASSUME NEW path \in Files, NEW a \in Nat, NEW b \in Nat, NEW c \in Nat, a <= b, b <= c
  PROVE  Bytes(path, a, b) \o Bytes(path, b, c) = Bytes(path, a, c)
<1> DEFINE f == Bytes(path, a, b)
           g == Bytes(path, b, c)
           h == Bytes(path, a, c)
<1>1. f \in Seq(Files \X Nat) /\ Len(f) = b - a /\ \A i \in 1 .. b - a : f[i] = <<path, a + i - 1>>
  BY BytesUpTo
<1>2. g \in Seq(Files \X Nat) /\ Len(g) = c - b /\ \A i \in 1 .. c - b : g[i] = <<path, b + i - 1>>
  BY BytesUpTo
<1>3. h \in Seq(Files \X Nat) /\ Len(h) = c - a /\ \A i \in 1 .. c - a : h[i] = <<path, a + i - 1>>
  <2>1. a <= c
    OBVIOUS
  <2> QED
    BY <2>1, BytesUpTo
<1> HIDE DEF f, g, h
<1>4. /\ f \o g \in Seq(Files \X Nat) /\ Len(f \o g) = Len(f) + Len(g)
      /\ \A i \in 1 .. Len(f) + Len(g) : (f \o g)[i] = IF i <= Len(f) THEN f[i] ELSE g[i - Len(f)]
  BY <1>1, <1>2, ConcatProperties
<1>5. Len(f \o g) = Len(h) /\ Len(f) + Len(g) = c - a
  BY <1>1, <1>2, <1>3, <1>4
<1>6. ASSUME NEW i \in 1 .. c - a PROVE (f \o g)[i] = h[i]
  <2>1. CASE i <= b - a
    <3>1. i \in 1 .. b - a
      BY <1>6, <2>1
    <3> QED
      BY <1>1, <1>3, <1>4, <1>5, <2>1, <3>1
  <2>2. CASE ~ (i <= b - a)
    <3>1. i - (b - a) \in 1 .. c - b /\ b + (i - (b - a)) - 1 = a + i - 1
      BY <1>6, <2>2
    <3> QED
      BY <1>1, <1>2, <1>3, <1>4, <1>5, <2>2, <3>1
  <2> QED
    BY <2>1, <2>2
<1>7. \A i \in 1 .. Len(f \o g) : (f \o g)[i] = h[i]
  BY <1>3, <1>5, <1>6
<1> QED
  BY <1>3, <1>4, <1>5, <1>7, SeqEqual DEF f, g, h

\* A source with an open file has, or reads, each of its blocks.
LEMMA BlockIs ==
  ASSUME NEW s, Faithful(s), s.file, NEW start
  PROVE  BlockAt(s, start) = BlockOf(s.path, start)
  BY DEF BlockAt, BlockOf, Faithful

\* Where a position is in its block.
LEMMA Position ==
  ASSUME NEW position \in Nat
  PROVE  /\ Within(position) \in 0 .. Block - 1 /\ BlockStart(position) \in Nat
         /\ BlockStart(position) = position - Within(position)
         /\ Block \in Nat \ {0} /\ Length \in Nat
         /\ Within(BlockStart(position) + Block) = 0
  BY DsoAssumption DEF Within, BlockStart

\* A block that is kept does not change what the source is.
LEMMA WithBlockGood ==
  ASSUME NEW s \in Sources, s \notin {Absent, Unusable}, Faithful(s), s.file,
         NEW start \in Nat
  PROVE  LET t == WithBlock(s, start) IN
         /\ t \in Sources /\ t \notin {Absent, Unusable} /\ Faithful(t)
         /\ t.file = s.file /\ t.path = s.path /\ t.failed = s.failed
<1>1. PICK S \in SUBSET (0 .. Length) : s \in DsoMemories(S)
  BY KnownSource
<1>2. s.path \in Files
  BY <1>1 DEF DsoMemories
<1>3. CASE BlockAt(s, start) = <<>>
  BY <1>3 DEF WithBlock
<1>4. CASE BlockAt(s, start) # <<>>
  <2> DEFINE D == DOMAIN s.blocks \cup {start}
             blocks == [x \in D |-> BlockAt(s, x)]
             t == WithBlock(s, start)
  <2>1. t = [s EXCEPT !.blocks = blocks]
    BY <1>4 DEF WithBlock
  <2>2. DOMAIN s.blocks = S
    BY <1>1 DEF DsoMemories
  <2>3. Length \in Nat /\ Block \in Nat
    BY DsoAssumption
  <2>4. start \in 0 .. Length
    <3>1. Min({Length, start + Block}) = Lesser(Length, start + Block)
      BY <2>3, MinPair DEF Lesser
    <3>2. BlockAt(s, start) = Bytes(s.path, start, Lesser(Length, start + Block))
      BY <3>1, BlockIs DEF BlockOf
    <3>3. Lesser(Length, start + Block) \in Int
      BY <2>3 DEF Lesser
    <3>4. Len(BlockAt(s, start)) # 0
      BY <1>2, <1>4, <3>2, <3>3, BytesAre, EmptySeq
    <3>5. start < Lesser(Length, start + Block)
      BY <1>2, <3>2, <3>3, <3>4, BytesAre
    <3> QED
      BY <2>3, <3>5 DEF Lesser
  <2>5. D \in SUBSET (0 .. Length)
    BY <2>2, <2>4
  <2>6. \A x \in D : blocks[x] = BlockOf(s.path, x)
    BY BlockIs
  <2>7. blocks \in [D -> Seq(Files \X Nat)]
    <3>1. ASSUME NEW x \in D PROVE BlockAt(s, x) \in Seq(Files \X Nat)
      <4>1. Min({Length, x + Block}) \in Int /\ x \in Nat
        BY <2>3, <2>5, MinPair
      <4>2. BlockAt(s, x) = Bytes(s.path, x, Min({Length, x + Block}))
        BY BlockIs DEF BlockOf
      <4> QED
        BY <1>2, <4>1, <4>2, BytesAre
    <3> QED
      BY <3>1
  <2>8. DOMAIN blocks = D
    OBVIOUS
  <2> HIDE DEF D, blocks, t
  <2>9. /\ t \in DsoMemories(D) /\ t.file = s.file /\ t.path = s.path
        /\ t.failed = s.failed /\ t.len = s.len /\ t.blocks = blocks
    BY <1>1, <2>1, <2>7 DEF DsoMemories
  <2>10. t \in Sources
    BY <2>5, <2>9 DEF Sources
  <2>11. t \notin {Absent, Unusable}
    BY <2>5, <2>9, <2>10, KnownSource
  <2>12. Faithful(t)
    BY <2>6, <2>8, <2>9 DEF Faithful
  <2> QED
    BY <2>9, <2>10, <2>11, <2>12 DEF t
<1> QED
  BY <1>3, <1>4

\* What a block has of the bytes wanted at a position in it.
LEMMA AvailableIs ==
  ASSUME NEW s, Faithful(s), s.file, s.path \in Files, NEW position \in Nat, NEW wanted \in Nat
  PROVE  Available(s, position, wanted) =
           Bytes(s.path, position, Lesser(Lesser(Length, BlockStart(position) + Block),
                                          position + wanted))
<1> DEFINE start == BlockStart(position)
           w == Within(position)
           stop == Lesser(Length, start + Block)
           end == Lesser(stop, position + wanted)
           block == BlockAt(s, start)
           m == Lesser(Len(block), w + wanted)
           a == Available(s, position, wanted)
<1>1. /\ w \in Nat /\ start \in Nat /\ start = position - w /\ position = start + w
      /\ Length \in Nat /\ Block \in Nat
  BY Position
<1>2. stop \in Nat
  BY <1>1 DEF Lesser
<1>3. Min({Length, start + Block}) = stop
  BY <1>1, MinPair DEF Lesser
<1>4. block = Bytes(s.path, start, stop)
  BY <1>3, BlockIs DEF BlockOf
<1> HIDE DEF start, w, stop, block
<1>5. /\ block \in Seq(Files \X Nat) /\ Len(block) = IF start < stop THEN stop - start ELSE 0
      /\ \A i \in 1 .. Len(block) : block[i] = <<s.path, start + i - 1>>
  <2>1. start \in Nat
    BY <1>1
  <2>2. stop \in Int
    BY <1>2
  <2> DEFINE bytes == Bytes(s.path, start, stop)
  <2>3. /\ bytes \in Seq(Files \X Nat) /\ Len(bytes) = IF start < stop THEN stop - start ELSE 0
        /\ \A i \in 1 .. Len(bytes) : bytes[i] = <<s.path, start + i - 1>>
    BY <2>1, <2>2, BytesAre
  <2>4. block = bytes
    BY <1>4
  <2> QED
    BY <2>3, <2>4
<1>6. Len(block) \in Nat /\ m \in Nat /\ m <= Len(block) /\ end \in Nat
  <2>1. Len(block) \in Nat
    BY <1>1, <1>2, <1>5
  <2>2. m \in Nat /\ m <= Len(block)
    BY <1>1, <2>1 DEF Lesser
  <2>3. end \in Nat
    BY <1>1, <1>2 DEF Lesser
  <2> QED
    BY <2>1, <2>2, <2>3
<1>7. Min({Len(block), w + wanted}) = m
  BY <1>1, <1>6, MinPair DEF Lesser
<1>8. a = SubSeq(block, w + 1, m)
  BY <1>7 DEF Available, start, w, block
<1>9. \A i \in w + 1 .. m : block[i] \in Files \X Nat
  BY <1>1, <1>5, <1>6
<1>10. IF w + 1 <= m THEN m - w = end - position /\ position < end ELSE end <= position
  BY <1>1, <1>2, <1>5, <1>6 DEF Lesser
<1> HIDE DEF m, end
<1>11. CASE w + 1 <= m
  <2>1. /\ a \in Seq(Files \X Nat) /\ Len(a) = m - (w + 1) + 1
        /\ \A i \in 1 .. m - (w + 1) + 1 : a[i] = block[w + 1 + i - 1]
    <3>1. w + 1 \in Int /\ m \in Int /\ w + 1 <= m
      BY <1>1, <1>6, <1>11
    <3> QED
      BY <1>8, <1>9, <3>1, SubSeqProperties
  <2>2. m - (w + 1) + 1 = end - position
    BY <1>1, <1>6, <1>10, <1>11
  <2>3. \A i \in 1 .. end - position : /\ w + 1 + i - 1 \in 1 .. Len(block)
                                       /\ start + (w + 1 + i - 1) - 1 = position + i - 1
    BY <1>1, <1>6, <1>10, <1>11
  <2>4. \A i \in 1 .. end - position : a[i] = <<s.path, position + i - 1>>
    BY <1>5, <2>1, <2>2, <2>3
  <2> DEFINE f == Bytes(s.path, position, end)
  <2>5. /\ f \in Seq(Files \X Nat) /\ Len(f) = end - position
        /\ \A i \in 1 .. end - position : f[i] = <<s.path, position + i - 1>>
    <3>1. end \in Nat /\ position <= end
      BY <1>6, <1>10, <1>11
    <3>2. \A p \in Files :
            /\ Bytes(p, position, end) \in Seq(Files \X Nat) /\ Len(Bytes(p, position, end)) = end - position
            /\ \A i \in 1 .. end - position : Bytes(p, position, end)[i] = <<p, position + i - 1>>
      BY <3>1, BytesUpTo
    <3> QED
      BY <3>2
  <2> HIDE DEF f, a
  <2>6. a = f
    BY <2>1, <2>2, <2>4, <2>5, SeqEqual
  <2> QED
    BY <2>6 DEF f, a, end, stop, start
<1>12. CASE ~ (w + 1 <= m)
  <2>1. a = <<>>
    BY <1>1, <1>6, <1>8, <1>12, SubSeqEmpty
  <2>2. Len(Bytes(s.path, position, end)) = 0 /\ Bytes(s.path, position, end) \in Seq(Files \X Nat)
    BY <1>6, <1>10, <1>12, BytesAre
  <2>3. Bytes(s.path, position, end) = <<>>
    BY <2>2, EmptySeq
  <2> QED
    BY <2>1, <2>3 DEF end, stop, start
<1> QED
  BY <1>11, <1>12

\* DsoMemory::read_u64 gives the word of the file, or nothing past its end.
LEMMA WordGood ==
  ASSUME NEW s \in Sources, s \notin {Absent, Unusable}, Faithful(s), s.file,
         NEW offset \in Nat
  PROVE  LET r == ReadWord(s, offset) IN
         /\ r.source \in Sources /\ r.source \notin {Absent, Unusable} /\ Faithful(r.source)
         /\ r.source.file = s.file /\ r.source.path = s.path /\ r.source.failed = s.failed
         /\ r.bytes = IF offset + Word <= Length THEN Bytes(s.path, offset, offset + Word)
                      ELSE NoBytes
<1> DEFINE a == Available(s, offset, Word)
           s1 == WithBlock(s, BlockStart(offset))
           next == offset + Len(a)
           b == Available(s1, next, Word - Len(a))
           s2 == WithBlock(s1, BlockStart(next))
           stop == BlockStart(offset) + Block
           e == Lesser(Lesser(Length, stop), offset + Word)
           r == ReadWord(s, offset)
<1>1. /\ s.path \in Files /\ s.len = Length /\ Length \in Nat
      /\ Word \in Nat \ {0} /\ Block \in Nat /\ Word <= Block
  BY KnownSource, DsoAssumption DEF Faithful
<1>2. stop \in Nat /\ stop > offset /\ Within(stop) = 0 /\ BlockStart(offset) \in Nat
  BY Position
<1> HIDE DEF stop
<1>3. a = Bytes(s.path, offset, e)
  BY <1>1, AvailableIs DEF stop
<1>4. e \in Nat
  BY <1>1, <1>2 DEF Lesser
<1>5. a \in Seq(Files \X Nat) /\ Len(a) = IF offset < e THEN e - offset ELSE 0
  <2>1. s.path \in Files
    BY <1>1
  <2>2. e \in Int
    BY <1>4
  <2> HIDE DEF a, e
  <2> DEFINE bytes == Bytes(s.path, offset, e)
  <2>3. bytes \in Seq(Files \X Nat) /\ Len(bytes) = IF offset < e THEN e - offset ELSE 0
    BY <2>1, <2>2, BytesAre
  <2>4. a = bytes
    BY <1>3
  <2> QED
    BY <2>3, <2>4
<1>6. /\ s1 \in Sources /\ s1 \notin {Absent, Unusable} /\ Faithful(s1)
      /\ s1.file = s.file /\ s1.path = s.path /\ s1.failed = s.failed
  BY <1>2, WithBlockGood
<1> HIDE DEF a, s1
<1>7. Len(a) \in Nat /\ Len(a) <= Word /\ next \in Nat /\ Word - Len(a) \in Nat
  <2>1. e <= offset + Word
    BY <1>1, <1>2 DEF Lesser
  <2> HIDE DEF e
  <2> QED
    BY <1>1, <1>4, <1>5, <2>1
<1>8. CASE offset > Length
  <2>1. r = [source |-> s, bytes |-> NoBytes]
    BY <1>1, <1>8 DEF ReadWord
  <2>2. ~ (offset + Word <= Length)
    BY <1>1, <1>8
  <2> HIDE DEF r
  <2>3. r.source = s /\ r.bytes = NoBytes
    BY <2>1
  <2> QED
    BY <2>2, <2>3 DEF r
<1>9. CASE offset <= Length /\ a = <<>>
  <2>1. r = [source |-> s1, bytes |-> NoBytes]
    BY <1>1, <1>9 DEF ReadWord, a, s1
  <2>2. Len(a) = 0
    BY <1>9
  <2>3. ~ (offset + Word <= Length)
    BY <1>1, <1>2, <1>4, <1>5, <2>2 DEF Lesser
  <2> HIDE DEF r
  <2>4. r.source = s1 /\ r.bytes = NoBytes
    BY <2>1
  <2> QED
    BY <1>6, <2>3, <2>4 DEF r
<1>10. CASE offset <= Length /\ a # <<>> /\ Len(a) = Word
  <2>1. r = [source |-> s1, bytes |-> a]
    BY <1>1, <1>10 DEF ReadWord, a, s1
  <2>2. e = offset + Word /\ offset + Word <= Length
    BY <1>1, <1>2, <1>4, <1>5, <1>10 DEF Lesser
  <2> HIDE DEF r, e
  <2>3. r.source = s1 /\ r.bytes = Bytes(s.path, offset, offset + Word)
    BY <1>3, <2>1, <2>2
  <2> QED
    BY <1>6, <2>2, <2>3 DEF r
<1>11. CASE offset <= Length /\ a # <<>> /\ Len(a) # Word
  <2>1. Len(a) # 0
    BY <1>5, <1>11, EmptySeq
  <2>2. /\ next = e /\ offset < e /\ e < offset + Word
        /\ e = Length \/ (e = stop /\ e < Length)
    BY <1>1, <1>2, <1>4, <1>5, <1>11, <2>1 DEF Lesser
  <2>3. /\ r.source = s2
        /\ r.bytes = IF Len(a \o b) = Word THEN a \o b ELSE NoBytes
    BY <1>1, <1>11 DEF ReadWord, a, s1
  <2>4. BlockStart(next) \in Nat /\ Block \in Nat \ {0} /\ BlockStart(next) = next - Within(next)
        /\ Within(next) \in 0 .. Block - 1
    BY <1>7, Position
  <2>5. /\ s2 \in Sources /\ s2 \notin {Absent, Unusable} /\ Faithful(s2)
        /\ s2.file = s1.file /\ s2.path = s1.path /\ s2.failed = s1.failed
    BY <1>6, <2>4, WithBlockGood
  <2> DEFINE end == Lesser(Lesser(Length, BlockStart(next) + Block), next + (Word - Len(a)))
             want == Lesser(Length, offset + Word)
  <2>6. b = Bytes(s.path, next, end)
    <3>1. s1.file /\ s1.path \in Files
      BY <1>1, <1>6
    <3>2. b = Bytes(s1.path, next, end)
      BY <1>6, <1>7, <3>1, AvailableIs
    <3> QED
      BY <1>6, <3>2
  <2> HIDE DEF b
  <2>7. /\ next + (Word - Len(a)) = offset + Word /\ want \in Nat /\ end \in Int
        /\ want <= Length /\ want <= offset + Word /\ want \in {Length, offset + Word}
        /\ end <= Length
    <3>1. next + (Word - Len(a)) = offset + Word
      BY <1>1, <1>7
    <3>2. want \in Nat /\ want <= Length /\ want <= offset + Word /\ want \in {Length, offset + Word}
      BY <1>1 DEF Lesser
    <3>3. BlockStart(next) + Block \in Nat /\ next + (Word - Len(a)) \in Nat
      BY <1>1, <2>4, <3>1
    <3> QED
      BY <1>1, <3>1, <3>2, <3>3 DEF Lesser
  <2>8. e <= want
    <3> HIDE DEF want, e
    <3> QED
      BY <1>1, <1>2, <1>4, <2>2, <2>7
  <2>9. b = Bytes(s.path, e, want)
    <3>1. CASE e = Length
      <4> HIDE DEF want, end, e
      <4>1. want <= e /\ end <= e
        BY <2>7, <3>1
      <4>2. b = Bytes(s.path, e, end)
        BY <2>2, <2>6
      <4> QED
        BY <1>1, <1>4, <2>7, <4>1, <4>2, BytesSame
    <3>2. CASE e = stop /\ e < Length
      <4>1. BlockStart(next) = e
        BY <1>2, <1>4, <2>2, <2>4, <3>2
      <4>2. offset + Word <= e + Block
        BY <1>1, <1>2, <1>4, <2>2, <3>2
      <4>3. end = want
        <5> HIDE DEF e
        <5> QED
          BY <1>1, <1>4, <2>2, <2>7, <4>1, <4>2 DEF Lesser
      <4> QED
        BY <2>2, <2>6, <4>3
    <3> QED
      BY <2>2, <3>1, <3>2
  <2> HIDE DEF s2, r, want, end, e
  <2>10. a \o b = Bytes(s.path, offset, want) /\ offset <= want
    <3>1. offset <= e /\ e \in Nat /\ want \in Nat /\ offset <= want
      BY <1>4, <2>2, <2>7, <2>8
    <3> QED
      BY <1>1, <1>3, <2>8, <2>9, <3>1, BytesJoin
  <2>11. (Len(a \o b) = Word) <=> offset + Word <= Length
    <3>1. Len(a \o b) = want - offset
      BY <1>1, <2>7, <2>10, BytesUpTo
    <3> QED
      BY <1>1, <2>7, <3>1
  <2>12. offset + Word <= Length => want = offset + Word
    BY <1>1, <2>7
  <2>13. r.bytes = IF offset + Word <= Length THEN Bytes(s.path, offset, offset + Word) ELSE NoBytes
    BY <2>3, <2>10, <2>11, <2>12
  <2> QED
    BY <1>6, <2>3, <2>5, <2>13 DEF r
<1> QED
  <2>1. offset > Length \/ offset <= Length
    BY <1>1
  <2> QED
    BY <1>8, <1>9, <1>10, <1>11, <2>1

-----------------------------------------------------------------------------
(* The steps.                                                                *)

\* A source that stays open, or stays without a file, keeps its place.
LEMMA KeepGood ==
  ASSUME NEW st, Good(st), NEW id \in Ids, Known(st, id),
         NEW m \in Sources, m \notin {Absent, Unusable}, Faithful(m),
         m.file = st.sources[id].file
  PROVE  LET u == With(st, id, m) IN
         /\ Good(u) /\ Open(u) = Open(st) /\ u.open_order = st.open_order
         /\ u.sources = [st.sources EXCEPT ![id] = m]
<1> DEFINE u == With(st, id, m)
<1>1. /\ st \in States /\ st.sources \in [Ids -> Sources] /\ Queued(st)
      /\ \A x \in Ids : Known(st, x) => Faithful(st.sources[x])
  BY DEF Good, States
<1>2. /\ u \in States /\ u.open_order = st.open_order /\ u.sources[id] = m
      /\ u.sources = [st.sources EXCEPT ![id] = m]
      /\ \A x \in Ids \ {id} : u.sources[x] = st.sources[x]
  BY <1>1 DEF States, With
<1> HIDE DEF u
<1>3. Open(u) = Open(st)
  BY <1>2 DEF Open, Known
<1>4. Queued(u)
  BY <1>1, <1>2, <1>3 DEF Queued
<1>5. \A x \in Ids : Known(u, x) => Faithful(u.sources[x])
  BY <1>1, <1>2 DEF Known
<1> QED
  BY <1>2, <1>3, <1>4, <1>5 DEF Good, u

\* The source a word is read from, after it has been made ready.
ReadSource(st, id, offset) ==
  IF Known(st, id) /\ ~st.sources[id].failed THEN ReadWord(st.sources[id], offset).source
  ELSE st.sources[id]

\* A word is read.
LEMMA ReadGood ==
  ASSUME MemoryInv, NEW id \in Ids, NEW offset \in Nat,
         NEW st, st = Ready(State, id),
         NEW usable, usable = (Known(st, id) /\ ~st.sources[id].failed),
         NEW r, r = IF usable THEN ReadWord(st.sources[id], offset)
                    ELSE [source |-> st.sources[id], bytes |-> NoBytes],
         sources' = [st.sources EXCEPT ![id] = r.source], open_order' = st.open_order,
         last' = [id |-> id, offset |-> offset, usable |-> usable, bytes |-> r.bytes],
         UNCHANGED <<present, others>>
  PROVE  MemoryInv' /\ SelectionKept /\ FailureForced
<1>1. /\ Good(State) /\ Few(State) /\ others \in 0 .. MaxFds /\ present \subseteq Files
      /\ State = [sources |-> sources, open_order |-> open_order]
  BY DEF MemoryInv, State
<1>2. /\ Good(st) /\ Few(st) /\ \A x \in Ids \ {id} : Alike(State, st, x)
      /\ Reached(State, st, id) /\ Forced(State, st, id)
  BY <1>1, ReadyGood
<1>3. /\ st = [sources |-> st.sources, open_order |-> st.open_order]
      /\ st.sources \in [Ids -> Sources]
  BY <1>2 DEF Good, States
<1>4. /\ Good(State') /\ Open(State') = Open(st)
      /\ \A x \in Ids \ {id} : sources'[x] = st.sources[x]
      /\ usable => /\ sources'[id] \notin {Absent, Unusable}
                   /\ sources'[id].path = st.sources[id].path /\ ~sources'[id].failed
                   /\ r.bytes = IF offset + Word <= Length
                                THEN Bytes(st.sources[id].path, offset, offset + Word)
                                ELSE NoBytes
      /\ ~usable => sources'[id] = st.sources[id]
  <2>1. CASE usable
    <3> DEFINE s == st.sources[id]
    <3>1. /\ s \in Sources /\ s \notin {Absent, Unusable} /\ Faithful(s) /\ s.file /\ ~s.failed
          /\ Known(st, id) /\ r = ReadWord(s, offset)
      BY <1>2, <1>3, <2>1 DEF Good, Known, Reached
    <3> HIDE DEF s
    <3>2. /\ r.source \in Sources /\ r.source \notin {Absent, Unusable} /\ Faithful(r.source)
          /\ r.source.file = s.file /\ r.source.path = s.path /\ r.source.failed = s.failed
          /\ r.bytes = IF offset + Word <= Length THEN Bytes(s.path, offset, offset + Word)
                       ELSE NoBytes
      <4>1. Word \in Nat /\ Length \in Nat
        BY DsoAssumption
      <4>2. LET q == ReadWord(s, offset) IN
            /\ q.source \in Sources /\ q.source \notin {Absent, Unusable} /\ Faithful(q.source)
            /\ q.source.file = s.file /\ q.source.path = s.path /\ q.source.failed = s.failed
            /\ q.bytes = IF offset + Word <= Length THEN Bytes(s.path, offset, offset + Word)
                         ELSE NoBytes
        BY <3>1, WordGood, Zenon
      <4> QED
        BY <3>1, <4>1, <4>2
    <3> DEFINE u == With(st, id, r.source)
    <3>3. /\ Good(u) /\ Open(u) = Open(st) /\ u.open_order = st.open_order
          /\ u.sources = [st.sources EXCEPT ![id] = r.source]
      <4>1. r.source.file = st.sources[id].file
        BY <3>2 DEF s
      <4> HIDE DEF u
      <4>2. u = With(st, id, r.source)
        BY DEF u
      <4> QED
        BY <1>2, <3>1, <3>2, <4>1, <4>2, KeepGood
    <3>4. State' = u
      BY DEF State, With
    <3> HIDE DEF u
    <3>5. sources'[id] = r.source
      BY <1>3
    <3>6. \A x \in Ids \ {id} : sources'[x] = st.sources[x]
      BY <1>3
    <3> QED
      BY <2>1, <3>1, <3>2, <3>3, <3>4, <3>5, <3>6 DEF s
  <2>2. CASE ~usable
    <3>1. r.source = st.sources[id]
      BY <2>2
    <3>2. sources' = st.sources
      BY <1>3, <3>1
    <3>3. State' = st
      BY <1>3, <3>2 DEF State
    <3> QED
      BY <1>2, <2>2, <3>2, <3>3
  <2> QED
    BY <2>1, <2>2
<1>5. MemoryInv'
  <2>1. Few(State')
    BY <1>2 DEF Few, State
  <2>2. LastExact'
    <3>1. last'.id = id /\ last'.offset = offset /\ last'.usable = usable /\ last'.bytes = r.bytes
      OBVIOUS
    <3>2. usable => Known(State', id)
      BY <1>4 DEF Known, State
    <3>3. ASSUME usable
          PROVE  last'.bytes = IF last'.offset + Word <= Length
                               THEN Bytes(sources'[last'.id].path, last'.offset, last'.offset + Word)
                               ELSE NoBytes
      BY <1>4, <3>1, <3>3
    <3> QED
      BY <3>1, <3>2, <3>3 DEF LastExact, ReadExact
  <2> QED
    BY <1>1, <1>4, <2>1, <2>2 DEF MemoryInv
<1>6. ASSUME NEW x \in Ids
      PROVE  /\ sources[x] = Unusable => sources'[x] = Unusable
             /\ Known(State, x) => /\ Known(State', x) /\ sources'[x].path = sources[x].path
                                   /\ sources[x].failed => sources'[x].failed
  <2>1. State.sources = sources /\ State'.sources = sources'
    BY DEF State
  <2>2. CASE x = id
    BY <1>2, <1>4, <2>1, <2>2 DEF Reached, Known
  <2>3. CASE x # id
    BY <1>2, <1>4, <2>1, <2>3 DEF Alike, Known
  <2> QED
    BY <2>2, <2>3
<1>7. ASSUME NEW x \in Ids, Readable(x), Installed(x), GivenUp(x)'
      PROVE  others = MaxFds /\ Open(State') = {}
  <2>1. State.sources = sources /\ State'.sources = sources' /\ Absent # Unusable
    BY DsoAssumption DEF State
  <2>2. /\ sources[x] = Absent \/ (Known(State, x) /\ ~sources[x].failed)
        /\ sources'[x] = Unusable \/ (Known(State', x) /\ sources'[x].failed)
        /\ <<x, "system">> \in present /\ (Known(State, x) => sources[x].path \in present)
    BY <1>7 DEF Readable, Installed, GivenUp
  <2>3. x = id
    BY <1>2, <1>4, <2>1, <2>2 DEF Alike, Known
  <2>4. st.sources[id] = Unusable \/ (Known(st, id) /\ st.sources[id].failed)
    BY <1>4, <2>1, <2>2, <2>3 DEF Known
  <2> QED
    BY <1>2, <1>4, <2>1, <2>2, <2>3, <2>4 DEF Forced
<1> QED
  BY <1>5, <1>6, <1>7 DEF SelectionKept, FailureForced

\* Before anything is read no file is open.
LEMMA MemoryStart == Init => MemoryInv
<1> SUFFICES ASSUME Init PROVE MemoryInv
  OBVIOUS
<1>1. /\ sources = [id \in Ids |-> Absent] /\ open_order = <<>> /\ present = Files /\ others = 0
      /\ last.usable = FALSE
  BY DEF Init
<1>2. FdLimit \in Nat /\ MaxFds \in Nat
  BY DsoAssumption
<1>3. State \in States
  BY <1>1 DEF State, States, Sources
<1>4. \A id \in Ids : ~Known(State, id)
  BY <1>1 DEF State, Known
<1>5. Open(State) = {}
  BY <1>4 DEF Open
<1>6. State.open_order = <<>> /\ Len(State.open_order) = 0
  BY <1>1 DEF State
<1>7. Queued(State)
  BY <1>5, <1>6 DEF Queued
<1>8. Few(State)
  <2>1. 1 \in Int /\ FdLimit - 1 \in Int
    BY <1>2
  <2>2. Max({1, FdLimit - 1}) = IF 1 >= FdLimit - 1 THEN 1 ELSE FdLimit - 1
    BY <2>1, MaxPair
  <2> QED
    BY <1>6, <2>1, <2>2 DEF Few
<1> QED
  BY <1>1, <1>2, <1>3, <1>4, <1>7, <1>8 DEF MemoryInv, Good, LastExact, ReadExact

\* Every step keeps the invariant and what the first open of a source decided.
LEMMA MemoryNext ==
  MemoryInv /\ [Next]_vars => MemoryInv' /\ (SelectionKept /\ FailureForced)
<1> SUFFICES ASSUME MemoryInv, [Next]_vars PROVE MemoryInv' /\ (SelectionKept /\ FailureForced)
  OBVIOUS
<1>1. CASE Read
  <2>1. PICK id \in Ids, offset \in Offsets :
          LET st == Ready(State, id)
              usable == Known(st, id) /\ ~st.sources[id].failed
              r == IF usable THEN ReadWord(st.sources[id], offset)
                   ELSE [source |-> st.sources[id], bytes |-> NoBytes]
          IN /\ sources' = [st.sources EXCEPT ![id] = r.source]
             /\ open_order' = st.open_order
             /\ last' = [id |-> id, offset |-> offset, usable |-> usable, bytes |-> r.bytes]
             /\ UNCHANGED <<present, others>>
    BY <1>1 DEF Read
  <2>2. offset \in Nat
    BY DsoAssumption
  <2> QED
    BY <2>1, <2>2, ReadGood
<1>2. ASSUME UNCHANGED <<sources, open_order, last>>, present' \subseteq Files, others' \in 0 .. MaxFds
      PROVE  MemoryInv' /\ (SelectionKept /\ FailureForced)
  <2>1. State' = State
    BY <1>2 DEF State
  <2>2. MemoryInv'
    BY <1>2, <2>1 DEF MemoryInv, LastExact, ReadExact
  <2>3. SelectionKept
    BY <1>2, <2>1 DEF SelectionKept
  <2>4. FailureForced
    BY <1>2, <2>1, DsoAssumption DEF FailureForced, Readable, GivenUp, Known, State
  <2> QED
    BY <2>2, <2>3, <2>4
<1>3. CASE Install \/ Uninstall \/ UNCHANGED vars
  BY <1>2, <1>3 DEF Install, Uninstall, vars, MemoryInv
<1>4. CASE OthersChange
  <2>1. MaxFds - Cardinality(Open(State)) \in Int /\ MaxFds - Cardinality(Open(State)) <= MaxFds
    <3>1. IsFiniteSet(Open(State))
      <4>1. Len(open_order) \in Nat /\ State.open_order = open_order
        BY AllClosable DEF MemoryInv, State
      <4> DEFINE f == [i \in 1 .. Len(open_order) |-> open_order[i]]
      <4>2. f \in Surjection(1 .. Len(open_order), Open(State))
        BY <4>1 DEF Surjection, MemoryInv, Good, Queued
      <4>3. IsFiniteSet(1 .. Len(open_order))
        BY <4>1, FS_Interval
      <4> QED
        BY <4>2, <4>3, FS_Surjection
    <3>2. Cardinality(Open(State)) \in Nat
      BY <3>1, FS_CardinalityType
    <3> QED
      BY <3>2, DsoAssumption
  <2>2. others' \in 0 .. MaxFds
    BY <1>4, <2>1, DsoAssumption DEF OthersChange
  <2> QED
    BY <1>2, <1>4, <2>2 DEF OthersChange, MemoryInv
<1> QED
  BY <1>1, <1>3, <1>4 DEF Next

\* What the invariant says of the sources is what is checked of them.
LEMMA InvMemory == MemoryInv => MemoryExact
<1> SUFFICES ASSUME MemoryInv PROVE MemoryExact
  OBVIOUS
<1>1. /\ State.sources = sources /\ State.open_order = open_order
      /\ sources \in [Ids -> Sources] /\ open_order \in Seq(Ids) /\ Len(open_order) \in Nat
      /\ Queued(State) /\ \A id \in Ids : Known(State, id) => Faithful(sources[id])
  BY LenProperties DEF MemoryInv, Good, States, State
<1>2. TypeOK
  <2>1. ASSUME NEW id \in Ids, sources[id] \notin {Absent, Unusable} PROVE IsDsoMemory(sources[id])
    <3>1. PICK S \in SUBSET (0 .. Length) : sources[id] \in DsoMemories(S)
      BY <1>1, <2>1, KnownSource
    <3>2. DOMAIN sources[id].blocks = S
      BY <3>1 DEF DsoMemories
    <3> QED
      BY <1>1, <2>1, <3>1, <3>2 DEF IsDsoMemory, Known, Faithful
  <2> QED
    BY <1>1, <2>1 DEF TypeOK, MemoryInv
<1>3. OrderExact
  <2> DEFINE f == [i \in 1 .. Len(open_order) |-> open_order[i]]
             F == Open(State)
  <2>1. ToSet(open_order) = F
    BY <1>1 DEF ToSet, Queued
  <2>2. f \in Bijection(1 .. Len(open_order), F)
    <3>1. f \in [1 .. Len(open_order) -> F]
      BY <1>1 DEF Queued
    <3>2. \A i, j \in 1 .. Len(open_order) : f[i] = f[j] => i = j
      BY <1>1 DEF Queued
    <3>3. \A id \in F : \E i \in 1 .. Len(open_order) : f[i] = id
      BY <1>1 DEF Queued
    <3> HIDE DEF f, F
    <3> QED
      BY <3>1, <3>2, <3>3 DEF Bijection, Injection, Surjection, IsInjective
  <2>3. Cardinality(F) = Len(open_order)
    BY <1>1, <2>2, FS_CountingElements DEF ExistsBijection
  <2> QED
    BY <2>1, <2>3 DEF OrderExact
<1>4. FewOpen
  BY <1>1, <1>3 DEF FewOpen, OrderExact, MemoryInv, Few
<1> QED
  BY <1>2, <1>3, <1>4 DEF MemoryExact, MemoryInv, LastExact

\* What is read through descriptors given back oldest first is what the file
\* selected first has; each open file is in the queue once, and fewer than half the
\* limit are open after any read.
THEOREM MemoryIsExact == Spec => []MemoryExact
<1>1. Init => MemoryInv
  BY MemoryStart
<1>2. MemoryInv /\ [Next]_vars => MemoryInv'
  BY MemoryNext
<1>3. MemoryInv => MemoryExact
  BY InvMemory
<1> QED
  BY <1>1, <1>2, <1>3, PTL DEF Spec

\* The path selected by the first open is never selected again, a source that failed
\* stays failed, and it fails only where the rest of the process holds every
\* descriptor.
THEOREM SourcesAreKept == Spec => SourcesKept
<1>1. Init => MemoryInv
  BY MemoryStart
<1>2. MemoryInv /\ [Next]_vars => MemoryInv' /\ (SelectionKept /\ FailureForced)
  BY MemoryNext
<1> QED
  BY <1>1, <1>2, PTL DEF Spec, SourcesKept

-----------------------------------------------------------------------------
(* The cache of frames.                                                      *)

(* The inductive invariant.                                                  *)

Keys == Frames!UserKeys \cup Frames!KernelKeys

Rendered ==
  {Frames!Unresolved} \cup {Frames!UserFrames(k, m) : k \in Frames!UserKeys, m \in Frames!Modes}
    \cup {Frames!ObjectFrames(k, m) : k \in Frames!KernelKeys, m \in Frames!Modes}
    \cup {Frames!CoreFrames(k, m) : k \in Frames!KernelKeys, m \in Frames!Modes}
Entries == [frames : Rendered, revision : Nat, script : BOOLEAN]

Partial(A, B) == UNION {[S -> B] : S \in SUBSET A}
Option(S) == S \cup {Nothing}
Hints == [address : Frames!Addresses, slot : Option(Nat)]
Slots == [by_address : Partial(Frames!Addresses, Nat), unavailable : BOOLEAN, last_address : Option(Hints)]
Tables ==
  [by_source : Partial(Frames!Sources, Slots), last_source : Option([source : Frames!Sources, indexed : BOOLEAN]),
   last_address : Option(Hints), kernel : Partial(Frames!KernelKeys, Nat), frames : Seq(Entries),
   last_revision : Nat]

\* The slot of a key without hints, and what it holds.
Plain(t, k) ==
  IF Frames!IsUser(k) THEN Frames!PlainSlot(t, k.source, k.address)
  ELSE IF k \in DOMAIN t.kernel THEN t.kernel[k] ELSE Nothing
Held(t, k) == Plain(t, k) # Nothing
Value(t, k) == Frames!AtSlot(t, Plain(t, k)).frames

\* Every key has a slot of its own, or the one of those without symbol.
SlotsOwn(t) ==
  /\ \A k \in Keys : Plain(t, k) \in Option(0 .. Len(t.frames))
  /\ \A k, l \in Keys : k # l /\ Plain(t, k) = Plain(t, l) => Plain(t, k) \in {0, Nothing}
  /\ \A s \in DOMAIN t.by_source : t.by_source[s].unavailable => DOMAIN t.by_source[s].by_address = {}

Revisions(t) ==
  /\ \A i \in 1 .. Len(t.frames) : t.frames[i].revision <= t.last_revision
  /\ \A i, j \in 1 .. Len(t.frames) :
       t.frames[i].revision = t.frames[j].revision /\ t.frames[i].revision # 0 => i = j

\* A hint is the answer of the search it saves.
HintsTrue(t) ==
  /\ \A s \in DOMAIN t.by_source :
       LET h == t.by_source[s].last_address
       IN h # Nothing =>
            ~t.by_source[s].unavailable /\ h.slot = Frames!PlainSlot(t, s, h.address)
  /\ t.last_source # Nothing =>
       /\ t.last_source.source \in DOMAIN t.by_source
       /\ t.last_source.indexed = ~t.by_source[t.last_source.source].unavailable
       /\ t.last_address # Nothing =>
            t.last_address.slot = Frames!PlainSlot(t, t.last_source.source, t.last_address.address)

TableOK(t) == t \in Tables /\ SlotsOwn(t) /\ Revisions(t) /\ HintsTrue(t)

Caches ==
  [tables : [Frames!Modes -> Tables], core : BOOLEAN,
   replaced : SUBSET [mode : Frames!Modes, key : Frames!ModuleKeys, object : BOOLEAN],
   pending : SUBSET [mode : Frames!Modes, key : Frames!ModuleKeys]]

\* What the resolver says of the kernel once the core is loaded.
Final(k, m) ==
  IF k # MainKey /\ loading[k.map] = "object" THEN Frames!ObjectFrames(k, m) ELSE Frames!CoreFrames(k, m)

ReplacedMap(map) == loading[map] \in {"replaced", "objectReplaced"}
\* What nodes in a map replaced under the cursor are printed with.
Old(k, m) == IF loading[k.map] = "objectReplaced" THEN Frames!ObjectFrames(k, m) ELSE Frames!Unresolved

UserTrue(c) ==
  \A m \in Frames!Modes :
    /\ \A s \in DOMAIN c.tables[m].by_source :
         c.tables[m].by_source[s].unavailable => s \in unavailable
    /\ \A k \in Frames!UserKeys : Held(c.tables[m], k) => Value(c.tables[m], k) = Frames!UserAnswer(k, m).frames

KernelTrue(c) ==
  \A m \in Frames!Modes, k \in Frames!KernelKeys :
    Held(c.tables[m], k) =>
      /\ Value(c.tables[m], k) = Final(k, m) \/ [mode |-> m, key |-> k] \in Frames!Retired(c)
      /\ ~c.core /\ Frames!IsModule(k) => loading[k.map] \in {"object", "miss"}

NotesTrue(c) ==
  /\ \A e \in c.replaced :
       /\ ReplacedMap(e.key.map) /\ e.object = (loading[e.key.map] = "objectReplaced")
       /\ Held(c.tables[e.mode], e.key) /\ Value(c.tables[e.mode], e.key) = Old(e.key, e.mode)
  /\ ~c.core => c.replaced = {}

CacheOK(c) ==
  /\ c \in Caches /\ \A m \in Frames!Modes : TableOK(c.tables[m])
  /\ UserTrue(c) /\ KernelTrue(c) /\ NotesTrue(c)

CursorInv ==
  /\ kernel_cursor_hint = Nothing => replaced_kernel_entries = {}
  /\ kernel_cursor_hint # Nothing =>
       /\ kernel_cursor_hint \in [map : Frames!Maps, object : BOOLEAN] /\ core /\ text
       /\ ReplacedMap(kernel_cursor_hint.map)
       /\ kernel_cursor_hint.object = (loading[kernel_cursor_hint.map] = "objectReplaced")
       /\ \A m \in Frames!Modes, k \in Frames!ModuleKeys :
            k.map = kernel_cursor_hint.map /\ Held(tables[m], k) =>
              [mode |-> m, key |-> k, object |-> kernel_cursor_hint.object] \in replaced_kernel_entries
  /\ retained_sample_ip \in Option({MainKey})
  /\ retained_sample_ip # Nothing => core /\ kernel_cursor_hint = Nothing

SampleInv ==
  /\ text \in BOOLEAN /\ began \in BOOLEAN
  /\ began => /\ core /\ kernel_cursor_hint = Nothing
              /\ replaced_kernel_entries = {} /\ pending_kernel_module_misses = {}
  /\ run \in Option(Frames!Maps)
  /\ run # Nothing => kernel_cursor_hint # Nothing /\ run = kernel_cursor_hint.map

ServedInv ==
  /\ served # Nothing => served.mode \in Frames!Modes /\ served.key \in Keys
  /\ Frames!UserServed /\ Frames!NothingStale /\ Frames!RunKeepsSource

ProjectedInv ==
  projected # Nothing =>
    /\ projected.mode \in Frames!Modes /\ projected.revision \in Nat \ {0}
    /\ projected.revision <= tables[projected.mode].last_revision
    /\ Frames!IdentityKept

WorldInv ==
  recording \in Recordings /\ unavailable \subseteq Frames!Sources /\ loading \in [Frames!Maps -> Frames!Loadings]

FrameInv == WorldInv /\ CacheOK(Frames!Cache) /\ CursorInv /\ SampleInv /\ ServedInv /\ ProjectedInv

-----------------------------------------------------------------------------
(* Functions and keys.                                                       *)

\* A partial function is one with its domain and values in the sets.
LEMMA PartialIs ==
  ASSUME NEW A, NEW B, NEW f
  PROVE  f \in Partial(A, B) <=>
           /\ f = [x \in DOMAIN f |-> f[x]] /\ DOMAIN f \subseteq A
           /\ \A x \in DOMAIN f : f[x] \in B
<1>1. ASSUME f \in Partial(A, B)
      PROVE  f = [x \in DOMAIN f |-> f[x]] /\ DOMAIN f \subseteq A /\ \A x \in DOMAIN f : f[x] \in B
  <2>1. PICK S \in SUBSET A : f \in [S -> B]
    BY <1>1 DEF Partial
  <2> QED
    BY <2>1
<1>2. ASSUME f = [x \in DOMAIN f |-> f[x]], DOMAIN f \subseteq A, \A x \in DOMAIN f : f[x] \in B
      PROVE  f \in Partial(A, B)
  <2>1. f \in [DOMAIN f -> B]
    BY <1>2
  <2> QED
    BY <1>2, <2>1 DEF Partial
<1> QED
  BY <1>1, <1>2

\* A function changed or extended at one point.
LEMMA PutAt ==
  ASSUME NEW f, NEW x, NEW v
  PROVE  /\ \A y : y \in DOMAIN Frames!Put(f, x, v) <=> y \in DOMAIN f \/ y = x
         /\ Frames!Put(f, x, v)[x] = v
         /\ \A y : y \in DOMAIN f /\ y # x => Frames!Put(f, x, v)[y] = f[y]
BY DEF Frames!Put

\* Its domain.
LEMMA PutDomain ==
  ASSUME NEW f, NEW x, NEW v
  PROVE  DOMAIN Frames!Put(f, x, v) = DOMAIN f \cup {x}
BY DEF Frames!Put

\* It stays partial.
LEMMA PutIn ==
  ASSUME NEW A, NEW B, NEW f \in Partial(A, B), NEW x \in A, NEW v \in B
  PROVE  Frames!Put(f, x, v) \in Partial(A, B)
<1>1. DOMAIN f \subseteq A /\ \A y \in DOMAIN f : f[y] \in B
  BY PartialIs
<1>2. Frames!Put(f, x, v) = [y \in DOMAIN Frames!Put(f, x, v) |-> Frames!Put(f, x, v)[y]]
  BY DEF Frames!Put
<1>3. DOMAIN Frames!Put(f, x, v) \subseteq A /\ \A y \in DOMAIN Frames!Put(f, x, v) : Frames!Put(f, x, v)[y] \in B
  BY <1>1, PutAt
<1> QED
  BY <1>2, <1>3, PartialIs

\* A function without some points.
LEMMA WithoutIs ==
  ASSUME NEW A, NEW B, NEW f \in Partial(A, B), NEW S
  PROVE  /\ Frames!Without(f, S) \in Partial(A, B)
         /\ DOMAIN Frames!Without(f, S) = DOMAIN f \ S
         /\ \A y \in DOMAIN f \ S : Frames!Without(f, S)[y] = f[y]
<1>1. DOMAIN f \subseteq A /\ \A y \in DOMAIN f : f[y] \in B
  BY PartialIs
<1>2. /\ DOMAIN Frames!Without(f, S) = DOMAIN f \ S
      /\ \A y \in DOMAIN f \ S : Frames!Without(f, S)[y] = f[y]
      /\ Frames!Without(f, S) = [y \in DOMAIN Frames!Without(f, S) |-> Frames!Without(f, S)[y]]
  BY DEF Frames!Without
<1>3. \A y \in DOMAIN Frames!Without(f, S) : Frames!Without(f, S)[y] \in B
  BY <1>1, <1>2
<1> QED
  BY <1>1, <1>2, <1>3, PartialIs

\* The empty function is partial.
LEMMA NoneIs ==
  ASSUME NEW A, NEW B
  PROVE  <<>> \in Partial(A, B) /\ DOMAIN <<>> = {}
<1>1. DOMAIN <<>> = {} /\ <<>> = [x \in DOMAIN <<>> |-> <<>>[x]]
  OBVIOUS
<1> QED
  BY <1>1, PartialIs

\* Keys of user code, of modules and of the core are told apart.
LEMMA KeysApart ==
  ASSUME WorldInv
  PROVE  /\ \A k \in Frames!UserKeys :
              k.source \in Frames!Sources /\ k.address \in Frames!Addresses /\ k \notin Frames!KernelKeys
         /\ \A k, l \in Frames!UserKeys : k.source = l.source /\ k.address = l.address => k = l
         /\ \A s \in Frames!Sources, a \in Frames!Addresses :
              /\ [source |-> s, address |-> a] \in Frames!UserKeys
              /\ [source |-> s, address |-> a].source = s /\ [source |-> s, address |-> a].address = a
         /\ \A k \in Frames!ModuleKeys : k.map \in Frames!Maps /\ k \in Frames!KernelKeys
         /\ MainKey \notin Frames!ModuleKeys /\ MainKey \in Frames!KernelKeys
         /\ Nothing \notin Nat
<1>1. MainKey \notin Frames!UserKeys /\ MainKey \notin Frames!ModuleKeys /\ Nothing \notin Nat
  BY FrameConstants DEF WorldInv, Frames!CacheAssumption, Frames!UserKeys, Frames!ModuleKeys, Frames!Sources, Frames!Addresses, Frames!Maps, Frames!MapAddresses
<1>2. \A k \in Frames!UserKeys : k \notin Frames!ModuleKeys
  <2>1. ASSUME NEW k \in Frames!UserKeys, k \in Frames!ModuleKeys PROVE FALSE
    <3>1. DOMAIN k = {"source", "address"}
      BY <2>1 DEF Frames!UserKeys
    <3>2. DOMAIN k = {"map", "address"}
      BY <2>1 DEF Frames!ModuleKeys
    <3> QED
      BY <3>1, <3>2
  <2> QED
    BY <2>1
<1> QED
  BY <1>1, <1>2 DEF Frames!UserKeys, Frames!ModuleKeys, Frames!KernelKeys

-----------------------------------------------------------------------------
(* Hints.                                                                    *)

\* What a table holds.
LEMMA TableShape ==
  ASSUME NEW t \in Tables
  PROVE  /\ t = [by_source |-> t.by_source, last_source |-> t.last_source,
                 last_address |-> t.last_address, kernel |-> t.kernel, frames |-> t.frames,
                 last_revision |-> t.last_revision]
         /\ t.by_source = [s \in DOMAIN t.by_source |-> t.by_source[s]]
         /\ DOMAIN t.by_source \subseteq Frames!Sources
         /\ \A s \in DOMAIN t.by_source :
              /\ t.by_source[s] \in Slots /\ DOMAIN t.by_source[s].by_address \subseteq Frames!Addresses
              /\ \A a \in DOMAIN t.by_source[s].by_address : t.by_source[s].by_address[a] \in Nat
         /\ DOMAIN t.kernel \subseteq Frames!KernelKeys /\ \A k \in DOMAIN t.kernel : t.kernel[k] \in Nat
         /\ t.frames \in Seq(Entries) /\ t.last_revision \in Nat
<1>1. /\ t.by_source \in Partial(Frames!Sources, Slots) /\ t.kernel \in Partial(Frames!KernelKeys, Nat)
      /\ t.frames \in Seq(Entries) /\ t.last_revision \in Nat
      /\ t = [by_source |-> t.by_source, last_source |-> t.last_source,
              last_address |-> t.last_address, kernel |-> t.kernel, frames |-> t.frames,
              last_revision |-> t.last_revision]
  BY DEF Tables
<1>2. /\ t.by_source = [s \in DOMAIN t.by_source |-> t.by_source[s]]
      /\ DOMAIN t.by_source \subseteq Frames!Sources
      /\ \A s \in DOMAIN t.by_source : t.by_source[s] \in Slots
  BY <1>1, PartialIs
<1>3. DOMAIN t.kernel \subseteq Frames!KernelKeys /\ \A k \in DOMAIN t.kernel : t.kernel[k] \in Nat
  BY <1>1, PartialIs
<1>4. ASSUME NEW s \in DOMAIN t.by_source
      PROVE  /\ DOMAIN t.by_source[s].by_address \subseteq Frames!Addresses
             /\ \A a \in DOMAIN t.by_source[s].by_address : t.by_source[s].by_address[a] \in Nat
  <2>1. t.by_source[s].by_address \in Partial(Frames!Addresses, Nat)
    BY <1>2 DEF Slots
  <2> QED
    BY <2>1, PartialIs
<1> QED
  BY <1>1, <1>2, <1>3, <1>4

\* Tables that differ in their hints only.
Same(t, u) ==
  /\ u.kernel = t.kernel /\ u.frames = t.frames /\ u.last_revision = t.last_revision
  /\ DOMAIN u.by_source = DOMAIN t.by_source
  /\ \A s \in DOMAIN t.by_source :
       /\ u.by_source[s].by_address = t.by_source[s].by_address
       /\ u.by_source[s].unavailable = t.by_source[s].unavailable

\* What differs twice by its hints differs by its hints.
LEMMA SameSame ==
  ASSUME NEW t, NEW u, NEW v, Same(t, u), Same(u, v)
  PROVE  Same(t, v)
<1>1. /\ v.kernel = t.kernel /\ v.frames = t.frames /\ v.last_revision = t.last_revision
      /\ DOMAIN v.by_source = DOMAIN t.by_source /\ DOMAIN u.by_source = DOMAIN t.by_source
  BY DEF Same
<1>2. \A s \in DOMAIN t.by_source :
        /\ v.by_source[s].by_address = t.by_source[s].by_address
        /\ v.by_source[s].unavailable = t.by_source[s].unavailable
  BY <1>1 DEF Same
<1> QED
  BY <1>1, <1>2 DEF Same

\* Without hints they give the same answers.
LEMMA SamePlain ==
  ASSUME NEW t, NEW u, Same(t, u)
  PROVE  /\ \A s, a : Frames!PlainSlot(u, s, a) = Frames!PlainSlot(t, s, a)
         /\ \A k : Plain(u, k) = Plain(t, k) /\ Held(u, k) = Held(t, k)
                   /\ Frames!AtSlot(u, Plain(u, k)) = Frames!AtSlot(t, Plain(t, k)) /\ Value(u, k) = Value(t, k)
<1>1. \A s, a : Frames!PlainSlot(u, s, a) = Frames!PlainSlot(t, s, a)
  BY DEF Same, Frames!PlainSlot
<1>2. \A k : Plain(u, k) = Plain(t, k)
  BY <1>1 DEF Same, Plain
<1>3. \A n : Frames!AtSlot(u, n) = Frames!AtSlot(t, n)
  BY DEF Same, Frames!AtSlot
<1> QED
  BY <1>1, <1>2, <1>3 DEF Held, Value

\* Hints that are true keep a table good.
LEMMA SameOK ==
  ASSUME NEW t, NEW u \in Tables, TableOK(t), Same(t, u), HintsTrue(u)
  PROVE  TableOK(u)
<1>1. SlotsOwn(u)
  <2>1. \A k \in Keys : Plain(u, k) = Plain(t, k)
    BY SamePlain
  <2>2. SlotsOwn(t)
    BY DEF TableOK
  <2> QED
    BY <2>1, <2>2 DEF SlotsOwn, Same
<1>2. Revisions(u)
  BY DEF TableOK, Revisions, Same
<1> QED
  BY <1>1, <1>2 DEF TableOK

\* A source becomes the hint.
LEMMA PublishedOK ==
  ASSUME NEW t, TableOK(t), NEW s \in DOMAIN t.by_source
  PROVE  LET u == Frames!Published(t, s, ~t.by_source[s].unavailable)
         IN /\ TableOK(u) /\ Same(t, u) /\ u.last_source.source = s
            /\ u.last_source.indexed = ~t.by_source[s].unavailable
            /\ u.by_source = t.by_source
<1> DEFINE i == ~t.by_source[s].unavailable
           u == Frames!Published(t, s, i)
<1>1. t \in Tables /\ HintsTrue(t)
  BY DEF TableOK
<1>2. s \in Frames!Sources /\ i \in BOOLEAN
  BY <1>1, TableShape
<1> HIDE DEF i
<1>3. /\ u.by_source = t.by_source /\ u.last_source = [source |-> s, indexed |-> i]
      /\ u.last_address = Nothing /\ u.kernel = t.kernel /\ u.frames = t.frames
      /\ u.last_revision = t.last_revision
  BY <1>1 DEF Frames!Published, Tables
<1>4. [source |-> s, indexed |-> i] \in [source : Frames!Sources, indexed : BOOLEAN]
  BY <1>2
<1>5. u \in Tables
  BY <1>1, <1>4 DEF Tables, Option, Frames!Published
<1>6. Same(t, u)
  BY <1>3 DEF Same
<1>7. HintsTrue(u)
  <2>1. \A r, a : Frames!PlainSlot(u, r, a) = Frames!PlainSlot(t, r, a)
    BY <1>6, SamePlain
  <2>2. u.by_source = t.by_source /\ u.last_source = [source |-> s, indexed |-> i]
        /\ u.last_address = Nothing
    BY <1>3
  <2>3. u.last_source.source = s /\ u.last_source.indexed = i
    BY <2>2
  <2>4. i = ~t.by_source[s].unavailable
    BY DEF i
  <2>5. \A r \in DOMAIN t.by_source :
          t.by_source[r].last_address # Nothing =>
            /\ ~t.by_source[r].unavailable
            /\ t.by_source[r].last_address.slot = Frames!PlainSlot(t, r, t.by_source[r].last_address.address)
    BY <1>1 DEF HintsTrue
  <2> QED
    BY <2>1, <2>2, <2>3, <2>4, <2>5 DEF HintsTrue
<1>8. TableOK(u)
  BY <1>5, <1>6, <1>7, SameOK
<1>9. u.by_source = t.by_source /\ u.last_source.source = s /\ u.last_source.indexed = i
  BY <1>3
<1> QED
  BY <1>6, <1>8, <1>9 DEF i

\* A hint of the table is set from one that is true.
LEMMA HintSet ==
  ASSUME NEW t, TableOK(t), NEW h \in Hints, t.last_source.source \in DOMAIN t.by_source,
         h.slot = Frames!PlainSlot(t, t.last_source.source, h.address)
  PROVE  LET u == [t EXCEPT !.last_address = h] IN TableOK(u) /\ Same(t, u)
<1> DEFINE u == [t EXCEPT !.last_address = h]
<1>1. t \in Tables /\ HintsTrue(t)
  BY DEF TableOK
<1>2. /\ u.by_source = t.by_source /\ u.last_source = t.last_source /\ u.last_address = h
      /\ u.kernel = t.kernel /\ u.frames = t.frames /\ u.last_revision = t.last_revision
  BY <1>1 DEF Tables
<1>3. u \in Tables
  BY <1>1 DEF Tables, Option
<1>4. Same(t, u)
  BY <1>2 DEF Same
<1>5. HintsTrue(u)
  <2>1. \A r, a : Frames!PlainSlot(u, r, a) = Frames!PlainSlot(t, r, a)
    BY <1>4, SamePlain
  <2>2. u.by_source = t.by_source /\ u.last_source = t.last_source /\ u.last_address = h
    BY <1>2
  <2> QED
    BY <1>1, <2>1, <2>2 DEF HintsTrue
<1> QED
  BY <1>3, <1>4, <1>5, SameOK

\* An address is looked up in the source of the hint.
LEMMA LookupOK ==
  ASSUME WorldInv, NEW t, TableOK(t), NEW s \in DOMAIN t.by_source, NEW a \in Frames!Addresses,
         t.last_source.source = s, ~t.by_source[s].unavailable
  PROVE  LET f == Frames!LookupAddress(t, s, a)
         IN f.slot = Frames!PlainSlot(t, s, a) /\ TableOK(f.table) /\ Same(t, f.table)
<1> DEFINE by == t.by_source[s].by_address
           slot == IF a \in DOMAIN by THEN by[a] ELSE Nothing
           hit == [address |-> a, slot |-> slot]
           r == [t.by_source[s] EXCEPT !.last_address = hit]
           v == [t EXCEPT !.by_source[s].last_address = hit]
           u == [v EXCEPT !.last_address = hit]
<1>1. t \in Tables /\ HintsTrue(t) /\ s \in Frames!Sources /\ t.by_source[s] \in Slots
  BY TableShape DEF TableOK
<1>2. slot = Frames!PlainSlot(t, s, a) /\ slot \in Option(Nat)
  BY <1>1, TableShape DEF Frames!PlainSlot, Option
<1> HIDE DEF slot
<1>3. hit \in Hints /\ hit.slot = slot /\ hit.address = a
  BY <1>2 DEF Hints
<1> HIDE DEF hit
<1>4. r \in Slots /\ r.by_address = by /\ r.unavailable = t.by_source[s].unavailable
      /\ r.last_address = hit
  BY <1>1, <1>3 DEF Slots, Option
<1>5. /\ v.by_source = [t.by_source EXCEPT ![s] = r] /\ v.last_source = t.last_source
      /\ v.last_address = t.last_address /\ v.kernel = t.kernel /\ v.frames = t.frames
      /\ v.last_revision = t.last_revision
  BY <1>1 DEF Tables
<1>v. v = [t EXCEPT !.by_source = [t.by_source EXCEPT ![s] = r]]
  OBVIOUS
<1> HIDE DEF v, r
<1>6. /\ DOMAIN v.by_source = DOMAIN t.by_source /\ v.by_source[s] = r
      /\ \A q \in DOMAIN t.by_source : q # s => v.by_source[q] = t.by_source[q]
      /\ v.by_source = [q \in DOMAIN v.by_source |-> v.by_source[q]]
  <2>1. t.by_source = [q \in DOMAIN t.by_source |-> t.by_source[q]]
    BY <1>1, TableShape
  <2>2. v.by_source = [t.by_source EXCEPT ![s] = r]
    BY <1>5
  <2> QED
    BY <2>1, <2>2
<1>7. v \in Tables
  <2> DEFINE B == [t.by_source EXCEPT ![s] = r]
  <2>1. \A q \in DOMAIN v.by_source : v.by_source[q] \in Slots
    BY <1>1, <1>4, <1>6, TableShape
  <2>2. v.by_source \in Partial(Frames!Sources, Slots)
    <3> DEFINE g == v.by_source
    <3>1. g = [q \in DOMAIN g |-> g[q]] /\ \A q \in DOMAIN g : g[q] \in Slots
      BY <1>6, <2>1
    <3>2. DOMAIN g \subseteq Frames!Sources
      BY <1>1, <1>6, TableShape
    <3> HIDE DEF g
    <3>3. g \in Partial(Frames!Sources, Slots)
      BY <3>1, <3>2, PartialIs
    <3> QED
      BY <3>3 DEF g
  <2>3. B \in Partial(Frames!Sources, Slots)
    BY <1>5, <2>2
  <2> HIDE DEF B
  <2>4. [t EXCEPT !.by_source = B] \in Tables
    BY <1>1, <2>3 DEF Tables
  <2> QED
    BY <1>v, <2>4 DEF B
<1>8. Same(t, v)
  BY <1>4, <1>5, <1>6 DEF Same
<1>9. HintsTrue(v)
  <2>1. \A q, b : Frames!PlainSlot(v, q, b) = Frames!PlainSlot(t, q, b)
    BY <1>8, SamePlain
  <2>2. v.last_source = t.last_source /\ v.last_address = t.last_address
    BY <1>5
  <2>3. ASSUME NEW q \in DOMAIN v.by_source, v.by_source[q].last_address # Nothing
        PROVE  /\ ~v.by_source[q].unavailable
               /\ v.by_source[q].last_address.slot = Frames!PlainSlot(v, q, v.by_source[q].last_address.address)
    <3>1. CASE q = s
      BY <1>2, <1>3, <1>4, <1>6, <2>1, <3>1
    <3>2. CASE q # s
      BY <1>1, <1>6, <2>1, <2>3, <3>2 DEF HintsTrue
    <3> QED
      BY <3>1, <3>2
  <2>4. \A q \in DOMAIN t.by_source : v.by_source[q].unavailable = t.by_source[q].unavailable
    BY <1>4, <1>6
  <2> QED
    BY <1>1, <1>6, <2>1, <2>2, <2>3, <2>4 DEF HintsTrue
<1>10. TableOK(v)
  BY <1>7, <1>8, <1>9, SameOK
<1>11. TableOK(u) /\ Same(v, u)
  <2>1. v.last_source.source = s
    BY <1>5
  <2>2. hit.slot = Frames!PlainSlot(v, s, hit.address)
    BY <1>2, <1>3, <1>8, SamePlain
  <2> QED
    BY <1>3, <1>6, <1>10, <2>1, <2>2, HintSet
<1>12. Same(t, u)
  BY <1>8, <1>11 DEF Same
<1>13. Frames!LookupAddress(t, s, a) = [slot |-> slot, table |-> u]
  <2>1. u = [t EXCEPT !.by_source[s].last_address = hit, !.last_address = hit]
    BY DEF v
  <2> QED
    BY <1>3, <2>1 DEF Frames!LookupAddress, Frames!Found, hit, slot
<1> QED
  BY <1>2, <1>11, <1>12, <1>13

\* A lookup by hints finds what a search finds, and leaves true hints.
LEMMA UserSlotOK ==
  ASSUME WorldInv, NEW t, TableOK(t), NEW s \in Frames!Sources, NEW a \in Frames!Addresses
  PROVE  LET f == Frames!UserSlot(t, s, a)
         IN f.slot = Frames!PlainSlot(t, s, a) /\ TableOK(f.table) /\ Same(t, f.table)
<1> DEFINE f == Frames!UserSlot(t, s, a)
           Right(g) == g.slot = Frames!PlainSlot(t, s, a) /\ TableOK(g.table) /\ Same(t, g.table)
<1>1. t \in Tables /\ HintsTrue(t)
  BY DEF TableOK
<1>2. Same(t, t)
  BY DEF Same
<1>3. \A slot, table : Frames!Found(table, slot).slot = slot /\ Frames!Found(table, slot).table = table
  BY DEF Frames!Found
<1>4. Right(Frames!SlotForNewSource(t, s, a))
  <2> DEFINE g == Frames!SlotForNewSource(t, s, a)
             leaf == t.by_source[s].last_address
             u == Frames!Published(t, s, TRUE)
             v == [u EXCEPT !.last_address = leaf]
  <2>1. CASE s \notin DOMAIN t.by_source
    <3>1. g = Frames!Found(t, Nothing)
      BY <2>1 DEF Frames!SlotForNewSource
    <3>2. Frames!PlainSlot(t, s, a) = Nothing
      BY <2>1 DEF Frames!PlainSlot
    <3> QED
      BY <1>2, <1>3, <3>1, <3>2
  <2>2. CASE s \in DOMAIN t.by_source /\ t.by_source[s].unavailable
    <3>1. g = Frames!Found(Frames!Published(t, s, FALSE), 0)
      BY <2>2 DEF Frames!SlotForNewSource
    <3>2. Frames!PlainSlot(t, s, a) = 0
      BY <2>2 DEF Frames!PlainSlot
    <3>3. (~t.by_source[s].unavailable) = FALSE
      BY <2>2
    <3>4. TableOK(Frames!Published(t, s, FALSE)) /\ Same(t, Frames!Published(t, s, FALSE))
      BY <2>2, <3>3, PublishedOK
    <3> QED
      BY <1>3, <3>1, <3>2, <3>4
  <2>3. CASE s \in DOMAIN t.by_source /\ ~t.by_source[s].unavailable
    <3>1. (~t.by_source[s].unavailable) = TRUE
      BY <2>3
    <3>2. TableOK(u) /\ Same(t, u) /\ u.last_source.source = s /\ u.by_source = t.by_source
      BY <2>3, <3>1, PublishedOK
    <3>3. Frames!PlainSlot(u, s, a) = Frames!PlainSlot(t, s, a)
      <4> HIDE DEF u
      <4>1. Same(t, u)
        BY <3>2
      <4> QED
        BY <4>1, SamePlain
    <3>4. CASE leaf # Nothing /\ leaf.address = a
      <4>1. g = Frames!Found(v, leaf.slot)
        BY <2>3, <3>4 DEF Frames!SlotForNewSource
      <4>2. t.by_source[s] \in Slots
        BY <1>1, <2>3, TableShape
      <4>3. leaf \in Hints
        BY <3>4, <4>2 DEF Slots, Option
      <4>4. leaf.slot = Frames!PlainSlot(t, s, a)
        BY <1>1, <2>3, <3>4 DEF HintsTrue
      <4>5. s \in DOMAIN u.by_source
        BY <2>3, <3>2
      <4> HIDE DEF u, leaf
      <4>6. TableOK(v) /\ Same(u, v)
        BY <3>2, <3>3, <3>4, <4>3, <4>4, <4>5, HintSet
      <4>7. Same(t, v)
        BY <3>2, <4>6 DEF Same
      <4> QED
        BY <1>3, <4>1, <4>4, <4>6, <4>7
    <3>5. CASE ~(leaf # Nothing /\ leaf.address = a)
      <4>1. g = Frames!LookupAddress(u, s, a)
        BY <2>3, <3>5 DEF Frames!SlotForNewSource
      <4>2. s \in DOMAIN u.by_source /\ ~u.by_source[s].unavailable
        BY <2>3, <3>2
      <4> HIDE DEF u
      <4>3. g.slot = Frames!PlainSlot(u, s, a) /\ TableOK(g.table) /\ Same(u, g.table)
        BY <3>2, <4>1, <4>2, LookupOK
      <4>4. Same(t, g.table)
        BY <3>2, <4>3 DEF Same
      <4> QED
        BY <3>3, <4>3, <4>4
    <3> QED
      BY <3>4, <3>5
  <2> QED
    BY <2>1, <2>2, <2>3
<1>5. CASE t.last_source = Nothing \/ t.last_source.source # s
  <2>1. f = Frames!SlotForNewSource(t, s, a)
    BY <1>5 DEF Frames!UserSlot
  <2> QED
    BY <1>4, <2>1
<1>6. CASE t.last_source # Nothing /\ t.last_source.source = s
  <2>1. /\ s \in DOMAIN t.by_source /\ t.last_source.indexed = ~t.by_source[s].unavailable
        /\ t.last_address # Nothing => t.last_address.slot = Frames!PlainSlot(t, s, t.last_address.address)
    BY <1>1, <1>6 DEF HintsTrue
  <2>2. CASE t.last_address # Nothing /\ t.last_address.address = a
    <3>1. f = Frames!Found(t, t.last_address.slot)
      BY <1>6, <2>2 DEF Frames!UserSlot
    <3> QED
      BY <1>2, <1>3, <2>1, <2>2, <3>1
  <2>3. CASE ~(t.last_address # Nothing /\ t.last_address.address = a) /\ ~t.last_source.indexed
    <3>1. f = Frames!Found(t, 0)
      BY <1>6, <2>3 DEF Frames!UserSlot
    <3>2. Frames!PlainSlot(t, s, a) = 0
      BY <2>1, <2>3 DEF Frames!PlainSlot
    <3> QED
      BY <1>2, <1>3, <3>1, <3>2
  <2>4. CASE ~(t.last_address # Nothing /\ t.last_address.address = a) /\ t.last_source.indexed
    <3>1. f = Frames!LookupAddress(t, s, a)
      BY <1>6, <2>4 DEF Frames!UserSlot
    <3>2. ~t.by_source[s].unavailable
      BY <2>1, <2>4
    <3> QED
      BY <1>6, <2>1, <3>1, <3>2, LookupOK
  <2> QED
    BY <2>2, <2>3, <2>4
<1> QED
  BY <1>5, <1>6

\* The same for any key.
LEMMA SlotOK ==
  ASSUME WorldInv, NEW t, TableOK(t), NEW k \in Keys
  PROVE  LET f == Frames!Slot(t, k)
         IN f.slot = Plain(t, k) /\ TableOK(f.table) /\ Same(t, f.table)
<1>1. CASE Frames!IsUser(k)
  <2>1. k.source \in Frames!Sources /\ k.address \in Frames!Addresses
    BY <1>1, KeysApart DEF Frames!IsUser
  <2>2. Frames!Slot(t, k) = Frames!UserSlot(t, k.source, k.address)
    BY <1>1 DEF Frames!Slot
  <2>3. Plain(t, k) = Frames!PlainSlot(t, k.source, k.address)
    BY <1>1 DEF Plain
  <2> QED
    BY <2>1, <2>2, <2>3, UserSlotOK
<1>2. CASE ~Frames!IsUser(k)
  <2>1. Frames!Slot(t, k).slot = Plain(t, k) /\ Frames!Slot(t, k).table = t
    BY <1>2 DEF Frames!Slot, Plain, Frames!Found
  <2>2. Same(t, t)
    BY DEF Same
  <2> QED
    BY <2>1, <2>2
<1> QED
  BY <1>1, <1>2

-----------------------------------------------------------------------------
(* Storing.                                                                  *)

\* A source gets a new record, and becomes the one of the hints.
LEMMA SourceSet ==
  ASSUME NEW t, TableOK(t), NEW s \in Frames!Sources, NEW r \in Slots, r.last_address = Nothing,
         NEW u, u = Frames!Published([t EXCEPT !.by_source = Frames!Put(@, s, r)], s, ~r.unavailable)
  PROVE  /\ u \in Tables /\ HintsTrue(u)
         /\ u.kernel = t.kernel /\ u.frames = t.frames /\ u.last_revision = t.last_revision
         /\ DOMAIN u.by_source = DOMAIN t.by_source \cup {s} /\ u.by_source[s] = r
         /\ \A q \in DOMAIN t.by_source : q # s => u.by_source[q] = t.by_source[q]
<1> DEFINE B == Frames!Put(t.by_source, s, r)
           i == ~r.unavailable
           h == [source |-> s, indexed |-> i]
<1>1. t \in Tables /\ HintsTrue(t)
  BY DEF TableOK
<1>11. t.by_source \in Partial(Frames!Sources, Slots)
  BY <1>1 DEF Tables
<1>2. /\ B \in Partial(Frames!Sources, Slots) /\ DOMAIN B = DOMAIN t.by_source \cup {s} /\ B[s] = r
      /\ \A q \in DOMAIN t.by_source : q # s => B[q] = t.by_source[q]
  <2>1. B \in Partial(Frames!Sources, Slots)
    BY <1>11, PutIn
  <2>2. DOMAIN B = DOMAIN t.by_source \cup {s}
    BY PutDomain, Zenon
  <2>3. B[s] = r
    BY PutAt
  <2>4. \A q \in DOMAIN t.by_source : q # s => B[q] = t.by_source[q]
    BY PutAt
  <2> QED
    BY <2>1, <2>2, <2>3, <2>4
<1>3. i \in BOOLEAN
  OBVIOUS
<1>4. h \in Option([source : Frames!Sources, indexed : BOOLEAN]) /\ h.source = s /\ h.indexed = i
  BY <1>3 DEF Option
<1>5. u = [[t EXCEPT !.by_source = B] EXCEPT !.last_source = h, !.last_address = Nothing]
  BY DEF Frames!Published
<1> HIDE DEF B, h
<1>6. /\ u \in Tables /\ u.by_source = B /\ u.last_source = h /\ u.last_address = Nothing
      /\ u.kernel = t.kernel /\ u.frames = t.frames /\ u.last_revision = t.last_revision
  BY <1>1, <1>2, <1>4, <1>5 DEF Tables, Option
<1>7. HintsTrue(u)
  <2>1. ASSUME NEW q \in DOMAIN u.by_source, u.by_source[q].last_address # Nothing
        PROVE  /\ ~u.by_source[q].unavailable
               /\ u.by_source[q].last_address.slot = Frames!PlainSlot(u, q, u.by_source[q].last_address.address)
    <3>1. q # s /\ q \in DOMAIN t.by_source /\ u.by_source[q] = t.by_source[q]
      BY <1>2, <1>6, <2>1
    <3>2. \A a : Frames!PlainSlot(u, q, a) = Frames!PlainSlot(t, q, a)
      BY <2>1, <3>1 DEF Frames!PlainSlot
    <3> QED
      BY <1>1, <2>1, <3>1, <3>2 DEF HintsTrue
  <2>2. /\ u.last_source.source \in DOMAIN u.by_source
        /\ u.last_source.indexed = ~u.by_source[u.last_source.source].unavailable
    BY <1>2, <1>4, <1>6
  <2> QED
    BY <1>6, <2>1, <2>2 DEF HintsTrue
<1> QED
  BY <1>2, <1>6, <1>7

\* A key gets a slot.
LEMMA KeyedOK ==
  ASSUME WorldInv, NEW t, TableOK(t), NEW k \in Keys, NEW slot \in 0 .. Len(t.frames),
         slot # 0 => \A l \in Keys : l # k => Plain(t, l) # slot,
         Frames!IsUser(k) /\ k.source \in DOMAIN t.by_source => ~t.by_source[k.source].unavailable
  PROVE  LET u == Frames!Keyed(t, k, slot)
         IN /\ TableOK(u) /\ Plain(u, k) = slot
            /\ \A l \in Keys : l # k => Plain(u, l) = Plain(t, l)
            /\ u.frames = t.frames /\ u.last_revision = t.last_revision
            /\ \A s \in DOMAIN u.by_source : u.by_source[s].unavailable =>
                 s \in DOMAIN t.by_source /\ t.by_source[s].unavailable
<1> DEFINE u == Frames!Keyed(t, k, slot)
<1>1. t \in Tables /\ SlotsOwn(t) /\ Revisions(t) /\ HintsTrue(t) /\ slot \in Nat /\ Nothing \notin Nat
  <2>1. t.frames \in Seq(Entries)
    BY TableShape DEF TableOK
  <2>2. Len(t.frames) \in Nat
    BY <2>1
  <2> QED
    BY <2>2, KeysApart DEF TableOK
<1>2. SUFFICES /\ u \in Tables /\ HintsTrue(u) /\ Plain(u, k) = slot
               /\ \A l \in Keys : l # k => Plain(u, l) = Plain(t, l)
               /\ u.frames = t.frames /\ u.last_revision = t.last_revision
               /\ \A s \in DOMAIN u.by_source : u.by_source[s].unavailable =>
                    s \in DOMAIN t.by_source /\ t.by_source[s].unavailable
                      /\ u.by_source[s].by_address = t.by_source[s].by_address
  <2>1. Revisions(u)
    BY <1>1, <1>2 DEF Revisions
  <2>2. SlotsOwn(u)
    <3>1. \A l \in Keys : Plain(u, l) \in Option(0 .. Len(u.frames))
      BY <1>1, <1>2 DEF SlotsOwn, Option
    <3>2. ASSUME NEW l \in Keys, NEW n \in Keys, l # n, Plain(u, l) = Plain(u, n)
          PROVE  Plain(u, l) \in {0, Nothing}
      <4>1. CASE l = k
        BY <1>2, <3>2, <4>1
      <4>2. CASE n = k
        BY <1>2, <3>2, <4>2
      <4>3. CASE l # k /\ n # k
        BY <1>1, <1>2, <3>2, <4>3 DEF SlotsOwn
      <4> QED
        BY <4>1, <4>2, <4>3
    <3>3. \A s \in DOMAIN u.by_source :
            u.by_source[s].unavailable => DOMAIN u.by_source[s].by_address = {}
      BY <1>1, <1>2 DEF SlotsOwn
    <3> QED
      BY <3>1, <3>2, <3>3 DEF SlotsOwn
  <2> QED
    BY <1>2, <2>1, <2>2 DEF TableOK
<1>3. CASE Frames!IsUser(k)
  <2> DEFINE s == k.source
             a == k.address
             old == IF s \in DOMAIN t.by_source THEN t.by_source[s] ELSE Frames!NewSource
             r == [by_address |-> Frames!Put(old.by_address, a, slot), unavailable |-> FALSE,
                   last_address |-> Nothing]
  <2>1. s \in Frames!Sources /\ a \in Frames!Addresses /\ k \in Frames!UserKeys
    BY <1>3, KeysApart DEF Frames!IsUser
  <2>2. old.by_address \in Partial(Frames!Addresses, Nat)
    <3>1. CASE s \in DOMAIN t.by_source
      <4>1. t.by_source[s] \in Slots
        BY <1>1, <3>1, TableShape
      <4> QED
        BY <3>1, <4>1 DEF Slots
    <3>2. CASE s \notin DOMAIN t.by_source
      BY <3>2, NoneIs DEF Frames!NewSource
    <3> QED
      BY <3>1, <3>2
  <2>3. u = Frames!Published([t EXCEPT !.by_source = Frames!Put(@, s, r)], s, TRUE)
    BY <1>3 DEF Frames!Keyed, Frames!UserInsert
  <2>4. ~old.unavailable
    BY <1>3 DEF Frames!NewSource
  <2> HIDE DEF old
  <2>5. /\ Frames!Put(old.by_address, a, slot) \in Partial(Frames!Addresses, Nat)
        /\ DOMAIN Frames!Put(old.by_address, a, slot) = DOMAIN old.by_address \cup {a}
        /\ Frames!Put(old.by_address, a, slot)[a] = slot
        /\ \A b \in DOMAIN old.by_address : b # a => Frames!Put(old.by_address, a, slot)[b] = old.by_address[b]
    <3>1. a \in Frames!Addresses /\ slot \in Nat
      BY <1>1, <2>1
    <3>2. Frames!Put(old.by_address, a, slot) \in Partial(Frames!Addresses, Nat)
      BY <2>2, <3>1, PutIn
    <3>3. DOMAIN Frames!Put(old.by_address, a, slot) = DOMAIN old.by_address \cup {a}
      BY PutDomain, Zenon
    <3>4. Frames!Put(old.by_address, a, slot)[a] = slot
      BY PutAt
    <3>5. \A b \in DOMAIN old.by_address : b # a => Frames!Put(old.by_address, a, slot)[b] = old.by_address[b]
      BY PutAt
    <3> QED
      BY <3>2, <3>3, <3>4, <3>5
  <2>6. r \in Slots /\ r.last_address = Nothing /\ r.unavailable = FALSE
        /\ r.by_address = Frames!Put(old.by_address, a, slot)
    BY <2>5 DEF Slots, Option
  <2> HIDE DEF r
  <2>7. /\ u \in Tables /\ HintsTrue(u)
        /\ u.kernel = t.kernel /\ u.frames = t.frames /\ u.last_revision = t.last_revision
        /\ DOMAIN u.by_source = DOMAIN t.by_source \cup {s} /\ u.by_source[s] = r
        /\ \A q \in DOMAIN t.by_source : q # s => u.by_source[q] = t.by_source[q]
    <3>1. (~r.unavailable) = TRUE
      BY <2>6
    <3>2. u = Frames!Published([t EXCEPT !.by_source = Frames!Put(@, s, r)], s, ~r.unavailable)
      BY <2>3, <3>1
    <3>3. s \in Frames!Sources /\ r \in Slots /\ r.last_address = Nothing
      BY <2>1, <2>6
    <3> HIDE DEF u, s
    <3> QED
      BY <3>2, <3>3, SourceSet
  <2> HIDE DEF u, s, a
  <2>8. Plain(u, k) = slot
    BY <1>3, <2>5, <2>6, <2>7 DEF Plain, Frames!PlainSlot, s, a
  <2>9. ASSUME NEW l \in Keys, l # k
        PROVE  Plain(u, l) = Plain(t, l)
    <3>1. CASE ~Frames!IsUser(l)
      BY <2>7, <3>1 DEF Plain
    <3>2. CASE Frames!IsUser(l) /\ l.source # s
      <4>1. l.source \in DOMAIN u.by_source <=> l.source \in DOMAIN t.by_source
        BY <2>7, <3>2
      <4>2. l.source \in DOMAIN t.by_source => u.by_source[l.source] = t.by_source[l.source]
        BY <2>7, <3>2
      <4> QED
        BY <3>2, <4>1, <4>2 DEF Plain, Frames!PlainSlot
    <3>3. CASE Frames!IsUser(l) /\ l.source = s
      <4>1. l.address # a
        BY <2>1, <2>9, <3>3, KeysApart DEF Frames!IsUser, s, a
      <4>2. Plain(u, l) = IF l.address \in DOMAIN old.by_address THEN old.by_address[l.address] ELSE Nothing
        BY <2>5, <2>6, <2>7, <3>3, <4>1 DEF Plain, Frames!PlainSlot
      <4>3. CASE s \in DOMAIN t.by_source
        BY <1>3, <3>3, <4>2, <4>3 DEF Plain, Frames!PlainSlot, old, s
      <4>4. CASE s \notin DOMAIN t.by_source
        <5>1. Plain(t, l) = Nothing
          BY <3>3, <4>4 DEF Plain, Frames!PlainSlot
        <5>2. DOMAIN old.by_address = {}
          BY <4>4, NoneIs DEF old, Frames!NewSource
        <5> QED
          BY <4>2, <5>1, <5>2
      <4> QED
        BY <4>3, <4>4
    <3> QED
      BY <3>1, <3>2, <3>3
  <2>10. \A q \in DOMAIN u.by_source : u.by_source[q].unavailable =>
           q \in DOMAIN t.by_source /\ u.by_source[q] = t.by_source[q]
    BY <2>6, <2>7
  <2> QED
    BY <2>7, <2>8, <2>9, <2>10
<1>4. CASE ~Frames!IsUser(k)
  <2>1. k \in Frames!KernelKeys /\ k \notin Frames!UserKeys
    BY <1>4 DEF Keys, Frames!IsUser
  <2>2. u = [t EXCEPT !.kernel = Frames!Put(@, k, slot)]
    BY <1>4 DEF Frames!Keyed
  <2>3. t.kernel \in Partial(Frames!KernelKeys, Nat)
    BY <1>1 DEF Tables
  <2>4. /\ Frames!Put(t.kernel, k, slot) \in Partial(Frames!KernelKeys, Nat)
        /\ DOMAIN Frames!Put(t.kernel, k, slot) = DOMAIN t.kernel \cup {k} /\ Frames!Put(t.kernel, k, slot)[k] = slot
        /\ \A l \in DOMAIN t.kernel : l # k => Frames!Put(t.kernel, k, slot)[l] = t.kernel[l]
    <3>1. k \in Frames!KernelKeys /\ slot \in Nat
      BY <1>1, <2>1
    <3>2. Frames!Put(t.kernel, k, slot) \in Partial(Frames!KernelKeys, Nat)
      BY <2>3, <3>1, PutIn
    <3>3. DOMAIN Frames!Put(t.kernel, k, slot) = DOMAIN t.kernel \cup {k}
      BY PutDomain, Zenon
    <3>4. Frames!Put(t.kernel, k, slot)[k] = slot
      BY PutAt
    <3>5. \A b \in DOMAIN t.kernel : b # k => Frames!Put(t.kernel, k, slot)[b] = t.kernel[b]
      BY PutAt
    <3> QED
      BY <3>2, <3>3, <3>4, <3>5
  <2> HIDE DEF u
  <2>5. /\ u \in Tables /\ u.kernel = Frames!Put(t.kernel, k, slot) /\ u.by_source = t.by_source
        /\ u.last_source = t.last_source /\ u.last_address = t.last_address
        /\ u.frames = t.frames /\ u.last_revision = t.last_revision
    BY <1>1, <2>2, <2>4 DEF Tables
  <2>6. \A q, b : Frames!PlainSlot(u, q, b) = Frames!PlainSlot(t, q, b)
    BY <2>5 DEF Frames!PlainSlot
  <2>7. HintsTrue(u)
    BY <1>1, <2>5, <2>6 DEF HintsTrue
  <2>8. Plain(u, k) = slot /\ \A l \in Keys : l # k => Plain(u, l) = Plain(t, l)
    BY <1>4, <2>4, <2>5, <2>6 DEF Plain
  <2> QED
    BY <2>5, <2>7, <2>8
<1> QED
  BY <1>3, <1>4

\* Stored frames stay where they are, and later ones get later revisions.
Keeps(t, u) ==
  /\ Len(t.frames) <= Len(u.frames) /\ t.last_revision <= u.last_revision
  /\ \A i \in 1 .. Len(t.frames) : u.frames[i] = t.frames[i]
  /\ \A i \in 1 .. Len(u.frames) : i > Len(t.frames) => u.frames[i].revision > t.last_revision

\* The numbers of a table.
LEMMA Lengths ==
  ASSUME NEW t \in Tables
  PROVE  /\ t.frames \in Seq(Entries) /\ Len(t.frames) \in Nat /\ DOMAIN t.frames = 1 .. Len(t.frames)
         /\ t.last_revision \in Nat
         /\ \A i \in 1 .. Len(t.frames) : t.frames[i] \in Entries /\ t.frames[i].revision \in Nat
<1>1. t.frames \in Seq(Entries) /\ t.last_revision \in Nat
  BY TableShape
<1>2. Len(t.frames) \in Nat /\ DOMAIN t.frames = 1 .. Len(t.frames)
  BY <1>1
<1>3. \A i \in 1 .. Len(t.frames) : t.frames[i] \in Entries
  BY <1>1
<1> QED
  BY <1>1, <1>2, <1>3 DEF Entries

\* Hints are no frames.
LEMMA SameKeeps ==
  ASSUME NEW t \in Tables, NEW u \in Tables, Same(t, u)
  PROVE  Keeps(t, u)
BY Lengths DEF Same, Keeps

\* Frames stay through two steps.
LEMMA KeepsKeeps ==
  ASSUME NEW t \in Tables, NEW u \in Tables, NEW v \in Tables, Keeps(t, u), Keeps(u, v)
  PROVE  Keeps(t, v)
<1>1. /\ Len(t.frames) \in Nat /\ Len(u.frames) \in Nat /\ Len(v.frames) \in Nat
      /\ t.last_revision \in Nat /\ u.last_revision \in Nat /\ v.last_revision \in Nat
      /\ \A i \in 1 .. Len(u.frames) : u.frames[i].revision \in Nat
      /\ \A i \in 1 .. Len(v.frames) : v.frames[i].revision \in Nat
  BY Lengths
<1>2. Len(t.frames) <= Len(v.frames) /\ t.last_revision <= v.last_revision
  BY <1>1 DEF Keeps
<1>3. ASSUME NEW i \in 1 .. Len(t.frames)
      PROVE  v.frames[i] = t.frames[i]
  <2>1. i \in 1 .. Len(u.frames)
    BY <1>1 DEF Keeps
  <2>2. v.frames[i] = u.frames[i] /\ u.frames[i] = t.frames[i]
    BY <2>1 DEF Keeps
  <2> QED
    BY <2>2
<1>4. ASSUME NEW i \in 1 .. Len(v.frames), i > Len(t.frames)
      PROVE  v.frames[i].revision > t.last_revision
  <2>1. CASE i <= Len(u.frames)
    <3>1. i \in 1 .. Len(u.frames)
      BY <1>1, <2>1
    <3>2. v.frames[i] = u.frames[i] /\ u.frames[i].revision > t.last_revision
      BY <1>4, <3>1 DEF Keeps
    <3> QED
      BY <3>2
  <2>2. CASE i > Len(u.frames)
    <3>1. v.frames[i].revision > u.last_revision /\ t.last_revision <= u.last_revision
      BY <2>2 DEF Keeps
    <3>2. v.frames[i].revision \in Nat
      BY <1>1
    <3> HIDE DEF Tables
    <3> QED
      BY <1>1, <3>1, <3>2
  <2> QED
    BY <1>1, <2>1, <2>2
<1> QED
  BY <1>2, <1>3, <1>4 DEF Keeps

\* Slot 0 has no symbol.
LEMMA NoSymbol ==
  ASSUME NEW t \in Tables
  PROVE  Frames!AtSlot(t, 0).frames = Frames!Unresolved
<1>1. 0 \notin DOMAIN t.frames
  BY Lengths
<1>2. Frames!AtSlot(t, 0) = Frames!Unstored(Frames!Unresolved)
  BY <1>1, Zenon DEF Frames!AtSlot
<1> QED
  BY <1>2 DEF Frames!Unstored

\* A key that keeps its slot keeps its frames.
LEMMA SlotKept ==
  ASSUME NEW t \in Tables, NEW u \in Tables, SlotsOwn(t), Keeps(t, u),
         NEW k \in Keys, Plain(u, k) = Plain(t, k)
  PROVE  /\ Held(u, k) = Held(t, k)
         /\ Held(t, k) => Frames!AtSlot(u, Plain(u, k)) = Frames!AtSlot(t, Plain(t, k)) /\ Value(u, k) = Value(t, k)
<1>1. Held(u, k) = Held(t, k)
  BY DEF Held
<1>2. ASSUME Held(t, k)
      PROVE  Frames!AtSlot(u, Plain(u, k)) = Frames!AtSlot(t, Plain(t, k))
  <2> DEFINE n == Plain(t, k)
  <2>1. n \in 0 .. Len(t.frames)
    BY <1>2 DEF Held, SlotsOwn, Option
  <2>2. CASE n = 0
    BY <2>2 DEF Frames!AtSlot
  <2>3. CASE n # 0
    <3>1. n \in 1 .. Len(t.frames) /\ n \in DOMAIN t.frames /\ n \in DOMAIN u.frames
      BY <2>1, <2>3, Lengths DEF Keeps
    <3>2. u.frames[n] = t.frames[n]
      BY <3>1 DEF Keeps
    <3> HIDE DEF n
    <3>3. Frames!AtSlot(u, n) = u.frames[n] /\ Frames!AtSlot(t, n) = t.frames[n]
      BY <2>3, <3>1 DEF Frames!AtSlot
    <3> QED
      BY <3>2, <3>3 DEF n
  <2> QED
    BY <2>2, <2>3
<1> QED
  BY <1>1, <1>2 DEF Value

\* A table that holds one more list of frames.
Extended(t, e) ==
  [[t EXCEPT !.last_revision = Frames!Revision(t)] EXCEPT !.frames = Append(t.frames, e)]

\* One more list of frames.
LEMMA AppendOK ==
  ASSUME NEW t, TableOK(t), NEW e \in Entries, e.revision = Frames!Revision(t),
         NEW u, u = Extended(t, e)
  PROVE  /\ TableOK(u) /\ Keeps(t, u) /\ u.by_source = t.by_source
         /\ Len(u.frames) = Len(t.frames) + 1 /\ u.frames[Len(u.frames)] = e
         /\ \A k : Plain(u, k) = Plain(t, k)
<1> DEFINE n == Len(t.frames)
<1>1. t \in Tables /\ SlotsOwn(t) /\ Revisions(t) /\ HintsTrue(t)
  BY DEF TableOK
<1>2. t.frames \in Seq(Entries) /\ n \in Nat /\ t.last_revision \in Nat
  BY <1>1, Lengths
<1>3. /\ u.by_source = t.by_source /\ u.last_source = t.last_source /\ u.last_address = t.last_address
      /\ u.kernel = t.kernel /\ u.last_revision = t.last_revision + 1
  BY <1>1 DEF Tables, Frames!Revision, Extended
<1>13. u.frames = Append(t.frames, e)
  BY <1>1 DEF Tables, Extended
<1>4. /\ Append(t.frames, e) \in Seq(Entries) /\ Len(u.frames) = n + 1 /\ u.frames[n + 1] = e
      /\ \A i \in 1 .. n : u.frames[i] = t.frames[i]
  BY <1>2, <1>13
<1>5. u \in Tables
  <2> DEFINE w == [t EXCEPT !.last_revision = Frames!Revision(t)]
  <2>1. Frames!Revision(t) \in Nat
    BY <1>2 DEF Frames!Revision
  <2>2. w \in Tables /\ w.frames = t.frames
    BY <1>1, <2>1 DEF Tables
  <2>3. u = [w EXCEPT !.frames = Append(t.frames, e)]
    BY <2>2 DEF Extended
  <2>4. Append(t.frames, e) \in Seq(Entries)
    BY <1>2
  <2> HIDE DEF w
  <2> QED
    BY <2>2, <2>3, <2>4 DEF Tables
<1>6. \A s, a : Frames!PlainSlot(u, s, a) = Frames!PlainSlot(t, s, a)
  BY <1>3 DEF Frames!PlainSlot
<1>7. \A k : Plain(u, k) = Plain(t, k)
  BY <1>3, <1>6 DEF Plain
<1>8. HintsTrue(u)
  BY <1>1, <1>3, <1>6 DEF HintsTrue
<1>9. SlotsOwn(u)
  <2>1. \A k \in Keys : Plain(u, k) \in Option(0 .. Len(u.frames))
    <3>1. \A k \in Keys : Plain(t, k) \in Option(0 .. n)
      BY <1>1 DEF SlotsOwn
    <3>2. 0 .. n \subseteq 0 .. Len(u.frames)
      BY <1>2, <1>4
    <3> QED
      BY <1>7, <3>1, <3>2 DEF Option
  <2> QED
    BY <1>1, <1>3, <1>7, <2>1 DEF SlotsOwn
<1>10. e.revision = t.last_revision + 1
  BY DEF Frames!Revision
<1>11. Keeps(t, u)
  <2>1. ASSUME NEW i \in 1 .. Len(u.frames), i > n PROVE u.frames[i].revision > t.last_revision
    <3>1. i = n + 1
      BY <1>2, <1>4, <2>1
    <3> QED
      BY <1>2, <1>4, <1>10, <3>1
  <2> QED
    BY <1>2, <1>3, <1>4, <2>1 DEF Keeps
<1>12. Revisions(u)
  <2>1. \A i \in 1 .. n : t.frames[i].revision <= t.last_revision /\ t.frames[i].revision \in Nat
    BY <1>1, Lengths DEF Revisions
  <2>2. \A i \in 1 .. Len(u.frames) : i = n + 1 \/ (i \in 1 .. n /\ u.frames[i] = t.frames[i])
    BY <1>2, <1>4
  <2>3. \A i \in 1 .. Len(u.frames) : u.frames[i].revision <= u.last_revision
    <3> TAKE i \in 1 .. Len(u.frames)
    <3>1. CASE i = n + 1
      BY <1>2, <1>3, <1>4, <1>10, <3>1
    <3>2. CASE i \in 1 .. n /\ u.frames[i] = t.frames[i]
      <4>1. t.frames[i].revision <= t.last_revision /\ t.frames[i].revision \in Nat
        BY <2>1, <3>2
      <4> QED
        BY <1>2, <1>3, <3>2, <4>1
    <3> QED
      BY <2>2, <3>1, <3>2
  <2>5. /\ u.frames[n + 1].revision = t.last_revision + 1
        /\ \A i \in 1 .. n : u.frames[i].revision <= t.last_revision /\ u.frames[i].revision \in Nat
    BY <1>4, <1>10, <2>1
  <2>4. ASSUME NEW i \in 1 .. Len(u.frames), NEW j \in 1 .. Len(u.frames),
               u.frames[i].revision = u.frames[j].revision, u.frames[i].revision # 0
        PROVE  i = j
    <3>1. CASE i \in 1 .. n /\ j \in 1 .. n
      <4>1. u.frames[i] = t.frames[i] /\ u.frames[j] = t.frames[j]
        BY <1>4, <3>1
      <4> QED
        BY <1>1, <2>4, <3>1, <4>1 DEF Revisions
    <3>2. CASE i = n + 1 /\ j \in 1 .. n
      BY <1>2, <2>4, <2>5, <3>2
    <3>3. CASE i \in 1 .. n /\ j = n + 1
      BY <1>2, <2>4, <2>5, <3>3
    <3>4. CASE i = n + 1 /\ j = n + 1
      BY <3>4
    <3> QED
      BY <2>2, <3>1, <3>2, <3>3, <3>4
  <2> QED
    BY <2>3, <2>4 DEF Revisions
<1> QED
  BY <1>1, <1>3, <1>4, <1>5, <1>7, <1>8, <1>9, <1>11, <1>12 DEF TableOK

\* Frames are stored for a key that had none: no other key notices.
LEMMA InsertOK ==
  ASSUME WorldInv, NEW t, TableOK(t), NEW k \in Keys, ~Held(t, k),
         NEW frames \in Rendered, NEW script \in BOOLEAN,
         NEW u, u = Frames!Insert(t, k, frames, script)
  PROVE  /\ TableOK(u) /\ Keeps(t, u) /\ Held(u, k) /\ Value(u, k) = frames
         /\ \A l \in Keys : l # k =>
              Held(u, l) = Held(t, l) /\ (Held(t, l) => Value(u, l) = Value(t, l))
         /\ \A s \in DOMAIN u.by_source : u.by_source[s].unavailable =>
              s \in DOMAIN t.by_source /\ t.by_source[s].unavailable
<1> DEFINE seen == Frames!Slot(t, k)
           v == seen.table
           entry == [frames |-> frames, revision |-> Frames!Revision(v), script |-> script]
           w == Extended(v, entry)
<1>1. seen.slot = Nothing /\ TableOK(v) /\ Same(t, v)
  BY SlotOK DEF Held
<1>2. t \in Tables /\ v \in Tables /\ SlotsOwn(t) /\ SlotsOwn(v) /\ Nothing \notin Nat
  BY <1>1, KeysApart DEF TableOK
<1>3. Nothing \notin DOMAIN v.frames /\ Nothing # 0
  BY <1>2, Lengths
<1>4. Keeps(t, v) /\ \A l : Plain(v, l) = Plain(t, l)
  BY <1>1, <1>2, SameKeeps, SamePlain
<1>5. Plain(v, k) = Nothing
  BY <1>4 DEF Held
<1>6. Frames!IsUser(k) /\ k.source \in DOMAIN v.by_source => ~v.by_source[k.source].unavailable
  BY <1>3, <1>5 DEF Plain, Frames!PlainSlot
<1>7. \A s \in DOMAIN v.by_source :
        v.by_source[s].unavailable => s \in DOMAIN t.by_source /\ t.by_source[s].unavailable
  BY <1>1 DEF Same
<1>8. v.last_revision \in Nat /\ v.frames \in Seq(Entries) /\ Len(v.frames) \in Nat
  BY <1>2, Lengths
\* What remains once the key has a slot.
<1>9. ASSUME NEW x, NEW slot \in 0 .. Len(x.frames), TableOK(x), Keeps(v, x),
             \A l : Plain(x, l) = Plain(v, l), x.by_source = v.by_source,
             slot # 0 => slot = Len(v.frames) + 1,
             u = Frames!Keyed(x, k, slot), Frames!AtSlot(x, slot).frames = frames
      PROVE  /\ TableOK(u) /\ Keeps(t, u) /\ Held(u, k) /\ Value(u, k) = frames
             /\ \A l \in Keys : l # k =>
                  Held(u, l) = Held(t, l) /\ (Held(t, l) => Value(u, l) = Value(t, l))
             /\ \A s \in DOMAIN u.by_source : u.by_source[s].unavailable =>
                  s \in DOMAIN t.by_source /\ t.by_source[s].unavailable
  <2> HIDE DEF v, entry, w, seen
  <2>1. slot # 0 => \A l \in Keys : l # k => Plain(x, l) # slot
    <3>1. \A l \in Keys : Plain(v, l) \in Option(0 .. Len(v.frames))
      BY <1>2 DEF SlotsOwn
    <3>2. ASSUME NEW l \in Keys, Plain(v, l) = Len(v.frames) + 1 PROVE FALSE
      BY <1>2, <1>8, <3>1, <3>2 DEF Option
    <3> QED
      BY <1>9, <3>2
  <2>2. Frames!IsUser(k) /\ k.source \in DOMAIN x.by_source => ~x.by_source[k.source].unavailable
    BY <1>6, <1>9
  <2>3. /\ TableOK(u) /\ Plain(u, k) = slot
        /\ \A l \in Keys : l # k => Plain(u, l) = Plain(x, l)
        /\ u.frames = x.frames /\ u.last_revision = x.last_revision
        /\ \A s \in DOMAIN u.by_source : u.by_source[s].unavailable =>
             s \in DOMAIN x.by_source /\ x.by_source[s].unavailable
    BY <1>9, <2>1, <2>2, KeyedOK
  <2>4. u \in Tables /\ x \in Tables /\ Len(x.frames) \in Nat
    BY <1>9, <2>3, Lengths DEF TableOK
  <2>5. Keeps(v, u)
    BY <1>9, <2>3 DEF Keeps
  <2>6. Keeps(t, u)
    BY <1>2, <1>4, <2>4, <2>5, KeepsKeeps
  <2>7. Held(u, k)
    BY <1>2, <2>3, <2>4 DEF Held
  <2>8. Value(u, k) = frames
    <3>1. Frames!AtSlot(u, slot) = Frames!AtSlot(x, slot)
      BY <2>3 DEF Frames!AtSlot
    <3> QED
      BY <1>9, <2>3, <3>1 DEF Value
  <2>9. ASSUME NEW l \in Keys, l # k
        PROVE  Held(u, l) = Held(t, l) /\ (Held(t, l) => Value(u, l) = Value(t, l))
    <3>1. Plain(u, l) = Plain(t, l)
      BY <1>4, <1>9, <2>3, <2>9
    <3> QED
      BY <1>2, <2>4, <2>6, <3>1, SlotKept
  <2> QED
    BY <1>7, <1>9, <2>3, <2>6, <2>7, <2>8, <2>9
<1>10. CASE frames = Frames!Unresolved
  <2>1. u = Frames!Keyed(v, k, 0)
    BY <1>1, <1>3, <1>10 DEF Frames!Insert
  <2>2. Frames!AtSlot(v, 0).frames = frames
    BY <1>2, <1>10, NoSymbol
  <2>3. 0 \in 0 .. Len(v.frames)
    BY <1>8
  <2>4. Keeps(v, v)
    BY <1>2, SameKeeps DEF Same
  <2> HIDE DEF v
  <2> QED
    BY <1>1, <1>9, <2>1, <2>2, <2>3, <2>4
<1>11. CASE frames # Frames!Unresolved
  <2>1. Frames!Revision(v) \in Nat /\ Frames!Revision(v) # 0
    BY <1>8 DEF Frames!Revision
  <2>2. entry \in Entries /\ entry.revision = Frames!Revision(v) /\ entry.frames = frames
    BY <2>1 DEF Entries
  <2> HIDE DEF entry
  <2>3. u = Frames!Keyed(w, k, Len(v.frames) + 1)
    <3>1. [v EXCEPT !.last_revision = Frames!Revision(v)].frames = v.frames
      BY <1>2 DEF Tables
    <3> QED
      BY <1>1, <1>3, <1>11, <2>1, <3>1 DEF Frames!Insert, Extended, entry
  <2>4. /\ TableOK(w) /\ Keeps(v, w) /\ w.by_source = v.by_source
        /\ Len(w.frames) = Len(v.frames) + 1 /\ w.frames[Len(w.frames)] = entry
        /\ \A l : Plain(w, l) = Plain(v, l)
    <3>1. w = Extended(v, entry)
      OBVIOUS
    <3>2. TableOK(v) /\ entry \in Entries /\ entry.revision = Frames!Revision(v)
      BY <1>1, <2>2
    <3> HIDE DEF seen, v, w
    <3>3. TableOK(w) /\ Keeps(v, w) /\ w.by_source = v.by_source
      BY <3>1, <3>2, AppendOK
    <3>4. Len(w.frames) = Len(v.frames) + 1 /\ w.frames[Len(w.frames)] = entry
      BY <3>1, <3>2, AppendOK
    <3>5. \A l : Plain(w, l) = Plain(v, l)
      BY <3>1, <3>2, AppendOK
    <3> QED
      BY <3>3, <3>4, <3>5
  <2> HIDE DEF v, w
  <2>5. Len(v.frames) + 1 \in 0 .. Len(w.frames) /\ Len(v.frames) + 1 \in DOMAIN w.frames
    BY <1>8, <2>4, Lengths DEF TableOK
  <2>6. Frames!AtSlot(w, Len(v.frames) + 1) = entry
    BY <1>8, <2>4, <2>5 DEF Frames!AtSlot
  <2> QED
    BY <1>9, <2>2, <2>3, <2>4, <2>5, <2>6
<1> QED
  BY <1>10, <1>11

\* The record of a source without an object stands for all its addresses.
LEMMA MarkOK ==
  ASSUME WorldInv, NEW t, TableOK(t), NEW s \in Frames!Sources, NEW u, u = Frames!MarkUnavailable(t, s)
  PROVE  /\ TableOK(u) /\ Keeps(t, u)
         /\ \A l \in Keys :
              IF Frames!IsUser(l) /\ l.source = s THEN Held(u, l) /\ Value(u, l) = Frames!Unresolved
              ELSE Held(u, l) = Held(t, l) /\ (Held(t, l) => Value(u, l) = Value(t, l))
         /\ \A q \in DOMAIN u.by_source : u.by_source[q].unavailable =>
              q = s \/ (q \in DOMAIN t.by_source /\ t.by_source[q].unavailable)
<1> DEFINE r == [Frames!NewSource EXCEPT !.unavailable = TRUE]
<1>1. t \in Tables /\ SlotsOwn(t) /\ Revisions(t) /\ Nothing # 0
  BY KeysApart DEF TableOK
<1>2. /\ r.by_address = <<>> /\ r.unavailable = TRUE /\ r.last_address = Nothing
  BY DEF Frames!NewSource
<1>3. <<>> \in Partial(Frames!Addresses, Nat) /\ DOMAIN <<>> = {}
  BY NoneIs
<1>4. r \in Slots
  <2>1. Frames!NewSource \in Slots
    BY <1>3 DEF Frames!NewSource, Slots, Option
  <2> QED
    BY <2>1 DEF Slots
<1>5. (~r.unavailable) = FALSE
  BY <1>2
<1>6. u = Frames!Published([t EXCEPT !.by_source = Frames!Put(@, s, r)], s, ~r.unavailable)
  BY <1>5 DEF Frames!MarkUnavailable
<1> HIDE DEF r
<1>7. /\ u \in Tables /\ HintsTrue(u)
      /\ u.kernel = t.kernel /\ u.frames = t.frames /\ u.last_revision = t.last_revision
      /\ DOMAIN u.by_source = DOMAIN t.by_source \cup {s} /\ u.by_source[s] = r
      /\ \A q \in DOMAIN t.by_source : q # s => u.by_source[q] = t.by_source[q]
  BY <1>2, <1>4, <1>6, SourceSet
<1>8. Keeps(t, u)
  BY <1>1, <1>7, Lengths DEF Keeps
<1>9. \A l \in Keys : Frames!IsUser(l) /\ l.source = s => Plain(u, l) = 0
  BY <1>2, <1>7 DEF Plain, Frames!PlainSlot
<1>10. ASSUME NEW l \in Keys, ~(Frames!IsUser(l) /\ l.source = s) PROVE Plain(u, l) = Plain(t, l)
  <2>1. CASE ~Frames!IsUser(l)
    BY <1>7, <2>1 DEF Plain
  <2>2. CASE Frames!IsUser(l) /\ l.source # s
    <3>1. l.source \in DOMAIN u.by_source <=> l.source \in DOMAIN t.by_source
      BY <1>7, <2>2
    <3>2. l.source \in DOMAIN t.by_source => u.by_source[l.source] = t.by_source[l.source]
      BY <1>7, <2>2
    <3> QED
      BY <2>2, <3>1, <3>2 DEF Plain, Frames!PlainSlot
  <2> QED
    BY <1>10, <2>1, <2>2
<1>11. Revisions(u)
  BY <1>1, <1>7 DEF Revisions
<1>12. SlotsOwn(u)
  <2>1. \A l \in Keys : Plain(u, l) = Plain(t, l) \/ Plain(u, l) = 0
    BY <1>9, <1>10
  <2>2. 0 \in 0 .. Len(u.frames)
    BY <1>7, Lengths
  <2>3. \A l \in Keys : Plain(u, l) \in Option(0 .. Len(u.frames))
    BY <1>1, <1>7, <2>1, <2>2 DEF SlotsOwn, Option
  <2>4. \A l, n \in Keys : l # n /\ Plain(u, l) = Plain(u, n) => Plain(u, l) \in {0, Nothing}
    BY <1>1, <2>1 DEF SlotsOwn
  <2>5. \A q \in DOMAIN u.by_source : u.by_source[q].unavailable => DOMAIN u.by_source[q].by_address = {}
    BY <1>1, <1>2, <1>3, <1>7 DEF SlotsOwn
  <2> QED
    BY <2>3, <2>4, <2>5 DEF SlotsOwn
<1>13. \A l \in Keys : Frames!IsUser(l) /\ l.source = s => Held(u, l) /\ Value(u, l) = Frames!Unresolved
  BY <1>1, <1>7, <1>9, NoSymbol DEF Held, Value
<1>14. \A l \in Keys : ~(Frames!IsUser(l) /\ l.source = s) =>
         Held(u, l) = Held(t, l) /\ (Held(t, l) => Value(u, l) = Value(t, l))
  BY <1>1, <1>7, <1>8, <1>10, SlotKept
<1> QED
  BY <1>7, <1>8, <1>11, <1>12, <1>13, <1>14 DEF TableOK

-----------------------------------------------------------------------------
(* Batches.  A batch is checked, then stored, key by key.                    *)

\* A set of numbers that is not empty has a least one.
LEMMA LeastNumber ==
  ASSUME NEW S \in SUBSET Nat, S # {}
  PROVE  \E n \in S : \A m \in S : n <= m
BY MinIn

\* The caches of a batch that is checked exist.
LEMMA ChecksAre ==
  ASSUME NEW c, NEW m, NEW keys, Len(keys) \in Nat
  PROVE  /\ Frames!Checks(c, m, keys)[0] = [cache |-> c, missing |-> <<>>]
         /\ \A i \in 1 .. Len(keys) : Frames!Checks(c, m, keys)[i] = Frames!Check(Frames!Checks(c, m, keys)[i - 1], m, keys[i])
<1> DEFINE P(n) == \E f : f = [i \in 0 .. n |-> IF i = 0 THEN [cache |-> c, missing |-> <<>>] ELSE Frames!Check(f[i - 1], m, keys[i])]
           Bad == {n \in Nat : ~ P(n)}
<1>1. P(0)
  <2> DEFINE f == [i \in 0 .. 0 |-> [cache |-> c, missing |-> <<>>]]
  <2>1. f = [i \in 0 .. 0 |-> IF i = 0 THEN [cache |-> c, missing |-> <<>>] ELSE Frames!Check(f[i - 1], m, keys[i])]
    OBVIOUS
  <2> QED
    BY <2>1
<1>2. ASSUME NEW n \in Nat, P(n)
      PROVE  P(n + 1)
  <2>1. PICK f : f = [i \in 0 .. n |-> IF i = 0 THEN [cache |-> c, missing |-> <<>>] ELSE Frames!Check(f[i - 1], m, keys[i])]
    BY <1>2
  <2> DEFINE g == [i \in 0 .. n + 1 |-> IF i = n + 1 THEN Frames!Check(f[n], m, keys[n + 1]) ELSE f[i]]
  <2>2. \A i \in 0 .. n : g[i] = f[i]
    OBVIOUS
  <2>3. ASSUME NEW i \in 0 .. n + 1
        PROVE  g[i] = IF i = 0 THEN [cache |-> c, missing |-> <<>>] ELSE Frames!Check(g[i - 1], m, keys[i])
    <3>1. CASE i = 0
      BY <2>1, <2>2, <3>1
    <3>2. CASE i = n + 1
      <4>1. i - 1 = n /\ n \in 0 .. n /\ i # 0
        BY <3>2
      <4>2. g[i] = Frames!Check(f[n], m, keys[n + 1])
        BY <3>2
      <4>3. g[i - 1] = f[n]
        BY <2>2, <4>1
      <4> HIDE DEF g
      <4> QED
        BY <3>2, <4>1, <4>2, <4>3
    <3>3. CASE i \in 1 .. n
      <4>1. i - 1 \in 0 .. n /\ i \in 0 .. n /\ i # 0
        BY <3>3
      <4>2. f[i] = Frames!Check(f[i - 1], m, keys[i])
        BY <2>1, <4>1
      <4>3. g[i - 1] = f[i - 1] /\ g[i] = f[i]
        BY <2>2, <4>1
      <4> HIDE DEF g
      <4> QED
        BY <4>1, <4>2, <4>3
    <3> QED
      BY <3>1, <3>2, <3>3
  <2>4. g = [i \in 0 .. n + 1 |-> IF i = 0 THEN [cache |-> c, missing |-> <<>>] ELSE Frames!Check(g[i - 1], m, keys[i])]
    BY <2>3
  <2> QED
    BY <2>4
<1> HIDE DEF P
<1>3. Bad = {}
  <2> SUFFICES ASSUME Bad # {} PROVE FALSE
    OBVIOUS
  <2>1. PICK n \in Bad : \A k \in Bad : n <= k
    BY LeastNumber
  <2>2. n # 0
    BY <1>1, <2>1
  <2>3. n - 1 \in Nat /\ n - 1 \notin Bad
    BY <2>1, <2>2
  <2>4. P((n - 1) + 1)
    BY <1>2, <2>3
  <2>5. (n - 1) + 1 = n
    BY <2>1
  <2> QED
    BY <2>1, <2>4, <2>5
<1>4. P(Len(keys))
  BY <1>3
<1> DEFINE F == Frames!Checks(c, m, keys)
<1>5. F = [i \in 0 .. Len(keys) |-> IF i = 0 THEN [cache |-> c, missing |-> <<>>] ELSE Frames!Check(F[i - 1], m, keys[i])]
  BY <1>4 DEF P, Frames!Checks
<1> HIDE DEF F
<1>6. \A i \in 1 .. Len(keys) : i \in 0 .. Len(keys) /\ i # 0
  OBVIOUS
<1>7. F[0] = [cache |-> c, missing |-> <<>>]
  BY <1>5
<1>8. \A i \in 1 .. Len(keys) : F[i] = Frames!Check(F[i - 1], m, keys[i])
  BY <1>5, <1>6
<1> QED
  BY <1>7, <1>8 DEF F

\* So do those of a batch that is stored.
LEMMA StoresAre ==
  ASSUME NEW c, NEW m, NEW keys, NEW retry, Len(keys) \in Nat
  PROVE  /\ Frames!Stores(c, m, keys, retry)[0] = c
         /\ \A i \in 1 .. Len(keys) : Frames!Stores(c, m, keys, retry)[i] = Frames!Stored(Frames!Stores(c, m, keys, retry)[i - 1], m, keys[i], Frames!Resolve(keys[i], m), retry)
<1> DEFINE P(n) == \E f : f = [i \in 0 .. n |-> IF i = 0 THEN c ELSE Frames!Stored(f[i - 1], m, keys[i], Frames!Resolve(keys[i], m), retry)]
           Bad == {n \in Nat : ~ P(n)}
<1>1. P(0)
  <2> DEFINE f == [i \in 0 .. 0 |-> c]
  <2>1. f = [i \in 0 .. 0 |-> IF i = 0 THEN c ELSE Frames!Stored(f[i - 1], m, keys[i], Frames!Resolve(keys[i], m), retry)]
    OBVIOUS
  <2> QED
    BY <2>1
<1>2. ASSUME NEW n \in Nat, P(n)
      PROVE  P(n + 1)
  <2>1. PICK f : f = [i \in 0 .. n |-> IF i = 0 THEN c ELSE Frames!Stored(f[i - 1], m, keys[i], Frames!Resolve(keys[i], m), retry)]
    BY <1>2
  <2> DEFINE g == [i \in 0 .. n + 1 |-> IF i = n + 1 THEN Frames!Stored(f[n], m, keys[n + 1], Frames!Resolve(keys[n + 1], m), retry) ELSE f[i]]
  <2>2. \A i \in 0 .. n : g[i] = f[i]
    OBVIOUS
  <2>3. ASSUME NEW i \in 0 .. n + 1
        PROVE  g[i] = IF i = 0 THEN c ELSE Frames!Stored(g[i - 1], m, keys[i], Frames!Resolve(keys[i], m), retry)
    <3>1. CASE i = 0
      BY <2>1, <2>2, <3>1
    <3>2. CASE i = n + 1
      <4>1. i - 1 = n /\ n \in 0 .. n /\ i # 0
        BY <3>2
      <4>2. g[i] = Frames!Stored(f[n], m, keys[n + 1], Frames!Resolve(keys[n + 1], m), retry)
        BY <3>2
      <4>3. g[i - 1] = f[n]
        BY <2>2, <4>1
      <4> HIDE DEF g
      <4> QED
        BY <3>2, <4>1, <4>2, <4>3
    <3>3. CASE i \in 1 .. n
      <4>1. i - 1 \in 0 .. n /\ i \in 0 .. n /\ i # 0
        BY <3>3
      <4>2. f[i] = Frames!Stored(f[i - 1], m, keys[i], Frames!Resolve(keys[i], m), retry)
        BY <2>1, <4>1
      <4>3. g[i - 1] = f[i - 1] /\ g[i] = f[i]
        BY <2>2, <4>1
      <4> HIDE DEF g
      <4> QED
        BY <4>1, <4>2, <4>3
    <3> QED
      BY <3>1, <3>2, <3>3
  <2>4. g = [i \in 0 .. n + 1 |-> IF i = 0 THEN c ELSE Frames!Stored(g[i - 1], m, keys[i], Frames!Resolve(keys[i], m), retry)]
    BY <2>3
  <2> QED
    BY <2>4
<1> HIDE DEF P
<1>3. Bad = {}
  <2> SUFFICES ASSUME Bad # {} PROVE FALSE
    OBVIOUS
  <2>1. PICK n \in Bad : \A k \in Bad : n <= k
    BY LeastNumber
  <2>2. n # 0
    BY <1>1, <2>1
  <2>3. n - 1 \in Nat /\ n - 1 \notin Bad
    BY <2>1, <2>2
  <2>4. P((n - 1) + 1)
    BY <1>2, <2>3
  <2>5. (n - 1) + 1 = n
    BY <2>1
  <2> QED
    BY <2>1, <2>4, <2>5
<1>4. P(Len(keys))
  BY <1>3
<1> DEFINE F == Frames!Stores(c, m, keys, retry)
<1>5. F = [i \in 0 .. Len(keys) |-> IF i = 0 THEN c ELSE Frames!Stored(F[i - 1], m, keys[i], Frames!Resolve(keys[i], m), retry)]
  BY <1>4 DEF P, Frames!Stores
<1> HIDE DEF F
<1>6. \A i \in 1 .. Len(keys) : i \in 0 .. Len(keys) /\ i # 0
  OBVIOUS
<1>7. F[0] = c
  BY <1>5
<1>8. \A i \in 1 .. Len(keys) : F[i] = Frames!Stored(F[i - 1], m, keys[i], Frames!Resolve(keys[i], m), retry)
  BY <1>5, <1>6
<1> QED
  BY <1>7, <1>8 DEF F

-----------------------------------------------------------------------------
(* The resolver.                                                             *)

\* What the resolver says of user code.
LEMMA UserAnswers ==
  ASSUME WorldInv, NEW k \in Frames!UserKeys, NEW m \in Frames!Modes
  PROVE  /\ Frames!Resolve(k, m) = Frames!UserAnswer(k, m) /\ Frames!UserAnswer(k, m).frames \in Rendered
         /\ Frames!UserAnswer(k, m).loads = FALSE /\ Frames!UserAnswer(k, m).state \notin Frames!Replacing
         /\ Frames!UserAnswer(k, m).state = "Unavailable" <=> k.source \in unavailable
         /\ k.source \in unavailable => Frames!UserAnswer(k, m).frames = Frames!Unresolved
<1> DEFINE r == Frames!UserAnswer(k, m)
<1>1. Frames!Resolve(k, m) = r
  BY DEF Frames!Resolve, Frames!IsUser
<1>2. CASE k.source \in unavailable
  <2>1. r = Frames!Answer(Frames!Unresolved, "Unavailable")
    BY <1>2 DEF Frames!UserAnswer
  <2>2. r.frames = Frames!Unresolved /\ r.state = "Unavailable" /\ r.loads = FALSE
    BY <2>1 DEF Frames!Answer
  <2> QED
    BY <1>1, <1>2, <2>2 DEF Rendered, Frames!Replacing
<1>3. CASE k.source \notin unavailable
  <2>1. r = Frames!Answer(Frames!Unresolved, "AddressDependent") \/ r = Frames!Answer(Frames!UserFrames(k, m), "AddressDependent")
    BY <1>3 DEF Frames!UserAnswer
  <2>2. r.frames \in {Frames!Unresolved, Frames!UserFrames(k, m)} /\ r.state = "AddressDependent" /\ r.loads = FALSE
    BY <2>1 DEF Frames!Answer
  <2>3. Frames!UserFrames(k, m) \in Rendered /\ Frames!Unresolved \in Rendered
    BY DEF Rendered
  <2> QED
    BY <1>1, <1>3, <2>2, <2>3 DEF Frames!Replacing
<1> QED
  BY <1>2, <1>3

\* What it says of the kernel, before and after the core is loaded.
LEMMA KernelAnswers ==
  ASSUME WorldInv, core \in BOOLEAN, NEW k \in Frames!KernelKeys, NEW m \in Frames!Modes
  PROVE  LET r == Frames!KernelAnswer(k, m)
         IN /\ Frames!Resolve(k, m) = r /\ r.frames \in Rendered /\ r.loads \in BOOLEAN
            /\ r.state # "Unavailable"
            /\ r.state \in Frames!Replacing =>
                 /\ k \in Frames!ModuleKeys /\ ReplacedMap(k.map) /\ r.loads /\ ~core
                 /\ r.frames = Old(k, m)
                 /\ (r.state = "KernelObjectMapReplaced") = (loading[k.map] = "objectReplaced")
            /\ r.state \notin Frames!Replacing =>
                 r.frames = Final(k, m) \/ (~core /\ k \in Frames!ModuleKeys /\ r.frames = Frames!Unresolved)
            /\ ~r.loads /\ k \in Frames!ModuleKeys => core \/ loading[k.map] \in {"object", "miss"}
            /\ core => r.frames = Final(k, m)
<1> DEFINE r == Frames!KernelAnswer(k, m)
<1>1. k \notin Frames!UserKeys /\ (k = MainKey \/ (k \in Frames!ModuleKeys /\ k # MainKey))
  BY KeysApart DEF Frames!KernelKeys
<1>2. Frames!Resolve(k, m) = r
  BY <1>1 DEF Frames!Resolve, Frames!IsUser
<1>3. Frames!ObjectFrames(k, m) \in Rendered /\ Frames!CoreFrames(k, m) \in Rendered /\ Frames!Unresolved \in Rendered
  BY DEF Rendered
<1>4. \A f, s : /\ Frames!Answer(f, s).frames = f /\ Frames!Answer(f, s).state = s /\ Frames!Answer(f, s).loads = FALSE
                /\ Frames!Loading(f, s).frames = f /\ Frames!Loading(f, s).state = s /\ Frames!Loading(f, s).loads = TRUE
  BY DEF Frames!Answer, Frames!Loading
<1>5. CASE k = MainKey
  <2>1. r = Frames!Loading(Frames!CoreFrames(k, m), "AddressDependent")
    BY <1>5 DEF Frames!KernelAnswer
  <2>2. Final(k, m) = Frames!CoreFrames(k, m)
    BY <1>5 DEF Final
  <2>3. k \notin Frames!ModuleKeys
    BY <1>5, KeysApart
  <2>4. r.frames = Frames!CoreFrames(k, m) /\ r.state = "AddressDependent" /\ r.loads = TRUE
    BY <1>4, <2>1
  <2> QED
    BY <1>2, <1>3, <2>2, <2>3, <2>4 DEF Frames!Replacing
<1>6. CASE k \in Frames!ModuleKeys /\ k # MainKey
  <2>1. k.map \in Frames!Maps /\ loading[k.map] \in Frames!Loadings
    BY <1>6, KeysApart DEF WorldInv
  <2>2. CASE loading[k.map] = "object"
    <3>1. r = Frames!Answer(Frames!ObjectFrames(k, m), "AddressDependent")
      BY <1>6, <2>2 DEF Frames!KernelAnswer
    <3>2. Final(k, m) = Frames!ObjectFrames(k, m)
      BY <1>6, <2>2 DEF Final
    <3>3. r.frames = Frames!ObjectFrames(k, m) /\ r.state = "AddressDependent" /\ r.loads = FALSE
      BY <1>4, <3>1
    <3> QED
      BY <1>2, <1>3, <2>2, <3>2, <3>3 DEF Frames!Replacing
  <2>3. CASE loading[k.map] # "object" /\ core
    <3>1. r = Frames!Answer(Frames!CoreFrames(k, m), "AddressDependent")
      BY <1>6, <2>3 DEF Frames!KernelAnswer
    <3>2. Final(k, m) = Frames!CoreFrames(k, m)
      BY <1>6, <2>3 DEF Final
    <3>3. r.frames = Frames!CoreFrames(k, m) /\ r.state = "AddressDependent" /\ r.loads = FALSE
      BY <1>4, <3>1
    <3> QED
      BY <1>2, <1>3, <2>3, <3>2, <3>3 DEF Frames!Replacing
  <2>4. CASE loading[k.map] = "miss" /\ ~core
    <3>1. r = Frames!Answer(Frames!Unresolved, "AddressDependent")
      BY <1>6, <2>4 DEF Frames!KernelAnswer
    <3>2. r.frames = Frames!Unresolved /\ r.state = "AddressDependent" /\ r.loads = FALSE
      BY <1>4, <3>1
    <3> QED
      BY <1>2, <1>3, <1>6, <2>4, <3>2 DEF Frames!Replacing
  <2>5. CASE loading[k.map] = "replaced" /\ ~core
    <3>1. r = Frames!Loading(Frames!Unresolved, "KernelMapReplaced")
      BY <1>6, <2>5 DEF Frames!KernelAnswer
    <3>2. r.frames = Frames!Unresolved /\ r.state = "KernelMapReplaced" /\ r.loads = TRUE
      BY <1>4, <3>1
    <3>3. Old(k, m) = Frames!Unresolved /\ ReplacedMap(k.map)
      BY <2>5 DEF Old, ReplacedMap
    <3> QED
      BY <1>2, <1>3, <1>6, <2>5, <3>2, <3>3 DEF Frames!Replacing
  <2>6. CASE loading[k.map] = "objectReplaced" /\ ~core
    <3>1. r = Frames!Loading(Frames!ObjectFrames(k, m), "KernelObjectMapReplaced")
      BY <1>6, <2>6 DEF Frames!KernelAnswer
    <3>2. r.frames = Frames!ObjectFrames(k, m) /\ r.state = "KernelObjectMapReplaced" /\ r.loads = TRUE
      BY <1>4, <3>1
    <3>3. Old(k, m) = Frames!ObjectFrames(k, m) /\ ReplacedMap(k.map)
      BY <2>6 DEF Old, ReplacedMap
    <3> QED
      BY <1>2, <1>3, <1>6, <2>6, <3>2, <3>3 DEF Frames!Replacing
  <2> QED
    BY <2>1, <2>2, <2>3, <2>4, <2>5, <2>6 DEF Frames!Loadings
<1> QED
  BY <1>1, <1>5, <1>6

-----------------------------------------------------------------------------
(* Operations of the cache.                                                  *)

\* A step loses neither frames nor the core.
Grown(c, d) == (c.core => d.core) /\ \A m \in Frames!Modes : Keeps(c.tables[m], d.tables[m])

\* Caches that differ in hints only.
Like(c, d) ==
  /\ d.core = c.core /\ d.replaced = c.replaced /\ d.pending = c.pending
  /\ \A m \in Frames!Modes : Same(c.tables[m], d.tables[m])

\* Hints that are true keep a cache good.
LEMMA LikeOK ==
  ASSUME NEW c, CacheOK(c), NEW d \in Caches, Like(c, d), \A m \in Frames!Modes : TableOK(d.tables[m])
  PROVE  CacheOK(d) /\ Grown(c, d)
<1>1. /\ c \in Caches /\ UserTrue(c) /\ KernelTrue(c) /\ NotesTrue(c)
      /\ \A m \in Frames!Modes : TableOK(c.tables[m])
  BY DEF CacheOK
<1>2. \A m \in Frames!Modes, k \in Keys :
        Held(d.tables[m], k) = Held(c.tables[m], k) /\ Value(d.tables[m], k) = Value(c.tables[m], k)
  <2> TAKE m \in Frames!Modes
  <2>1. Same(c.tables[m], d.tables[m])
    BY DEF Like
  <2> QED
    BY <2>1, SamePlain
<1>3. Grown(c, d)
  <2>1. \A m \in Frames!Modes : c.tables[m] \in Tables /\ d.tables[m] \in Tables
    BY <1>1 DEF TableOK
  <2>2. \A m \in Frames!Modes : Keeps(c.tables[m], d.tables[m])
    BY <2>1, SameKeeps DEF Like
  <2> QED
    BY <2>2 DEF Grown, Like
<1>4. UserTrue(d)
  <2>1. Frames!UserKeys \subseteq Keys
    BY DEF Keys
  <2>2. \A m \in Frames!Modes : \A s \in DOMAIN d.tables[m].by_source :
          s \in DOMAIN c.tables[m].by_source
            /\ d.tables[m].by_source[s].unavailable = c.tables[m].by_source[s].unavailable
    BY DEF Like, Same
  <2> QED
    BY <1>1, <1>2, <2>1, <2>2 DEF UserTrue
<1>5. Frames!Retired(d) = Frames!Retired(c)
  BY DEF Frames!Retired, Like
<1>6. KernelTrue(d)
  <2>1. Frames!KernelKeys \subseteq Keys
    BY DEF Keys
  <2> QED
    BY <1>1, <1>2, <1>5, <2>1 DEF KernelTrue, Like
<1>7. NotesTrue(d)
  <2>1. \A e \in c.replaced : e.mode \in Frames!Modes /\ e.key \in Keys
    BY <1>1 DEF Caches, Keys, Frames!KernelKeys
  <2> QED
    BY <1>1, <1>2, <2>1 DEF NotesTrue, Like
<1> QED
  BY <1>3, <1>4, <1>6, <1>7 DEF CacheOK

\* Looking up moves hints only.
LEMMA TouchedOK ==
  ASSUME WorldInv, NEW c, CacheOK(c), NEW m \in Frames!Modes, NEW k \in Keys
  PROVE  LET d == Frames!Touched(c, m, k)
         IN CacheOK(d) /\ Like(c, d) /\ Grown(c, d) /\ Frames!IsCached(c, m, k) = Held(c.tables[m], k)
<1> DEFINE t == Frames!Slot(c.tables[m], k).table
           d == Frames!Touched(c, m, k)
<1>1. c \in Caches /\ \A n \in Frames!Modes : TableOK(c.tables[n])
  BY DEF CacheOK
<1>2. TableOK(t) /\ Same(c.tables[m], t) /\ Frames!Slot(c.tables[m], k).slot = Plain(c.tables[m], k)
  BY <1>1, SlotOK
<1>3. t \in Tables
  BY <1>2 DEF TableOK
<1>4. c.tables \in [Frames!Modes -> Tables]
  BY <1>1 DEF Caches
<1>5. /\ d \in Caches /\ d.core = c.core /\ d.replaced = c.replaced /\ d.pending = c.pending
      /\ d.tables = [c.tables EXCEPT ![m] = t]
  <2> HIDE DEF t
  <2>1. d = [c EXCEPT !.tables = [@ EXCEPT ![m] = t]]
    BY DEF Frames!Touched, t
  <2>2. [c.tables EXCEPT ![m] = t] \in [Frames!Modes -> Tables]
    BY <1>3, <1>4
  <2> HIDE DEF d
  <2> QED
    BY <1>1, <2>1, <2>2 DEF Caches
<1> HIDE DEF t, d
<1>6. \A n \in Frames!Modes : TableOK(d.tables[n]) /\ Same(c.tables[n], d.tables[n])
  <2>1. d.tables[m] = t
    BY <1>4, <1>5
  <2>2. \A n \in Frames!Modes : n # m => d.tables[n] = c.tables[n]
    BY <1>4, <1>5
  <2>3. \A n \in Frames!Modes : Same(c.tables[n], c.tables[n])
    BY DEF Same
  <2> QED
    BY <1>1, <1>2, <2>1, <2>2, <2>3
<1>7. Like(c, d)
  BY <1>5, <1>6 DEF Like
<1>8. CacheOK(d) /\ Grown(c, d)
  BY <1>5, <1>6, <1>7, LikeOK
<1> QED
  BY <1>2, <1>7, <1>8 DEF d, Frames!IsCached, Held

\* What a lookup gives is what is stored for the key.
LEMMA LookupIs ==
  ASSUME WorldInv, NEW c, CacheOK(c), NEW m \in Frames!Modes, NEW k \in Keys, Held(c.tables[m], k)
  PROVE  LET e == Frames!Lookup(c, m, k)
         IN /\ e.frames = Value(c.tables[m], k)
            /\ e.revision \in Nat
            /\ e.revision # 0 => \E i \in 1 .. Len(c.tables[m].frames) : e = c.tables[m].frames[i]
<1> DEFINE t == c.tables[m]
           n == Plain(t, k)
           e == Frames!Lookup(c, m, k)
<1>1. TableOK(t)
  BY DEF CacheOK
<1>2. e = Frames!AtSlot(t, n)
  BY <1>1, SlotOK DEF Frames!Lookup
<1>3. n \in 0 .. Len(t.frames) /\ t \in Tables
  BY <1>1 DEF TableOK, SlotsOwn, Held, Option
<1>4. e.frames = Value(t, k)
  BY <1>2 DEF Value
<1> HIDE DEF n, e
<1>5. CASE n = 0
  <2>1. Frames!AtSlot(t, n) = Frames!Unstored(Frames!Unresolved)
    <3>1. 0 \notin DOMAIN t.frames
      BY <1>3, Lengths
    <3>2. Frames!AtSlot(t, 0) = Frames!Unstored(Frames!Unresolved)
      BY <3>1, Zenon DEF Frames!AtSlot
    <3> QED
      BY <1>5, <3>2
  <2>2. e.revision = 0
    BY <1>2, <2>1 DEF Frames!Unstored
  <2> QED
    BY <1>4, <2>2 DEF e
<1>6. CASE n # 0
  <2>1. n \in 1 .. Len(t.frames) /\ n \in DOMAIN t.frames
    BY <1>3, <1>6, Lengths
  <2>2. Frames!AtSlot(t, n) = t.frames[n]
    BY <1>6, <2>1 DEF Frames!AtSlot
  <2>3. t.frames[n].revision \in Nat
    BY <1>3, <2>1, Lengths
  <2> QED
    BY <1>2, <1>4, <2>1, <2>2, <2>3 DEF e
<1> QED
  BY <1>5, <1>6

\* The fields of a cache an answer was stored in.
Entry(m, k, a) == [mode |-> m, key |-> k, object |-> a.state = "KernelObjectMapReplaced"]
Pending(m, k) == [mode |-> m, key |-> k]
Marked(c, s) == [n \in Frames!Modes |-> Frames!MarkUnavailable(c.tables[n], s)]
Inserted(c, m, k, a) ==
  [c.tables EXCEPT ![m] = Frames!Insert(c.tables[m], k, a.frames, a.state \in Frames!Replacing)]

\* Field by field.
LEMMA StoredFields ==
  ASSUME NEW c \in Caches, NEW m \in Frames!Modes, NEW k, NEW a, NEW retry
  PROVE  LET d == Frames!Stored(c, m, k, a, retry)
         IN /\ d.core = (c.core \/ a.loads)
            /\ d.replaced = c.replaced \cup (IF a.state \in Frames!Replacing THEN {Entry(m, k, a)} ELSE {})
            /\ d.pending = c.pending \cup
                 (IF k \in retry /\ a.frames = Frames!Unresolved THEN {Pending(m, k)} ELSE {})
            /\ d.tables = IF Frames!UnavailableSource(k, a) THEN Marked(c, k.source) ELSE Inserted(c, m, k, a)
            /\ d = [tables |-> d.tables, core |-> d.core, replaced |-> d.replaced, pending |-> d.pending]
<1>1. c = [tables |-> c.tables, core |-> c.core, replaced |-> c.replaced, pending |-> c.pending]
  BY DEF Caches
<1> QED
  BY <1>1 DEF Frames!Stored, Entry, Pending, Marked, Inserted

\* An answer is stored for a key that had none, or for a source without an object.
LEMMA StoredOK ==
  ASSUME WorldInv, core \in BOOLEAN, NEW c, CacheOK(c), core => c.core,
         NEW m \in Frames!Modes, NEW k \in Keys,
         ~Held(c.tables[m], k) \/ (Frames!IsUser(k) /\ k.source \in unavailable),
         NEW retry, \A l \in retry : Frames!IsModule(l), core => retry = {},
         ~core /\ Frames!IsModule(k) => k \in retry,
         NEW d, d = Frames!Stored(c, m, k, Frames!Resolve(k, m), retry)
  PROVE  /\ CacheOK(d) /\ Grown(c, d) /\ Held(d.tables[m], k)
         /\ \A p \in Frames!Modes, l \in Keys :
              /\ Held(c.tables[p], l) => Held(d.tables[p], l)
              /\ Held(d.tables[p], l) => Held(c.tables[p], l) \/ (p = m /\ l = k)
                                           \/ (Frames!IsUser(l) /\ l.source \in unavailable)
         /\ core => d.replaced = c.replaced /\ d.pending = c.pending
         /\ \A e \in d.replaced : e \in c.replaced \/ (e.mode = m /\ e.key = k)
<1> DEFINE a == Frames!Resolve(k, m)
<1>1. /\ c \in Caches /\ UserTrue(c) /\ KernelTrue(c) /\ NotesTrue(c)
      /\ \A n \in Frames!Modes : TableOK(c.tables[n]) /\ c.tables[n] \in Tables
      /\ c.tables \in [Frames!Modes -> Tables] /\ c.core \in BOOLEAN
      /\ c.replaced \in SUBSET [mode : Frames!Modes, key : Frames!ModuleKeys, object : BOOLEAN]
      /\ c.pending \in SUBSET [mode : Frames!Modes, key : Frames!ModuleKeys]
  BY DEF CacheOK, Caches, TableOK
<1>2. k \in Frames!UserKeys \/ k \in Frames!KernelKeys
  BY DEF Keys
<1>3. /\ k \in Frames!UserKeys => k \notin Frames!KernelKeys /\ k.source \in Frames!Sources
      /\ \A l \in Frames!ModuleKeys : l \in Frames!KernelKeys /\ l \notin Frames!UserKeys
      /\ \A l \in Frames!KernelKeys : l \notin Frames!UserKeys
  BY KeysApart
<1>4. k \in Frames!UserKeys =>
        /\ a = Frames!UserAnswer(k, m) /\ a.frames \in Rendered /\ a.loads = FALSE /\ a.state \notin Frames!Replacing
        /\ a.state = "Unavailable" <=> k.source \in unavailable
        /\ k.source \in unavailable => a.frames = Frames!Unresolved
  BY UserAnswers
<1>5. k \in Frames!KernelKeys =>
        /\ a.frames \in Rendered /\ a.loads \in BOOLEAN /\ a.state # "Unavailable"
        /\ a.state \in Frames!Replacing =>
             /\ k \in Frames!ModuleKeys /\ ReplacedMap(k.map) /\ a.loads /\ ~core /\ a.frames = Old(k, m)
             /\ (a.state = "KernelObjectMapReplaced") = (loading[k.map] = "objectReplaced")
        /\ a.state \notin Frames!Replacing =>
             a.frames = Final(k, m) \/ (~core /\ k \in Frames!ModuleKeys /\ a.frames = Frames!Unresolved)
        /\ ~a.loads /\ k \in Frames!ModuleKeys => core \/ loading[k.map] \in {"object", "miss"}
        /\ core => a.frames = Final(k, m)
  <2>1. ASSUME k \in Frames!KernelKeys
        PROVE  LET r == Frames!KernelAnswer(k, m)
               IN /\ Frames!Resolve(k, m) = r /\ r.frames \in Rendered /\ r.loads \in BOOLEAN
                  /\ r.state # "Unavailable"
                  /\ r.state \in Frames!Replacing =>
                       /\ k \in Frames!ModuleKeys /\ ReplacedMap(k.map) /\ r.loads /\ ~core
                       /\ r.frames = Old(k, m)
                       /\ (r.state = "KernelObjectMapReplaced") = (loading[k.map] = "objectReplaced")
                  /\ r.state \notin Frames!Replacing =>
                       r.frames = Final(k, m) \/ (~core /\ k \in Frames!ModuleKeys /\ r.frames = Frames!Unresolved)
                  /\ ~r.loads /\ k \in Frames!ModuleKeys => core \/ loading[k.map] \in {"object", "miss"}
                  /\ core => r.frames = Final(k, m)
    BY <2>1, KernelAnswers
  <2> QED
    BY <2>1
<1>6. a.frames \in Rendered /\ a.loads \in BOOLEAN
  BY <1>2, <1>4, <1>5
<1> DEFINE gone == k \in Frames!UserKeys /\ k.source \in unavailable
           entry == Entry(m, k, a)
<1>7. Frames!UnavailableSource(k, a) = gone
  BY <1>2, <1>3, <1>4, <1>5 DEF Frames!UnavailableSource, Frames!IsUser
<1> HIDE DEF a
<1>8. /\ d.core = (c.core \/ a.loads)
      /\ d.replaced = c.replaced \cup (IF a.state \in Frames!Replacing THEN {entry} ELSE {})
      /\ d.pending = c.pending \cup
           (IF k \in retry /\ a.frames = Frames!Unresolved THEN {Pending(m, k)} ELSE {})
      /\ d.tables = IF gone THEN Marked(c, k.source) ELSE Inserted(c, m, k, a)
      /\ d = [tables |-> d.tables, core |-> d.core, replaced |-> d.replaced, pending |-> d.pending]
  <2>1. d = Frames!Stored(c, m, k, a, retry)
    BY DEF a
  <2> HIDE DEF gone
  <2>2. c \in Caches
    BY <1>1
  <2> QED
    BY <1>7, <2>1, <2>2, StoredFields
\* The tables: each key of its own.
<1>9. /\ \A n \in Frames!Modes : TableOK(d.tables[n]) /\ Keeps(c.tables[n], d.tables[n])
      /\ DOMAIN d.tables = Frames!Modes /\ d.tables = [n \in Frames!Modes |-> d.tables[n]]
      /\ Held(d.tables[m], k) /\ Value(d.tables[m], k) = a.frames
      /\ \A p \in Frames!Modes, l \in Keys :
           \/ Held(d.tables[p], l) = Held(c.tables[p], l)
                /\ (Held(c.tables[p], l) => Value(d.tables[p], l) = Value(c.tables[p], l))
           \/ p = m /\ l = k /\ Held(d.tables[p], l)
           \/ l \in Frames!UserKeys /\ l.source \in unavailable /\ Held(d.tables[p], l)
                /\ Value(d.tables[p], l) = Frames!Unresolved
      /\ \A p \in Frames!Modes : \A s \in DOMAIN d.tables[p].by_source :
           d.tables[p].by_source[s].unavailable => s \in unavailable
  <2>0. \A p \in Frames!Modes : \A s \in DOMAIN c.tables[p].by_source :
          c.tables[p].by_source[s].unavailable => s \in unavailable
    BY <1>1 DEF UserTrue
  <2>1. CASE gone
    <3>1. \A n \in Frames!Modes : d.tables[n] = Frames!MarkUnavailable(c.tables[n], k.source)
      BY <1>8, <2>1 DEF Marked
    <3>2. ASSUME NEW n \in Frames!Modes
          PROVE  /\ TableOK(d.tables[n]) /\ Keeps(c.tables[n], d.tables[n])
                 /\ \A l \in Keys :
                      IF Frames!IsUser(l) /\ l.source = k.source
                      THEN Held(d.tables[n], l) /\ Value(d.tables[n], l) = Frames!Unresolved
                      ELSE Held(d.tables[n], l) = Held(c.tables[n], l)
                             /\ (Held(c.tables[n], l) => Value(d.tables[n], l) = Value(c.tables[n], l))
                 /\ \A q \in DOMAIN d.tables[n].by_source : d.tables[n].by_source[q].unavailable =>
                      q = k.source \/ (q \in DOMAIN c.tables[n].by_source
                                         /\ c.tables[n].by_source[q].unavailable)
      <4>1. k.source \in Frames!Sources /\ TableOK(c.tables[n]) /\ d.tables[n] = Frames!MarkUnavailable(c.tables[n], k.source)
        BY <1>1, <1>3, <2>1, <3>1
      <4> QED
        BY <4>1, MarkOK
    <3>3. Held(d.tables[m], k) /\ Value(d.tables[m], k) = a.frames
      BY <1>4, <2>1, <3>2 DEF Frames!IsUser
    <3>4. DOMAIN d.tables = Frames!Modes /\ d.tables = [n \in Frames!Modes |-> d.tables[n]]
      BY <1>8, <2>1 DEF Marked
    <3>5. \A p \in Frames!Modes, l \in Keys :
           \/ Held(d.tables[p], l) = Held(c.tables[p], l)
                /\ (Held(c.tables[p], l) => Value(d.tables[p], l) = Value(c.tables[p], l))
           \/ l \in Frames!UserKeys /\ l.source \in unavailable /\ Held(d.tables[p], l)
                /\ Value(d.tables[p], l) = Frames!Unresolved
      BY <2>1, <3>2 DEF Frames!IsUser
    <3>6. \A p \in Frames!Modes : \A s \in DOMAIN d.tables[p].by_source :
           d.tables[p].by_source[s].unavailable => s \in unavailable
      BY <2>0, <2>1, <3>2
    <3> QED
      BY <3>2, <3>3, <3>4, <3>5, <3>6
  <2>2. CASE ~gone
    <3> DEFINE script == a.state \in Frames!Replacing
               u == Frames!Insert(c.tables[m], k, a.frames, script)
    <3>1. d.tables = [c.tables EXCEPT ![m] = u]
      BY <1>8, <2>2 DEF Inserted
    <3>2. script \in BOOLEAN /\ ~Held(c.tables[m], k) /\ TableOK(c.tables[m])
      BY <1>1, <2>2 DEF Frames!IsUser
    <3> HIDE DEF script
    <3>3. u = Frames!Insert(c.tables[m], k, a.frames, script)
      OBVIOUS
    <3> HIDE DEF u
    <3>4. /\ TableOK(u) /\ Keeps(c.tables[m], u) /\ Held(u, k) /\ Value(u, k) = a.frames
          /\ \A l \in Keys : l # k =>
               Held(u, l) = Held(c.tables[m], l) /\ (Held(c.tables[m], l) => Value(u, l) = Value(c.tables[m], l))
          /\ \A s \in DOMAIN u.by_source : u.by_source[s].unavailable =>
               s \in DOMAIN c.tables[m].by_source /\ c.tables[m].by_source[s].unavailable
      BY <1>6, <3>2, <3>3, InsertOK
    <3>5. d.tables[m] = u /\ \A n \in Frames!Modes : n # m => d.tables[n] = c.tables[n]
      BY <1>1, <3>1
    <3>6. DOMAIN d.tables = Frames!Modes /\ d.tables = [n \in Frames!Modes |-> d.tables[n]]
      BY <1>1, <3>1
    <3>7. \A n \in Frames!Modes : Keeps(c.tables[n], c.tables[n])
      BY <1>1, SameKeeps DEF Same
    <3>8. \A n \in Frames!Modes : TableOK(d.tables[n]) /\ Keeps(c.tables[n], d.tables[n])
      BY <1>1, <3>4, <3>5, <3>7
    <3>9. \A p \in Frames!Modes, l \in Keys :
           \/ Held(d.tables[p], l) = Held(c.tables[p], l)
                /\ (Held(c.tables[p], l) => Value(d.tables[p], l) = Value(c.tables[p], l))
           \/ p = m /\ l = k /\ Held(d.tables[p], l)
      BY <3>4, <3>5
    <3>10. \A p \in Frames!Modes : \A s \in DOMAIN d.tables[p].by_source :
             d.tables[p].by_source[s].unavailable => s \in unavailable
      BY <2>0, <3>4, <3>5
    <3> QED
      BY <3>4, <3>5, <3>6, <3>8, <3>9, <3>10
  <2> QED
    BY <2>1, <2>2
<1> HIDE DEF gone
<1>10. /\ d.replaced \in SUBSET [mode : Frames!Modes, key : Frames!ModuleKeys, object : BOOLEAN]
       /\ d.pending \in SUBSET [mode : Frames!Modes, key : Frames!ModuleKeys] /\ d.core \in BOOLEAN
  <2>1. a.state \in Frames!Replacing => k \in Frames!ModuleKeys
    BY <1>2, <1>4, <1>5
  <2>2. k \in Frames!ModuleKeys => entry \in [mode : Frames!Modes, key : Frames!ModuleKeys, object : BOOLEAN]
    BY DEF Entry
  <2>3. k \in retry => k \in Frames!ModuleKeys
    BY DEF Frames!IsModule
  <2>4. k \in Frames!ModuleKeys => Pending(m, k) \in [mode : Frames!Modes, key : Frames!ModuleKeys]
    BY DEF Pending
  <2> HIDE DEF entry
  <2> QED
    BY <1>1, <1>6, <1>8, <2>1, <2>2, <2>3, <2>4
<1>11. d \in Caches
  <2>1. d.tables \in [Frames!Modes -> Tables]
    BY <1>9 DEF TableOK
  <2> QED
    BY <1>8, <1>10, <2>1 DEF Caches
<1>12. core => d.replaced = c.replaced /\ d.pending = c.pending
  <2>1. core => a.state \notin Frames!Replacing
    BY <1>2, <1>4, <1>5
  <2> QED
    BY <1>8, <2>1
<1>13. \A e \in d.replaced : e \in c.replaced \/ e = entry
  BY <1>8
<1>14. entry.mode = m /\ entry.key = k /\ entry.object = (a.state = "KernelObjectMapReplaced")
  BY DEF Entry
<1>15. /\ \A x \in Frames!Retired(c) : x \in Frames!Retired(d)
       /\ a.state \in Frames!Replacing => [mode |-> m, key |-> k] \in Frames!Retired(d)
       /\ k \in retry /\ a.frames = Frames!Unresolved => [mode |-> m, key |-> k] \in Frames!Retired(d)
  <2>1. c.replaced \subseteq d.replaced /\ c.pending \subseteq d.pending
    BY <1>8
  <2>2. a.state \in Frames!Replacing => entry \in d.replaced
    BY <1>8
  <2>3. k \in retry /\ a.frames = Frames!Unresolved => [mode |-> m, key |-> k] \in d.pending
    BY <1>8 DEF Pending
  <2>4. [mode |-> m, key |-> k] = [mode |-> entry.mode, key |-> entry.key]
    BY <1>14
  <2> HIDE DEF entry
  <2> QED
    BY <2>1, <2>2, <2>3, <2>4 DEF Frames!Retired
<1> HIDE DEF entry
<1>16. Grown(c, d)
  BY <1>8, <1>9 DEF Grown
<1>17. UserTrue(d)
  <2> SUFFICES ASSUME NEW p \in Frames!Modes, NEW l \in Frames!UserKeys, Held(d.tables[p], l)
               PROVE  Value(d.tables[p], l) = Frames!UserAnswer(l, p).frames
    BY <1>9 DEF UserTrue
  <2>1. l \in Keys
    BY DEF Keys
  <2>2. CASE p = m /\ l = k
    BY <1>4, <1>9, <2>2
  <2>3. CASE l.source \in unavailable /\ Value(d.tables[p], l) = Frames!Unresolved
    BY <2>3, UserAnswers
  <2>4. CASE Held(c.tables[p], l) /\ Value(d.tables[p], l) = Value(c.tables[p], l)
    BY <1>1, <2>4 DEF UserTrue
  <2> QED
    BY <1>9, <2>1, <2>2, <2>3, <2>4
<1>18. KernelTrue(d)
  <2> SUFFICES ASSUME NEW p \in Frames!Modes, NEW l \in Frames!KernelKeys, Held(d.tables[p], l)
               PROVE  /\ Value(d.tables[p], l) = Final(l, p) \/ [mode |-> p, key |-> l] \in Frames!Retired(d)
                      /\ ~d.core /\ Frames!IsModule(l) => loading[l.map] \in {"object", "miss"}
    BY DEF KernelTrue
  <2>1. l \in Keys /\ l \notin Frames!UserKeys
    BY <1>3 DEF Keys
  <2>2. CASE p = m /\ l = k
    <3>1. Value(d.tables[p], l) = a.frames
      BY <1>9, <2>2
    <3>2. a.frames = Final(k, m) \/ [mode |-> m, key |-> k] \in Frames!Retired(d)
      BY <1>5, <1>15, <2>2 DEF Frames!IsModule
    <3>3. ~d.core /\ Frames!IsModule(k) => loading[k.map] \in {"object", "miss"}
      BY <1>5, <1>6, <1>8, <2>2 DEF Frames!IsModule
    <3> QED
      BY <2>2, <3>1, <3>2, <3>3
  <2>3. CASE Held(c.tables[p], l) /\ Value(d.tables[p], l) = Value(c.tables[p], l)
    <3>1. /\ Value(c.tables[p], l) = Final(l, p) \/ [mode |-> p, key |-> l] \in Frames!Retired(c)
          /\ ~c.core /\ Frames!IsModule(l) => loading[l.map] \in {"object", "miss"}
      BY <1>1, <2>3 DEF KernelTrue
    <3>2. ~d.core => ~c.core
      BY <1>8
    <3> QED
      BY <1>15, <2>3, <3>1, <3>2
  <2> QED
    BY <1>9, <2>1, <2>2, <2>3
<1>19. NotesTrue(d)
  <2>1. ASSUME NEW e \in d.replaced
        PROVE  /\ ReplacedMap(e.key.map) /\ e.object = (loading[e.key.map] = "objectReplaced")
               /\ Held(d.tables[e.mode], e.key) /\ Value(d.tables[e.mode], e.key) = Old(e.key, e.mode)
    <3>1. CASE e \in c.replaced
      <4>1. /\ ReplacedMap(e.key.map) /\ e.object = (loading[e.key.map] = "objectReplaced")
            /\ Held(c.tables[e.mode], e.key) /\ Value(c.tables[e.mode], e.key) = Old(e.key, e.mode)
        BY <1>1, <3>1 DEF NotesTrue
      <4>2. e.mode \in Frames!Modes /\ e.key \in Frames!ModuleKeys /\ e.key \in Keys /\ e.key \notin Frames!UserKeys
        BY <1>1, <1>3, <3>1 DEF Keys
      <4>3. ~(e.mode = m /\ e.key = k)
        BY <1>3, <4>1, <4>2 DEF Frames!IsUser
      <4>4. /\ Held(d.tables[e.mode], e.key) = Held(c.tables[e.mode], e.key)
            /\ Held(c.tables[e.mode], e.key) => Value(d.tables[e.mode], e.key) = Value(c.tables[e.mode], e.key)
        BY <1>9, <4>2, <4>3
      <4> QED
        BY <4>1, <4>4
    <3>2. CASE e = entry /\ e \notin c.replaced
      <4>1. a.state \in Frames!Replacing
        BY <1>8, <3>2
      <4>2. k \in Frames!KernelKeys
        BY <1>2, <1>4, <4>1
      <4>3. /\ k \in Frames!ModuleKeys /\ ReplacedMap(k.map) /\ a.frames = Old(k, m)
            /\ (a.state = "KernelObjectMapReplaced") = (loading[k.map] = "objectReplaced")
        BY <1>5, <4>1, <4>2
      <4> QED
        BY <1>9, <1>14, <3>2, <4>3
    <3> QED
      BY <1>13, <3>1, <3>2
  <2>2. ~d.core => d.replaced = {}
    <3>1. a.state \in Frames!Replacing => a.loads
      BY <1>2, <1>4, <1>5
    <3>2. ~c.core => c.replaced = {}
      BY <1>1 DEF NotesTrue
    <3> QED
      BY <1>1, <1>6, <1>8, <3>1, <3>2
  <2> QED
    BY <2>1, <2>2 DEF NotesTrue
<1>20. CacheOK(d)
  BY <1>9, <1>11, <1>17, <1>18, <1>19 DEF CacheOK
<1>21. \A p \in Frames!Modes, l \in Keys :
         /\ Held(c.tables[p], l) => Held(d.tables[p], l)
         /\ Held(d.tables[p], l) => Held(c.tables[p], l) \/ (p = m /\ l = k)
                                      \/ (Frames!IsUser(l) /\ l.source \in unavailable)
  BY <1>9 DEF Frames!IsUser
<1> QED
  BY <1>9, <1>12, <1>13, <1>14, <1>16, <1>20, <1>21

\* What is known once the first keys of a batch are checked.
Sifted(c, m, keys, n, r) ==
  /\ CacheOK(r.cache) /\ Like(c, r.cache) /\ Grown(c, r.cache) /\ r.missing \in Seq(Keys)
  /\ \A i, j \in 1 .. Len(r.missing) : r.missing[i] = r.missing[j] => i = j
  /\ \A i \in 1 .. Len(r.missing) :
       ~Held(c.tables[m], r.missing[i]) /\ \E j \in 1 .. n : r.missing[i] = keys[j]
  /\ \A j \in 1 .. n :
       Held(c.tables[m], keys[j]) \/ \E i \in 1 .. Len(r.missing) : r.missing[i] = keys[j]

\* One more key is checked.
LEMMA CheckOK ==
  ASSUME WorldInv, NEW c, CacheOK(c), NEW m \in Frames!Modes, NEW keys \in Seq(Keys),
         NEW n \in Nat, n + 1 <= Len(keys), NEW r, Sifted(c, m, keys, n, r),
         NEW q, q = Frames!Check(r, m, keys[n + 1])
  PROVE  Sifted(c, m, keys, n + 1, q)
<1> DEFINE k == keys[n + 1]
           skip == Frames!IsCached(r.cache, m, k) \/ k \in Frames!Range(r.missing)
<1>1. /\ CacheOK(r.cache) /\ Like(c, r.cache) /\ Grown(c, r.cache) /\ r.missing \in Seq(Keys)
      /\ \A i, j \in 1 .. Len(r.missing) : r.missing[i] = r.missing[j] => i = j
      /\ \A i \in 1 .. Len(r.missing) :
           ~Held(c.tables[m], r.missing[i]) /\ \E j \in 1 .. n : r.missing[i] = keys[j]
      /\ \A j \in 1 .. n :
           Held(c.tables[m], keys[j]) \/ \E i \in 1 .. Len(r.missing) : r.missing[i] = keys[j]
  BY DEF Sifted
<1>2. n + 1 \in 1 .. Len(keys) /\ k \in Keys /\ 1 .. n \subseteq 1 .. n + 1 /\ n + 1 \in 1 .. n + 1
  OBVIOUS
<1>3. q.cache = Frames!Touched(r.cache, m, k) /\ q.missing = IF skip THEN r.missing ELSE Append(r.missing, k)
  BY DEF Frames!Check
<1>4. /\ CacheOK(q.cache) /\ Like(r.cache, q.cache) /\ Grown(r.cache, q.cache)
      /\ Frames!IsCached(r.cache, m, k) = Held(r.cache.tables[m], k)
  <2> HIDE DEF k, skip
  <2> QED
    BY <1>1, <1>2, <1>3, TouchedOK
<1>5. Frames!IsCached(r.cache, m, k) = Held(c.tables[m], k)
  <2>1. Same(c.tables[m], r.cache.tables[m])
    BY <1>1 DEF Like
  <2>2. Held(r.cache.tables[m], k) = Held(c.tables[m], k)
    BY <2>1, SamePlain
  <2> QED
    BY <1>4, <2>2
<1>6. Like(c, q.cache)
  <2>1. Like(c, r.cache) /\ Like(r.cache, q.cache)
    BY <1>1, <1>4
  <2>2. \A p \in Frames!Modes : Same(c.tables[p], r.cache.tables[p]) /\ Same(r.cache.tables[p], q.cache.tables[p])
    BY <2>1 DEF Like
  <2>3. \A p \in Frames!Modes : Same(c.tables[p], q.cache.tables[p])
    BY <2>2, SameSame
  <2> QED
    BY <2>1, <2>3 DEF Like
<1>7. Grown(c, q.cache)
  <2>1. \A p \in Frames!Modes : /\ Keeps(c.tables[p], r.cache.tables[p]) /\ Keeps(r.cache.tables[p], q.cache.tables[p])
                         /\ c.tables[p] \in Tables /\ r.cache.tables[p] \in Tables /\ q.cache.tables[p] \in Tables
    BY <1>1, <1>4 DEF Grown, CacheOK, TableOK
  <2>2. \A p \in Frames!Modes : Keeps(c.tables[p], q.cache.tables[p])
    BY <2>1, KeepsKeeps
  <2> QED
    BY <1>1, <1>4, <2>2 DEF Grown
<1>8. Len(r.missing) \in Nat /\ DOMAIN r.missing = 1 .. Len(r.missing)
  BY <1>1
<1>9. k \in Frames!Range(r.missing) <=> \E i \in 1 .. Len(r.missing) : r.missing[i] = k
  BY <1>8 DEF Frames!Range
<1> HIDE DEF k
<1>10. CASE skip
  <2>1. q.missing = r.missing
    BY <1>3, <1>10
  <2>2. Held(c.tables[m], k) \/ \E i \in 1 .. Len(r.missing) : r.missing[i] = k
    BY <1>5, <1>9, <1>10
  <2>3. \A j \in 1 .. n + 1 : j \in 1 .. n \/ j = n + 1
    OBVIOUS
  <2>4. \A j \in 1 .. n + 1 :
          Held(c.tables[m], keys[j]) \/ \E i \in 1 .. Len(r.missing) : r.missing[i] = keys[j]
    BY <1>1, <2>2, <2>3 DEF k
  <2>5. \A i \in 1 .. Len(r.missing) :
          ~Held(c.tables[m], r.missing[i]) /\ \E j \in 1 .. n + 1 : r.missing[i] = keys[j]
    BY <1>1, <1>2
  <2> QED
    BY <1>1, <1>4, <1>6, <1>7, <2>1, <2>4, <2>5 DEF Sifted
<1>11. CASE ~skip
  <2> DEFINE l == Len(r.missing)
  <2>1. q.missing = Append(r.missing, k) /\ ~Held(c.tables[m], k) /\ \A i \in 1 .. l : r.missing[i] # k
    BY <1>3, <1>5, <1>9, <1>11
  <2>2. /\ q.missing \in Seq(Keys) /\ Len(q.missing) = l + 1 /\ q.missing[l + 1] = k
        /\ \A i \in 1 .. l : q.missing[i] = r.missing[i]
    BY <1>1, <1>2, <2>1
  <2>3. \A i \in 1 .. Len(q.missing) : i \in 1 .. l \/ i = l + 1
    BY <1>8, <2>2
  <2>4. l + 1 \in 1 .. Len(q.missing) /\ 1 .. l \subseteq 1 .. Len(q.missing)
    BY <1>8, <2>2
  <2> HIDE DEF l
  <2>5. \A i, j \in 1 .. Len(q.missing) : q.missing[i] = q.missing[j] => i = j
    <3> SUFFICES ASSUME NEW i \in 1 .. Len(q.missing), NEW j \in 1 .. Len(q.missing),
                        q.missing[i] = q.missing[j]
                 PROVE  i = j
      OBVIOUS
    <3>1. CASE i \in 1 .. l /\ j \in 1 .. l
      BY <1>1, <2>2, <3>1 DEF l
    <3>2. CASE i = l + 1 \/ j = l + 1
      BY <2>1, <2>2, <2>3, <3>2
    <3> QED
      BY <2>3, <3>1, <3>2
  <2>6. \A i \in 1 .. Len(q.missing) :
          ~Held(c.tables[m], q.missing[i]) /\ \E j \in 1 .. n + 1 : q.missing[i] = keys[j]
    <3> TAKE i \in 1 .. Len(q.missing)
    <3>1. CASE i \in 1 .. l
      <4>1. ~Held(c.tables[m], r.missing[i]) /\ \E j \in 1 .. n : r.missing[i] = keys[j]
        BY <1>1, <3>1 DEF l
      <4> QED
        BY <1>2, <2>2, <3>1, <4>1
    <3>2. CASE i = l + 1
      BY <1>2, <2>1, <2>2, <3>2 DEF k
    <3> QED
      BY <2>3, <3>1, <3>2
  <2>7. \A j \in 1 .. n + 1 :
          Held(c.tables[m], keys[j]) \/ \E i \in 1 .. Len(q.missing) : q.missing[i] = keys[j]
    <3> TAKE j \in 1 .. n + 1
    <3>1. CASE j \in 1 .. n
      <4>1. Held(c.tables[m], keys[j]) \/ \E i \in 1 .. l : r.missing[i] = keys[j]
        BY <1>1, <3>1 DEF l
      <4> QED
        BY <2>2, <2>4, <4>1
    <3>2. CASE j = n + 1
      BY <2>2, <2>4, <3>2 DEF k
    <3> QED
      BY <3>1, <3>2
  <2> QED
    BY <1>4, <1>6, <1>7, <2>2, <2>5, <2>6, <2>7 DEF Sifted
<1> QED
  BY <1>10, <1>11

\* A batch is checked.
LEMMA CheckedOK ==
  ASSUME WorldInv, NEW c, CacheOK(c), NEW m \in Frames!Modes, NEW keys \in Seq(Keys)
  PROVE  Sifted(c, m, keys, Len(keys), Frames!Checked(c, m, keys))
<1> DEFINE f == Frames!Checks(c, m, keys)
           Bad == {n \in 0 .. Len(keys) : ~Sifted(c, m, keys, n, f[n])}
<1>1. /\ f[0] = [cache |-> c, missing |-> <<>>]
      /\ \A i \in 1 .. Len(keys) : f[i] = Frames!Check(f[i - 1], m, keys[i])
  BY ChecksAre
<1>2. Len(keys) \in Nat
  OBVIOUS
<1> HIDE DEF f
<1>3. Sifted(c, m, keys, 0, f[0])
  <2>1. f[0].cache = c /\ f[0].missing = <<>> /\ Len(<<>>) = 0 /\ <<>> \in Seq(Keys)
    BY <1>1
  <2>2. c \in Caches /\ \A n \in Frames!Modes : TableOK(c.tables[n])
    BY DEF CacheOK
  <2>3. Like(c, c)
    BY DEF Like, Same
  <2>4. Grown(c, c)
    BY <2>2, <2>3, LikeOK
  <2>5. 1 .. Len(f[0].missing) = {} /\ 1 .. 0 = {}
    BY <2>1
  <2> QED
    BY <2>1, <2>3, <2>4, <2>5 DEF Sifted
<1>4. Bad = {}
  <2> SUFFICES ASSUME Bad # {} PROVE FALSE
    OBVIOUS
  <2>0. Bad \in SUBSET Nat
    BY <1>2
  <2>1. PICK n \in Bad : \A k \in Bad : n <= k
    <3> HIDE DEF Bad
    <3> QED
      BY <2>0, LeastNumber
  <2>2. n # 0 /\ n \in 1 .. Len(keys)
    BY <1>3, <2>1
  <2>3. n - 1 \in Nat /\ n - 1 \in 0 .. Len(keys) /\ n - 1 \notin Bad /\ (n - 1) + 1 = n
    BY <2>1, <2>2
  <2>4. Sifted(c, m, keys, n - 1, f[n - 1])
    BY <2>3
  <2>5. f[n] = Frames!Check(f[n - 1], m, keys[(n - 1) + 1]) /\ (n - 1) + 1 <= Len(keys)
    BY <1>1, <2>2, <2>3
  <2>6. Sifted(c, m, keys, (n - 1) + 1, f[n])
    BY <2>3, <2>4, <2>5, CheckOK
  <2> QED
    BY <2>1, <2>3, <2>6
<1> QED
  BY <1>2, <1>4 DEF Frames!Checked, f

\* What is known once the first keys of a batch are stored.
Filled(c, m, keys, n, d) ==
  /\ CacheOK(d) /\ Grown(c, d)
  /\ \A j \in 1 .. n : Held(d.tables[m], keys[j])
  /\ \A j \in 1 .. Len(keys) : j > n =>
       ~Held(d.tables[m], keys[j]) \/ (Frames!IsUser(keys[j]) /\ keys[j].source \in unavailable)
  /\ core => d.replaced = c.replaced /\ d.pending = c.pending
  /\ \A e \in d.replaced : e \in c.replaced \/ (e.mode = m /\ \E j \in 1 .. n : e.key = keys[j])
  /\ \A p \in Frames!Modes, l \in Keys :
       /\ Held(c.tables[p], l) => Held(d.tables[p], l)
       /\ Held(d.tables[p], l) => Held(c.tables[p], l) \/ (Frames!IsUser(l) /\ l.source \in unavailable)
                                    \/ (p = m /\ \E j \in 1 .. n : l = keys[j])

\* One more key is stored.
LEMMA FillOK ==
  ASSUME WorldInv, core \in BOOLEAN, NEW c, CacheOK(c), core => c.core,
         NEW m \in Frames!Modes, NEW keys \in Seq(Keys),
         \A i, j \in 1 .. Len(keys) : keys[i] = keys[j] => i = j,
         NEW retry, \A l \in retry : Frames!IsModule(l), core => retry = {},
         ~core => \A j \in 1 .. Len(keys) : Frames!IsModule(keys[j]) => keys[j] \in retry,
         NEW n \in Nat, n + 1 <= Len(keys), NEW d, Filled(c, m, keys, n, d),
         NEW e, e = Frames!Stored(d, m, keys[n + 1], Frames!Resolve(keys[n + 1], m), retry)
  PROVE  Filled(c, m, keys, n + 1, e)
<1> DEFINE k == keys[n + 1]
<1>1. /\ CacheOK(d) /\ Grown(c, d)
      /\ \A j \in 1 .. n : Held(d.tables[m], keys[j])
      /\ \A j \in 1 .. Len(keys) : j > n =>
           ~Held(d.tables[m], keys[j]) \/ (Frames!IsUser(keys[j]) /\ keys[j].source \in unavailable)
      /\ core => d.replaced = c.replaced /\ d.pending = c.pending
      /\ \A x \in d.replaced : x \in c.replaced \/ (x.mode = m /\ \E j \in 1 .. n : x.key = keys[j])
      /\ \A p \in Frames!Modes, l \in Keys :
           /\ Held(c.tables[p], l) => Held(d.tables[p], l)
           /\ Held(d.tables[p], l) => Held(c.tables[p], l) \/ (Frames!IsUser(l) /\ l.source \in unavailable)
                                        \/ (p = m /\ \E j \in 1 .. n : l = keys[j])
  BY DEF Filled
<1>2. /\ Len(keys) \in Nat /\ n + 1 \in 1 .. Len(keys) /\ n + 1 > n /\ k \in Keys
      /\ \A j \in 1 .. n + 1 : j \in 1 .. n \/ j = n + 1
      /\ \A j \in 1 .. n : j \in 1 .. n + 1 /\ n + 1 \in 1 .. n + 1
      /\ \A j \in 1 .. Len(keys) : keys[j] \in Keys
  OBVIOUS
<1>3. core => d.core
  BY <1>1 DEF Grown
<1>4. ~Held(d.tables[m], k) \/ (Frames!IsUser(k) /\ k.source \in unavailable)
  BY <1>1, <1>2
<1>5. ~core /\ Frames!IsModule(k) => k \in retry
  BY <1>2
<1> HIDE DEF k
<1>6. /\ CacheOK(e) /\ Grown(d, e) /\ Held(e.tables[m], k)
      /\ \A p \in Frames!Modes, l \in Keys :
           /\ Held(d.tables[p], l) => Held(e.tables[p], l)
           /\ Held(e.tables[p], l) => Held(d.tables[p], l) \/ (p = m /\ l = k)
                                        \/ (Frames!IsUser(l) /\ l.source \in unavailable)
      /\ core => e.replaced = d.replaced /\ e.pending = d.pending
      /\ \A x \in e.replaced : x \in d.replaced \/ (x.mode = m /\ x.key = k)
  <2>1. e = Frames!Stored(d, m, k, Frames!Resolve(k, m), retry)
    BY DEF k
  <2> QED
    BY <1>1, <1>2, <1>3, <1>4, <1>5, <2>1, StoredOK
<1>7. Grown(c, e)
  <2>1. \A p \in Frames!Modes : /\ Keeps(c.tables[p], d.tables[p]) /\ Keeps(d.tables[p], e.tables[p])
                         /\ c.tables[p] \in Tables /\ d.tables[p] \in Tables /\ e.tables[p] \in Tables
    BY <1>1, <1>6 DEF Grown, CacheOK, TableOK
  <2>2. \A p \in Frames!Modes : Keeps(c.tables[p], e.tables[p])
    BY <2>1, KeepsKeeps
  <2> QED
    BY <1>1, <1>6, <2>2 DEF Grown
<1>8. \A j \in 1 .. n + 1 : Held(e.tables[m], keys[j])
  <2> TAKE j \in 1 .. n + 1
  <2>1. CASE j \in 1 .. n
    <3>1. keys[j] \in Keys /\ Held(d.tables[m], keys[j])
      BY <1>1, <1>2, <2>1
    <3> QED
      BY <1>6, <3>1
  <2>2. CASE j = n + 1
    BY <1>6, <2>2 DEF k
  <2> QED
    BY <1>2, <2>1, <2>2
<1>9. \A j \in 1 .. Len(keys) : j > n + 1 =>
        ~Held(e.tables[m], keys[j]) \/ (Frames!IsUser(keys[j]) /\ keys[j].source \in unavailable)
  <2> SUFFICES ASSUME NEW j \in 1 .. Len(keys), j > n + 1
               PROVE  ~Held(e.tables[m], keys[j]) \/ (Frames!IsUser(keys[j]) /\ keys[j].source \in unavailable)
    OBVIOUS
  <2>1. j > n /\ keys[j] # k /\ keys[j] \in Keys
    BY <1>2 DEF k
  <2>2. ~Held(d.tables[m], keys[j]) \/ (Frames!IsUser(keys[j]) /\ keys[j].source \in unavailable)
    BY <1>1, <2>1
  <2> QED
    BY <1>6, <2>1, <2>2
<1>10. core => e.replaced = c.replaced /\ e.pending = c.pending
  BY <1>1, <1>6
<1>11. \A x \in e.replaced : x \in c.replaced \/ (x.mode = m /\ \E j \in 1 .. n + 1 : x.key = keys[j])
  <2> TAKE x \in e.replaced
  <2>1. CASE x \in d.replaced
    <3>1. x \in c.replaced \/ (x.mode = m /\ \E j \in 1 .. n : x.key = keys[j])
      BY <1>1, <2>1
    <3> QED
      BY <1>2, <3>1
  <2>2. CASE x.mode = m /\ x.key = k
    BY <1>2, <2>2 DEF k
  <2> QED
    BY <1>6, <2>1, <2>2
<1>12. ASSUME NEW p \in Frames!Modes, NEW l \in Keys
       PROVE  /\ Held(c.tables[p], l) => Held(e.tables[p], l)
              /\ Held(e.tables[p], l) => Held(c.tables[p], l) \/ (Frames!IsUser(l) /\ l.source \in unavailable)
                                           \/ (p = m /\ \E j \in 1 .. n + 1 : l = keys[j])
  <2>1. Held(c.tables[p], l) => Held(e.tables[p], l)
    BY <1>1, <1>6
  <2>2. (\E j \in 1 .. n : l = keys[j]) => \E j \in 1 .. n + 1 : l = keys[j]
    BY <1>2
  <2>3. l = k => \E j \in 1 .. n + 1 : l = keys[j]
    BY <1>2 DEF k
  <2>4. Held(e.tables[p], l) => Held(d.tables[p], l) \/ (p = m /\ l = k)
                                        \/ (Frames!IsUser(l) /\ l.source \in unavailable)
    BY <1>6
  <2>5. Held(d.tables[p], l) => Held(c.tables[p], l) \/ (Frames!IsUser(l) /\ l.source \in unavailable)
                                        \/ (p = m /\ \E j \in 1 .. n : l = keys[j])
    BY <1>1
  <2> QED
    BY <2>1, <2>2, <2>3, <2>4, <2>5
<1> QED
  BY <1>6, <1>7, <1>8, <1>9, <1>10, <1>11, <1>12 DEF Filled

\* The missing keys are stored.
LEMMA StoresOK ==
  ASSUME WorldInv, core \in BOOLEAN, NEW c, CacheOK(c), core => c.core,
         NEW m \in Frames!Modes, NEW keys \in Seq(Keys),
         \A i, j \in 1 .. Len(keys) : keys[i] = keys[j] => i = j,
         \A i \in 1 .. Len(keys) : ~Held(c.tables[m], keys[i])
  PROVE  Filled(c, m, keys, Len(keys), Frames!Stores(c, m, keys, Frames!MayAppear(keys))[Len(keys)])
<1> DEFINE retry == Frames!MayAppear(keys)
           f == Frames!Stores(c, m, keys, retry)
           Bad == {n \in 0 .. Len(keys) : ~Filled(c, m, keys, n, f[n])}
<1>1. /\ f[0] = c
      /\ \A i \in 1 .. Len(keys) : f[i] = Frames!Stored(f[i - 1], m, keys[i], Frames!Resolve(keys[i], m), retry)
  BY StoresAre
<1>2. Len(keys) \in Nat /\ DOMAIN keys = 1 .. Len(keys)
  OBVIOUS
<1>3. /\ \A l \in retry : Frames!IsModule(l)
      /\ core => retry = {}
      /\ ~core => \A j \in 1 .. Len(keys) : Frames!IsModule(keys[j]) => keys[j] \in retry
  BY <1>2 DEF Frames!MayAppear, Frames!Range
<1> HIDE DEF f, retry
<1>4. Filled(c, m, keys, 0, f[0])
  <2>1. c \in Caches /\ \A n \in Frames!Modes : TableOK(c.tables[n])
    BY DEF CacheOK
  <2>2. Like(c, c)
    BY DEF Like, Same
  <2>3. Grown(c, c)
    BY <2>1, <2>2, LikeOK
  <2>4. 1 .. 0 = {}
    OBVIOUS
  <2> QED
    BY <1>1, <2>3, <2>4 DEF Filled
<1>5. Bad = {}
  <2> SUFFICES ASSUME Bad # {} PROVE FALSE
    OBVIOUS
  <2>0. Bad \in SUBSET Nat
    BY <1>2
  <2>1. PICK n \in Bad : \A k \in Bad : n <= k
    <3> HIDE DEF Bad
    <3> QED
      BY <2>0, LeastNumber
  <2>2. n # 0 /\ n \in 1 .. Len(keys)
    BY <1>4, <2>1
  <2>3. n - 1 \in Nat /\ n - 1 \in 0 .. Len(keys) /\ n - 1 \notin Bad /\ (n - 1) + 1 = n
    BY <2>1, <2>2
  <2>4. Filled(c, m, keys, n - 1, f[n - 1])
    BY <2>3
  <2>5. /\ f[n] = Frames!Stored(f[n - 1], m, keys[(n - 1) + 1], Frames!Resolve(keys[(n - 1) + 1], m), retry)
        /\ (n - 1) + 1 <= Len(keys)
    BY <1>1, <2>2, <2>3
  <2>6. Filled(c, m, keys, (n - 1) + 1, f[n])
    BY <1>3, <2>3, <2>4, <2>5, FillOK
  <2> QED
    BY <2>1, <2>3, <2>6
<1> QED
  BY <1>2, <1>5 DEF f, retry

\* After a batch every key of it is held.
LEMMA PrefetchedOK ==
  ASSUME WorldInv, core \in BOOLEAN, NEW c, CacheOK(c), core => c.core,
         NEW m \in Frames!Modes, NEW keys \in Seq(Keys),
         NEW d, d = Frames!Prefetched(c, m, keys)
  PROVE  /\ CacheOK(d) /\ Grown(c, d)
         /\ \A j \in 1 .. Len(keys) : Held(d.tables[m], keys[j])
         /\ core => d.replaced = c.replaced /\ d.pending = c.pending
         /\ \A e \in d.replaced : e \in c.replaced \/ (e.mode = m /\ \E j \in 1 .. Len(keys) : e.key = keys[j])
         /\ \A p \in Frames!Modes, l \in Keys :
              /\ Held(c.tables[p], l) => Held(d.tables[p], l)
              /\ Held(d.tables[p], l) => Held(c.tables[p], l) \/ (Frames!IsUser(l) /\ l.source \in unavailable)
                                           \/ (p = m /\ \E j \in 1 .. Len(keys) : l = keys[j])
<1> DEFINE r == Frames!Checked(c, m, keys)
           x == r.cache
           missing == r.missing
<1>1. Sifted(c, m, keys, Len(keys), r)
  BY CheckedOK
<1>2. d = Frames!Stores(x, m, missing, Frames!MayAppear(missing))[Len(missing)]
  BY DEF Frames!Prefetched
<1> HIDE DEF r
<1>3. /\ CacheOK(x) /\ Like(c, x) /\ Grown(c, x) /\ missing \in Seq(Keys)
      /\ \A i, j \in 1 .. Len(missing) : missing[i] = missing[j] => i = j
      /\ \A i \in 1 .. Len(missing) :
           ~Held(c.tables[m], missing[i]) /\ \E j \in 1 .. Len(keys) : missing[i] = keys[j]
      /\ \A j \in 1 .. Len(keys) :
           Held(c.tables[m], keys[j]) \/ \E i \in 1 .. Len(missing) : missing[i] = keys[j]
  BY <1>1 DEF Sifted
<1> HIDE DEF x, missing
<1>4. \A p \in Frames!Modes : \A l : Held(x.tables[p], l) = Held(c.tables[p], l)
  <2> TAKE p \in Frames!Modes
  <2>1. Same(c.tables[p], x.tables[p])
    BY <1>3 DEF Like
  <2> QED
    BY <2>1, SamePlain
<1>5. core => x.core
  BY <1>3 DEF Like
<1>6. \A i \in 1 .. Len(missing) : ~Held(x.tables[m], missing[i])
  BY <1>3, <1>4
<1>7. Filled(x, m, missing, Len(missing), d)
  <2>1. CacheOK(x) /\ missing \in Seq(Keys)
    BY <1>3
  <2>2. \A i, j \in 1 .. Len(missing) : missing[i] = missing[j] => i = j
    BY <1>3
  <2>3. Filled(x, m, missing, Len(missing), Frames!Stores(x, m, missing, Frames!MayAppear(missing))[Len(missing)])
    BY <1>5, <1>6, <2>1, <2>2, StoresOK
  <2> QED
    BY <1>2, <2>3
<1>8. /\ CacheOK(d) /\ Grown(x, d)
      /\ \A j \in 1 .. Len(missing) : Held(d.tables[m], missing[j])
      /\ core => d.replaced = x.replaced /\ d.pending = x.pending
      /\ \A e \in d.replaced : e \in x.replaced \/ (e.mode = m /\ \E j \in 1 .. Len(missing) : e.key = missing[j])
      /\ \A p \in Frames!Modes, l \in Keys :
           /\ Held(x.tables[p], l) => Held(d.tables[p], l)
           /\ Held(d.tables[p], l) => Held(x.tables[p], l) \/ (Frames!IsUser(l) /\ l.source \in unavailable)
                                        \/ (p = m /\ \E j \in 1 .. Len(missing) : l = missing[j])
  BY <1>7 DEF Filled
<1>9. x.replaced = c.replaced /\ x.pending = c.pending
  BY <1>3 DEF Like
<1>10. Grown(c, d)
  <2>1. \A p \in Frames!Modes : /\ Keeps(c.tables[p], x.tables[p]) /\ Keeps(x.tables[p], d.tables[p])
                         /\ c.tables[p] \in Tables /\ x.tables[p] \in Tables /\ d.tables[p] \in Tables
    BY <1>3, <1>8 DEF Grown, CacheOK, TableOK
  <2>2. \A p \in Frames!Modes : Keeps(c.tables[p], d.tables[p])
    BY <2>1, KeepsKeeps
  <2> QED
    BY <1>3, <1>8, <2>2 DEF Grown
<1>11. \A j \in 1 .. Len(keys) : Held(d.tables[m], keys[j])
  <2> TAKE j \in 1 .. Len(keys)
  <2>1. keys[j] \in Keys
    OBVIOUS
  <2>2. CASE Held(c.tables[m], keys[j])
    BY <1>4, <1>8, <2>1, <2>2
  <2>3. CASE \E i \in 1 .. Len(missing) : missing[i] = keys[j]
    BY <1>8, <2>3
  <2> QED
    BY <1>3, <2>2, <2>3
<1>12. \A y : (\E j \in 1 .. Len(missing) : y = missing[j]) => \E j \in 1 .. Len(keys) : y = keys[j]
  BY <1>3
<1>13. \A e \in d.replaced : e \in c.replaced \/ (e.mode = m /\ \E j \in 1 .. Len(keys) : e.key = keys[j])
  BY <1>8, <1>9, <1>12
<1>14. ASSUME NEW p \in Frames!Modes, NEW l \in Keys
       PROVE  /\ Held(c.tables[p], l) => Held(d.tables[p], l)
              /\ Held(d.tables[p], l) => Held(c.tables[p], l) \/ (Frames!IsUser(l) /\ l.source \in unavailable)
                                           \/ (p = m /\ \E j \in 1 .. Len(keys) : l = keys[j])
  <2>1. Held(c.tables[p], l) => Held(d.tables[p], l)
    BY <1>4, <1>8
  <2>2. Held(d.tables[p], l) => Held(c.tables[p], l) \/ (Frames!IsUser(l) /\ l.source \in unavailable)
                                  \/ (p = m /\ \E j \in 1 .. Len(missing) : l = missing[j])
    BY <1>4, <1>8
  <2> QED
    BY <1>12, <2>1, <2>2
<1> QED
  BY <1>8, <1>9, <1>10, <1>11, <1>13, <1>14

\* Kernel frames of a table are forgotten.
LEMMA ForgottenOK ==
  ASSUME WorldInv, NEW t, TableOK(t), NEW S,
         NEW u, u = [t EXCEPT !.kernel = Frames!Without(t.kernel, S)]
  PROVE  /\ TableOK(u) /\ Keeps(t, u) /\ u.by_source = t.by_source
         /\ \A l \in Keys :
              /\ ~Frames!IsUser(l) /\ l \in S => ~Held(u, l)
              /\ Frames!IsUser(l) \/ l \notin S =>
                   Held(u, l) = Held(t, l) /\ (Held(t, l) => Value(u, l) = Value(t, l))
<1>1. t \in Tables /\ SlotsOwn(t) /\ Revisions(t) /\ HintsTrue(t) /\ t.kernel \in Partial(Frames!KernelKeys, Nat)
  BY DEF TableOK, Tables
<1> DEFINE w == Frames!Without(t.kernel, S)
<1>2. /\ w \in Partial(Frames!KernelKeys, Nat) /\ DOMAIN w = DOMAIN t.kernel \ S
      /\ \A y \in DOMAIN t.kernel \ S : w[y] = t.kernel[y]
  <2>1. w \in Partial(Frames!KernelKeys, Nat)
    BY <1>1, WithoutIs
  <2> QED
    BY <2>1 DEF Frames!Without
<1> HIDE DEF w
<1>3. /\ u \in Tables /\ u.kernel = w /\ u.by_source = t.by_source /\ u.last_source = t.last_source
      /\ u.last_address = t.last_address /\ u.frames = t.frames /\ u.last_revision = t.last_revision
  <2>1. u = [t EXCEPT !.kernel = w]
    BY DEF w
  <2> QED
    BY <1>1, <1>2, <2>1 DEF Tables
<1>4. \A q, b : Frames!PlainSlot(u, q, b) = Frames!PlainSlot(t, q, b)
  BY <1>3 DEF Frames!PlainSlot
<1>5. \A l \in Keys : Plain(u, l) = IF ~Frames!IsUser(l) /\ l \in S THEN Nothing ELSE Plain(t, l)
  BY <1>2, <1>3, <1>4 DEF Plain
<1>6. HintsTrue(u)
  BY <1>1, <1>3, <1>4 DEF HintsTrue
<1>7. Revisions(u)
  BY <1>1, <1>3 DEF Revisions
<1>8. SlotsOwn(u)
  <2>1. \A l \in Keys : Plain(u, l) = Plain(t, l) \/ Plain(u, l) = Nothing
    BY <1>5
  <2>2. \A l \in Keys : Plain(u, l) \in Option(0 .. Len(u.frames))
    BY <1>1, <1>3, <2>1 DEF SlotsOwn, Option
  <2>3. \A l, n \in Keys : l # n /\ Plain(u, l) = Plain(u, n) => Plain(u, l) \in {0, Nothing}
    BY <1>1, <2>1 DEF SlotsOwn
  <2> QED
    BY <1>1, <1>3, <2>2, <2>3 DEF SlotsOwn
<1>9. Keeps(t, u)
  BY <1>1, <1>3, Lengths DEF Keeps
<1>10. ASSUME NEW l \in Keys, Frames!IsUser(l) \/ l \notin S
       PROVE  Held(u, l) = Held(t, l) /\ (Held(t, l) => Value(u, l) = Value(t, l))
  <2>1. Plain(u, l) = Plain(t, l)
    BY <1>5, <1>10
  <2> QED
    BY <1>1, <1>3, <1>9, <2>1, SlotKept
<1>11. \A l \in Keys : ~Frames!IsUser(l) /\ l \in S => ~Held(u, l)
  BY <1>5 DEF Held
<1> QED
  BY <1>3, <1>6, <1>7, <1>8, <1>9, <1>10, <1>11 DEF TableOK

\* Entries of replaced maps and early misses are forgotten once the core is loaded.
LEMMA FinishedOK ==
  ASSUME WorldInv, NEW c, CacheOK(c), NEW d, d = Frames!Finished(c)
  PROVE  /\ CacheOK(d) /\ Grown(c, d) /\ d.core = c.core /\ d.replaced = {}
         /\ c.core => d.pending = {}
         /\ \A p \in Frames!Modes, l \in Keys : Held(d.tables[p], l) => Held(c.tables[p], l)
<1>1. /\ c \in Caches /\ UserTrue(c) /\ KernelTrue(c) /\ NotesTrue(c)
      /\ \A n \in Frames!Modes : TableOK(c.tables[n]) /\ c.tables[n] \in Tables
      /\ c.tables \in [Frames!Modes -> Tables] /\ c.core \in BOOLEAN
  BY DEF CacheOK, Caches, TableOK
<1>2. CASE ~c.core
  <2>1. d = c /\ c.replaced = {}
    BY <1>1, <1>2 DEF Frames!Finished, NotesTrue
  <2>2. Like(c, c)
    BY DEF Like, Same
  <2>3. Grown(c, c)
    BY <1>1, <2>2, LikeOK
  <2> QED
    BY <1>2, <2>1, <2>3
<1>3. CASE c.core
  <2> DEFINE u(n) == [c.tables[n] EXCEPT !.kernel = Frames!Without(c.tables[n].kernel, Frames!RetiredKeys(c, n))]
  <2>1. /\ d.tables = Frames!Forgotten(c) /\ d.replaced = {} /\ d.pending = {} /\ d.core = c.core
        /\ d = [tables |-> d.tables, core |-> d.core, replaced |-> d.replaced, pending |-> d.pending]
    <3>1. c = [tables |-> c.tables, core |-> c.core, replaced |-> c.replaced, pending |-> c.pending]
      BY <1>1 DEF Caches
    <3> QED
      BY <1>3, <3>1 DEF Frames!Finished
  <2>2. \A n \in Frames!Modes : d.tables[n] = u(n)
    BY <2>1 DEF Frames!Forgotten
  <2>3. ASSUME NEW n \in Frames!Modes
        PROVE  /\ TableOK(d.tables[n]) /\ Keeps(c.tables[n], d.tables[n])
               /\ d.tables[n].by_source = c.tables[n].by_source
               /\ \A l \in Keys :
                    /\ ~Frames!IsUser(l) /\ l \in Frames!RetiredKeys(c, n) => ~Held(d.tables[n], l)
                    /\ Frames!IsUser(l) \/ l \notin Frames!RetiredKeys(c, n) =>
                         Held(d.tables[n], l) = Held(c.tables[n], l)
                           /\ (Held(c.tables[n], l) => Value(d.tables[n], l) = Value(c.tables[n], l))
    <3>1. d.tables[n] = [c.tables[n] EXCEPT !.kernel = Frames!Without(c.tables[n].kernel, Frames!RetiredKeys(c, n))]
      BY <2>2
    <3>2. TableOK(c.tables[n])
      BY <1>1
    <3> QED
      BY <3>1, <3>2, ForgottenOK
  <2> HIDE DEF u
  <2>4. d \in Caches
    <3>1. d.tables \in [Frames!Modes -> Tables]
      BY <2>1, <2>3 DEF TableOK, Frames!Forgotten
    <3> QED
      BY <1>1, <2>1, <3>1 DEF Caches
  <2>5. Grown(c, d)
    BY <2>1, <2>3 DEF Grown
  <2>6. UserTrue(d)
    <3>1. \A p \in Frames!Modes : \A s \in DOMAIN d.tables[p].by_source :
            d.tables[p].by_source[s].unavailable => s \in unavailable
      BY <1>1, <2>3 DEF UserTrue
    <3>2. \A p \in Frames!Modes : \A k \in Frames!UserKeys : Held(d.tables[p], k) =>
            Value(d.tables[p], k) = Frames!UserAnswer(k, p).frames
      <4>1. \A k \in Frames!UserKeys : k \in Keys /\ Frames!IsUser(k)
        BY DEF Keys, Frames!IsUser
      <4> QED
        BY <1>1, <2>3, <4>1 DEF UserTrue
    <3> QED
      BY <3>1, <3>2 DEF UserTrue
  <2>7. KernelTrue(d)
    <3> SUFFICES ASSUME NEW p \in Frames!Modes, NEW l \in Frames!KernelKeys, Held(d.tables[p], l)
                 PROVE  Value(d.tables[p], l) = Final(l, p)
      BY <1>3, <2>1 DEF KernelTrue
    <3>1. l \in Keys /\ ~Frames!IsUser(l)
      BY KeysApart DEF Keys, Frames!IsUser
    <3>2. l \notin Frames!RetiredKeys(c, p) /\ Held(c.tables[p], l) /\ Value(d.tables[p], l) = Value(c.tables[p], l)
      BY <2>3, <3>1
    <3>3. [mode |-> p, key |-> l] \notin Frames!Retired(c)
      BY <3>2 DEF Frames!RetiredKeys
    <3> QED
      BY <1>1, <3>2, <3>3 DEF KernelTrue
  <2>8. NotesTrue(d)
    BY <2>1 DEF NotesTrue
  <2>9. \A p \in Frames!Modes, l \in Keys : Held(d.tables[p], l) => Held(c.tables[p], l)
    BY <2>3
  <2> QED
    BY <2>1, <2>3, <2>4, <2>5, <2>6, <2>7, <2>8, <2>9 DEF CacheOK
<1> QED
  BY <1>1, <1>2, <1>3

\* A node in the cursor's map that is not cached is printed from the old map.
LEMMA ContinuedOK ==
  ASSUME WorldInv, NEW c, CacheOK(c), c.core, NEW m \in Frames!Modes, NEW k \in Keys,
         Frames!SameMap(k), ~Frames!IsCached(c, m, k),
         kernel_cursor_hint \in [map : Frames!Maps, object : BOOLEAN], ReplacedMap(kernel_cursor_hint.map),
         kernel_cursor_hint.object = (loading[kernel_cursor_hint.map] = "objectReplaced"),
         NEW d, d = Frames!Continued(c, m, k)
  PROVE  /\ CacheOK(d) /\ Grown(c, d) /\ d.core = c.core /\ d.pending = c.pending /\ Held(d.tables[m], k)
         /\ d.replaced = c.replaced \cup {[mode |-> m, key |-> k, object |-> kernel_cursor_hint.object]}
         /\ \A p \in Frames!Modes, l \in Keys : Held(d.tables[p], l) => Held(c.tables[p], l) \/ (p = m /\ l = k)
<1> DEFINE object == kernel_cursor_hint.object
           frames == IF object THEN Frames!ObjectFrames(k, m) ELSE Frames!Unresolved
           script == FALSE
           u == Frames!Insert(c.tables[m], k, frames, script)
           entry == [mode |-> m, key |-> k, object |-> object]
<1>1. /\ c \in Caches /\ UserTrue(c) /\ KernelTrue(c) /\ NotesTrue(c)
      /\ \A n \in Frames!Modes : TableOK(c.tables[n]) /\ c.tables[n] \in Tables
      /\ c.tables \in [Frames!Modes -> Tables] /\ c.core \in BOOLEAN
      /\ c.replaced \in SUBSET [mode : Frames!Modes, key : Frames!ModuleKeys, object : BOOLEAN]
      /\ c.pending \in SUBSET [mode : Frames!Modes, key : Frames!ModuleKeys]
  BY DEF CacheOK, Caches, TableOK
<1>2. k \in Frames!ModuleKeys /\ k \in Frames!KernelKeys /\ k \notin Frames!UserKeys /\ k.map = kernel_cursor_hint.map
  BY KeysApart DEF Frames!SameMap, Frames!IsModule
<1>3. object \in BOOLEAN /\ object = (loading[k.map] = "objectReplaced")
  BY <1>2
<1>4. frames = Old(k, m) /\ frames \in Rendered
  BY <1>2, <1>3 DEF Old, Rendered
<1>5. ~Held(c.tables[m], k)
  BY TouchedOK
<1>6. /\ d.replaced = c.replaced \cup {entry} /\ d.tables = [c.tables EXCEPT ![m] = u]
      /\ d.core = c.core /\ d.pending = c.pending
      /\ d = [tables |-> d.tables, core |-> d.core, replaced |-> d.replaced, pending |-> d.pending]
  <2>1. c = [tables |-> c.tables, core |-> c.core, replaced |-> c.replaced, pending |-> c.pending]
    BY <1>1 DEF Caches
  <2> QED
    BY <2>1 DEF Frames!Continued
<1>7. u = Frames!Insert(c.tables[m], k, frames, script) /\ TableOK(c.tables[m]) /\ script \in BOOLEAN
  BY <1>1
<1> HIDE DEF frames, u, script
<1>8. /\ TableOK(u) /\ Keeps(c.tables[m], u) /\ Held(u, k) /\ Value(u, k) = frames
      /\ \A l \in Keys : l # k =>
           Held(u, l) = Held(c.tables[m], l) /\ (Held(c.tables[m], l) => Value(u, l) = Value(c.tables[m], l))
      /\ \A s \in DOMAIN u.by_source : u.by_source[s].unavailable =>
           s \in DOMAIN c.tables[m].by_source /\ c.tables[m].by_source[s].unavailable
  BY <1>4, <1>5, <1>7, InsertOK
<1>9. d.tables[m] = u /\ \A n \in Frames!Modes : n # m => d.tables[n] = c.tables[n]
  BY <1>1, <1>6
<1>10. \A n \in Frames!Modes : Keeps(c.tables[n], c.tables[n])
  BY <1>1, SameKeeps DEF Same
<1>11. \A n \in Frames!Modes : TableOK(d.tables[n]) /\ Keeps(c.tables[n], d.tables[n])
  BY <1>1, <1>8, <1>9, <1>10
<1>12. \A p \in Frames!Modes, l \in Keys :
         \/ Held(d.tables[p], l) = Held(c.tables[p], l)
              /\ (Held(c.tables[p], l) => Value(d.tables[p], l) = Value(c.tables[p], l))
         \/ p = m /\ l = k
  BY <1>8, <1>9
<1>13. entry \in [mode : Frames!Modes, key : Frames!ModuleKeys, object : BOOLEAN]
       /\ entry.mode = m /\ entry.key = k /\ entry.object = object
  BY <1>2, <1>3
<1>14. d \in Caches
  <2>1. d.tables \in [Frames!Modes -> Tables]
    BY <1>1, <1>6, <1>8 DEF TableOK
  <2> HIDE DEF entry
  <2> QED
    BY <1>1, <1>6, <1>13, <2>1 DEF Caches
<1>15. Grown(c, d)
  BY <1>6, <1>11 DEF Grown
<1>16. UserTrue(d)
  <2>1. \A p \in Frames!Modes : \A s \in DOMAIN d.tables[p].by_source :
          d.tables[p].by_source[s].unavailable => s \in unavailable
    BY <1>1, <1>8, <1>9 DEF UserTrue
  <2>2. \A l \in Frames!UserKeys : l \in Keys /\ l # k
    BY <1>2 DEF Keys
  <2>3. \A p \in Frames!Modes : \A l \in Frames!UserKeys :
          Held(d.tables[p], l) => Value(d.tables[p], l) = Frames!UserAnswer(l, p).frames
    BY <1>1, <1>12, <2>2 DEF UserTrue
  <2> QED
    BY <2>1, <2>3 DEF UserTrue
<1>17. /\ \A x \in Frames!Retired(c) : x \in Frames!Retired(d)
       /\ [mode |-> m, key |-> k] \in Frames!Retired(d)
  <2>1. c.replaced \subseteq d.replaced /\ d.pending = c.pending /\ entry \in d.replaced
    BY <1>6
  <2>2. [mode |-> m, key |-> k] = [mode |-> entry.mode, key |-> entry.key]
    BY <1>13
  <2> HIDE DEF entry
  <2> QED
    BY <2>1, <2>2 DEF Frames!Retired
<1>18. KernelTrue(d)
  <2> SUFFICES ASSUME NEW p \in Frames!Modes, NEW l \in Frames!KernelKeys, Held(d.tables[p], l)
               PROVE  Value(d.tables[p], l) = Final(l, p) \/ [mode |-> p, key |-> l] \in Frames!Retired(d)
    BY <1>6 DEF KernelTrue
  <2>1. l \in Keys
    BY DEF Keys
  <2>2. CASE p = m /\ l = k
    BY <1>17, <2>2
  <2>3. CASE Held(c.tables[p], l) /\ Value(d.tables[p], l) = Value(c.tables[p], l)
    <3>1. Value(c.tables[p], l) = Final(l, p) \/ [mode |-> p, key |-> l] \in Frames!Retired(c)
      BY <1>1, <2>3 DEF KernelTrue
    <3> QED
      BY <1>17, <2>3, <3>1
  <2> QED
    BY <1>12, <2>1, <2>2, <2>3
<1>19. NotesTrue(d)
  <2>1. ASSUME NEW e \in d.replaced
        PROVE  /\ ReplacedMap(e.key.map) /\ e.object = (loading[e.key.map] = "objectReplaced")
               /\ Held(d.tables[e.mode], e.key) /\ Value(d.tables[e.mode], e.key) = Old(e.key, e.mode)
    <3>1. CASE e \in c.replaced
      <4>1. /\ ReplacedMap(e.key.map) /\ e.object = (loading[e.key.map] = "objectReplaced")
            /\ Held(c.tables[e.mode], e.key) /\ Value(c.tables[e.mode], e.key) = Old(e.key, e.mode)
        BY <1>1, <3>1 DEF NotesTrue
      <4>2. e.mode \in Frames!Modes /\ e.key \in Keys
        BY <1>1, <3>1 DEF Keys, Frames!KernelKeys
      <4>3. ~(e.mode = m /\ e.key = k)
        BY <1>5, <4>1
      <4>4. /\ Held(d.tables[e.mode], e.key) = Held(c.tables[e.mode], e.key)
            /\ Held(c.tables[e.mode], e.key) => Value(d.tables[e.mode], e.key) = Value(c.tables[e.mode], e.key)
        BY <1>12, <4>2, <4>3
      <4> QED
        BY <4>1, <4>4
    <3>2. CASE e = entry
      BY <1>2, <1>3, <1>4, <1>8, <1>9, <1>13, <3>2
    <3> QED
      BY <1>6, <3>1, <3>2
  <2> QED
    BY <1>6, <2>1 DEF NotesTrue
<1>20. CacheOK(d)
  BY <1>11, <1>14, <1>16, <1>18, <1>19 DEF CacheOK
<1>21. \A p \in Frames!Modes, l \in Keys : Held(d.tables[p], l) => Held(c.tables[p], l) \/ (p = m /\ l = k)
  BY <1>12
<1> QED
  BY <1>6, <1>8, <1>9, <1>15, <1>20, <1>21

-----------------------------------------------------------------------------
(* Steps.                                                                    *)

\* The recording and the resolver stay what they are.
LEMMA WorldSame ==
  ASSUME UNCHANGED Frames!worldVars
  PROVE  /\ Frames!Modes' = Frames!Modes /\ Frames!Maps' = Frames!Maps /\ Frames!UserKeys' = Frames!UserKeys /\ Frames!ModuleKeys' = Frames!ModuleKeys
         /\ Frames!KernelKeys' = Frames!KernelKeys /\ Keys' = Keys /\ (WorldInv' <=> WorldInv)
         /\ loading' = loading /\ unavailable' = unavailable
         /\ \A k : (Frames!IsUser(k)' <=> Frames!IsUser(k)) /\ (Frames!IsModule(k)' <=> Frames!IsModule(k))
         /\ \A t, k : Held(t, k)' <=> Held(t, k)
         /\ \A t : TableOK(t)' <=> TableOK(t)
         /\ \A map : ReplacedMap(map)' <=> ReplacedMap(map)
         /\ \A k, m : Frames!UserAnswer(k, m)' = Frames!UserAnswer(k, m)
         /\ \A c : CacheOK(c)' <=> CacheOK(c)
<1>1. recording' = recording /\ unavailable' = unavailable /\ loading' = loading
  BY DEF Frames!worldVars
<1>2. /\ Frames!Sources' = Frames!Sources /\ Frames!Addresses' = Frames!Addresses /\ Frames!Gaps' = Frames!Gaps /\ Frames!Maps' = Frames!Maps
      /\ Frames!MapAddresses' = Frames!MapAddresses /\ Frames!Modes' = Frames!Modes
  BY <1>1 DEF Frames!Sources, Frames!Addresses, Frames!Gaps, Frames!Maps, Frames!MapAddresses, Frames!Modes
<1>3. Frames!UserKeys' = Frames!UserKeys /\ Frames!ModuleKeys' = Frames!ModuleKeys
  BY <1>2 DEF Frames!UserKeys, Frames!ModuleKeys
<1>4. Frames!KernelKeys' = Frames!KernelKeys
  BY <1>3 DEF Frames!KernelKeys
<1>5. Keys' = Keys
  BY <1>3, <1>4 DEF Keys
<1>6. Rendered' = Rendered
  BY <1>2, <1>3, <1>4 DEF Rendered
<1>7. Entries' = Entries
  BY <1>6 DEF Entries
<1>8. Hints' = Hints
  BY <1>2 DEF Hints
<1>9. Slots' = Slots
  BY <1>2, <1>8 DEF Slots
<1>10. Tables' = Tables
  BY <1>2, <1>4, <1>7, <1>8, <1>9 DEF Tables
<1>11. Caches' = Caches
  BY <1>2, <1>3, <1>10 DEF Caches
<1>12. \A k : (Frames!IsUser(k)' <=> Frames!IsUser(k)) /\ (Frames!IsModule(k)' <=> Frames!IsModule(k))
  BY <1>3 DEF Frames!IsUser, Frames!IsModule
<1>13. \A t, k : Plain(t, k)' = Plain(t, k)
  BY <1>12 DEF Plain
<1>14. \A t, k : (Held(t, k)' <=> Held(t, k)) /\ Value(t, k)' = Value(t, k)
  BY <1>13 DEF Held, Value
<1>15. \A t : SlotsOwn(t)' <=> SlotsOwn(t)
  BY <1>5, <1>13 DEF SlotsOwn
<1>16. \A t : TableOK(t)' <=> TableOK(t)
  BY <1>10, <1>15 DEF TableOK
<1>17. \A map : ReplacedMap(map)' <=> ReplacedMap(map)
  BY <1>1 DEF ReplacedMap
<1>18. \A k, m : /\ Frames!UserAnswer(k, m)' = Frames!UserAnswer(k, m) /\ Final(k, m)' = Final(k, m)
                 /\ Old(k, m)' = Old(k, m)
  BY <1>1, <1>2 DEF Frames!UserAnswer, Final, Old
<1>19. \A c : UserTrue(c)' <=> UserTrue(c)
  BY <1>1, <1>2, <1>3, <1>14, <1>18 DEF UserTrue
<1>20. \A c : KernelTrue(c)' <=> KernelTrue(c)
  BY <1>1, <1>2, <1>4, <1>12, <1>14, <1>18 DEF KernelTrue
<1>21. \A c : NotesTrue(c)' <=> NotesTrue(c)
  BY <1>1, <1>14, <1>17, <1>18 DEF NotesTrue
<1>22. \A c : CacheOK(c)' <=> CacheOK(c)
  BY <1>2, <1>11, <1>16, <1>19, <1>20, <1>21 DEF CacheOK
<1>23. WorldInv' <=> WorldInv
  BY <1>1, <1>2 DEF WorldInv
<1> QED
  BY <1>1, <1>2, <1>3, <1>4, <1>5, <1>12, <1>14, <1>16, <1>17, <1>18, <1>22, <1>23

\* Once the core is loaded the resolver's answers are final.
LEMMA CoreAnswers ==
  ASSUME UNCHANGED Frames!worldVars, core', NEW k, NEW m
  PROVE  Frames!KernelAnswer(k, m)'.frames = Final(k, m)
<1>1. loading' = loading
  BY DEF Frames!worldVars
<1>2. \A f, s : Frames!Answer(f, s).frames = f /\ Frames!Loading(f, s).frames = f
  BY DEF Frames!Answer, Frames!Loading
<1>3. Frames!KernelAnswer(k, m)' \in
        {Frames!Loading(Frames!CoreFrames(k, m), "AddressDependent"), Frames!Answer(Frames!ObjectFrames(k, m), "AddressDependent"),
         Frames!Answer(Frames!CoreFrames(k, m), "AddressDependent")}
  BY <1>1 DEF Frames!KernelAnswer
<1>4. CASE k # MainKey /\ loading[k.map] = "object"
  <2>1. Frames!KernelAnswer(k, m)' = Frames!Answer(Frames!ObjectFrames(k, m), "AddressDependent")
    BY <1>1, <1>4 DEF Frames!KernelAnswer
  <2> QED
    BY <1>2, <1>4, <2>1 DEF Final
<1>5. CASE k = MainKey
  <2>1. Frames!KernelAnswer(k, m)' = Frames!Loading(Frames!CoreFrames(k, m), "AddressDependent")
    BY <1>5 DEF Frames!KernelAnswer
  <2> QED
    BY <1>2, <1>5, <2>1 DEF Final
<1>6. CASE k # MainKey /\ loading[k.map] # "object"
  <2>1. Frames!KernelAnswer(k, m)' = Frames!Answer(Frames!CoreFrames(k, m), "AddressDependent")
    BY <1>1, <1>6 DEF Frames!KernelAnswer
  <2> QED
    BY <1>2, <1>6, <2>1 DEF Final
<1> QED
  BY <1>4, <1>5, <1>6

\* The fields of the cache.
LEMMA CacheIs ==
  /\ Frames!Cache.tables = tables /\ Frames!Cache.core = core
  /\ Frames!Cache.replaced = replaced_kernel_entries /\ Frames!Cache.pending = pending_kernel_module_misses
BY DEF Frames!Cache

\* What a step makes of the cache.
LEMMA BecomesIs ==
  ASSUME UNCHANGED Frames!worldVars, CacheOK(Frames!Cache), NEW d, CacheOK(d), Frames!Becomes(d)
  PROVE  /\ tables' = d.tables /\ core' = d.core
         /\ replaced_kernel_entries' = d.replaced /\ pending_kernel_module_misses' = d.pending
         /\ CacheOK(Frames!Cache)'
         /\ \A m \in Frames!Modes : tables[m] \in Tables /\ d.tables[m] \in Tables /\ TableOK(d.tables[m])
         /\ core \in BOOLEAN /\ d.core \in BOOLEAN
<1>1. d \in Caches /\ Frames!Cache \in Caches
  BY DEF CacheOK
<1>2. /\ tables' = d.tables /\ core' = d.core
      /\ replaced_kernel_entries' = d.replaced /\ pending_kernel_module_misses' = d.pending
  BY DEF Frames!Becomes
<1>3. Frames!Cache' = d
  <2>1. d = [tables |-> d.tables, replaced |-> d.replaced, pending |-> d.pending, core |-> d.core]
    BY <1>1 DEF Caches
  <2> QED
    BY <1>2, <2>1 DEF Frames!Cache
<1>4. CacheOK(Frames!Cache)'
  BY <1>3, WorldSame
<1>5. \A m \in Frames!Modes : tables[m] \in Tables /\ d.tables[m] \in Tables /\ TableOK(d.tables[m])
  BY CacheIs DEF CacheOK, TableOK
<1>6. core \in BOOLEAN /\ d.core \in BOOLEAN
  BY <1>1, CacheIs DEF Caches
<1> QED
  BY <1>2, <1>4, <1>5, <1>6

\* An identity that was rendered keeps its frames.
LEMMA ProjectedKept ==
  ASSUME UNCHANGED Frames!worldVars, ProjectedInv, projected' = projected,
         \A m \in Frames!Modes : tables[m] \in Tables /\ tables'[m] \in Tables /\ Keeps(tables[m], tables'[m])
  PROVE  ProjectedInv'
<1>1. Frames!Modes' = Frames!Modes
  BY WorldSame
<1>2. SUFFICES ASSUME projected # Nothing
      PROVE  /\ projected.mode \in Frames!Modes /\ projected.revision \in Nat \ {0}
             /\ projected.revision <= tables'[projected.mode].last_revision
             /\ \A i \in DOMAIN tables'[projected.mode].frames :
                  tables'[projected.mode].frames[i].revision = projected.revision =>
                    tables'[projected.mode].frames[i].frames = projected.frames
  BY <1>1 DEF ProjectedInv, Frames!IdentityKept
<1> DEFINE p == projected.mode
           t == tables[p]
           u == tables'[p]
<1>3. /\ p \in Frames!Modes /\ projected.revision \in Nat \ {0} /\ projected.revision <= t.last_revision
      /\ \A i \in DOMAIN t.frames :
           t.frames[i].revision = projected.revision => t.frames[i].frames = projected.frames
  BY <1>2 DEF ProjectedInv, Frames!IdentityKept
<1>4. t \in Tables /\ u \in Tables /\ Keeps(t, u)
  BY <1>3
<1> HIDE DEF t, u
<1>5. /\ Len(t.frames) \in Nat /\ Len(u.frames) \in Nat /\ t.last_revision \in Nat /\ u.last_revision \in Nat
      /\ DOMAIN t.frames = 1 .. Len(t.frames) /\ DOMAIN u.frames = 1 .. Len(u.frames)
      /\ \A i \in 1 .. Len(u.frames) : u.frames[i].revision \in Nat
  BY <1>4, Lengths
<1>6. projected.revision <= u.last_revision
  <2>1. t.last_revision <= u.last_revision
    BY <1>4 DEF Keeps
  <2> QED
    BY <1>3, <1>5, <2>1
<1>7. ASSUME NEW i \in DOMAIN u.frames, u.frames[i].revision = projected.revision
      PROVE  u.frames[i].frames = projected.frames
  <2>1. CASE i <= Len(t.frames)
    <3>1. i \in 1 .. Len(t.frames) /\ u.frames[i] = t.frames[i]
      BY <1>4, <1>5, <2>1 DEF Keeps
    <3> QED
      BY <1>3, <1>5, <1>7, <3>1
  <2>2. CASE i > Len(t.frames)
    <3>1. u.frames[i].revision > t.last_revision
      BY <1>4, <1>5, <2>2 DEF Keeps
    <3> QED
      BY <1>3, <1>5, <1>7, <3>1
  <2> QED
    BY <1>5, <2>1, <2>2
<1> QED
  BY <1>3, <1>6, <1>7 DEF t, u

\* So does one that is rendered now.
LEMMA ProjectOK ==
  ASSUME UNCHANGED Frames!worldVars, ProjectedInv, NEW m \in Frames!Modes, NEW e, Frames!Project(m, e),
         \A n \in Frames!Modes : tables[n] \in Tables /\ tables'[n] \in Tables /\ Keeps(tables[n], tables'[n]),
         Revisions(tables'[m]), e.revision \in Nat,
         e.revision # 0 => \E i \in 1 .. Len(tables'[m].frames) : e = tables'[m].frames[i]
  PROVE  ProjectedInv'
<1>1. CASE UNCHANGED projected
  BY <1>1, ProjectedKept
<1>2. CASE e.revision # 0 /\ projected' = [mode |-> m, revision |-> e.revision, frames |-> e.frames]
  <2> DEFINE u == tables'[m]
  <2>1. u \in Tables /\ Revisions(u)
    OBVIOUS
  <2>2. PICK i \in 1 .. Len(u.frames) : e = u.frames[i]
    BY <1>2
  <2> HIDE DEF u
  <2>3. DOMAIN u.frames = 1 .. Len(u.frames) /\ u.last_revision \in Nat
    BY <2>1, Lengths
  <2>4. e.revision <= u.last_revision
    BY <2>1, <2>2 DEF Revisions
  <2>5. \A j \in DOMAIN u.frames : u.frames[j].revision = e.revision => u.frames[j].frames = e.frames
    BY <1>2, <2>1, <2>2, <2>3 DEF Revisions
  <2>6. projected'.mode = m /\ projected'.revision = e.revision /\ projected'.frames = e.frames
    BY <1>2
  <2>7. Frames!Modes' = Frames!Modes
    BY WorldSame
  <2>8. e.revision \in Nat \ {0}
    BY <1>2
  <2> QED
    BY <2>4, <2>5, <2>6, <2>7, <2>8 DEF ProjectedInv, Frames!IdentityKept, u
<1> QED
  BY <1>1, <1>2 DEF Frames!Project

\* Nothing is lost in two steps.
LEMMA GrownTwice ==
  ASSUME NEW c, CacheOK(c), NEW d, CacheOK(d), NEW e, CacheOK(e), Grown(c, d), Grown(d, e)
  PROVE  Grown(c, e)
<1>1. \A m \in Frames!Modes : c.tables[m] \in Tables /\ d.tables[m] \in Tables /\ e.tables[m] \in Tables
  BY DEF CacheOK, TableOK
<1>2. \A m \in Frames!Modes : Keeps(c.tables[m], e.tables[m])
  BY <1>1, KeepsKeeps DEF Grown
<1> QED
  BY <1>2 DEF Grown

\* The core is loaded at the start of a sample.
LEMMA LoadedOK ==
  ASSUME WorldInv, NEW c, CacheOK(c), c.replaced = {}, NEW loads \in BOOLEAN,
         NEW d, d = [c EXCEPT !.core = @ \/ loads]
  PROVE  /\ CacheOK(d) /\ Grown(c, d) /\ d.core = (c.core \/ loads)
         /\ d.replaced = {} /\ d.pending = c.pending
<1>1. /\ c \in Caches /\ UserTrue(c) /\ KernelTrue(c) /\ \A m \in Frames!Modes : TableOK(c.tables[m])
  BY DEF CacheOK
<1>2. /\ d.tables = c.tables /\ d.core = (c.core \/ loads)
      /\ d.replaced = c.replaced /\ d.pending = c.pending /\ d \in Caches
  BY <1>1 DEF Caches
<1>3. Frames!Retired(d) = Frames!Retired(c)
  BY <1>2 DEF Frames!Retired
<1>4. UserTrue(d)
  BY <1>1, <1>2 DEF UserTrue
<1>5. KernelTrue(d)
  BY <1>1, <1>2, <1>3 DEF KernelTrue
<1>6. NotesTrue(d)
  BY <1>2 DEF NotesTrue
<1>7. \A m \in Frames!Modes : c.tables[m] \in Tables /\ Keeps(c.tables[m], d.tables[m])
  BY <1>1, <1>2, SameKeeps DEF TableOK, Same
<1>8. Grown(c, d)
  BY <1>2, <1>7 DEF Grown
<1> QED
  BY <1>1, <1>2, <1>4, <1>5, <1>6, <1>8 DEF CacheOK

\* What is served.
LEMMA ServedOK ==
  ASSUME UNCHANGED Frames!worldVars, NEW m \in Frames!Modes, NEW k \in Keys, NEW f, Frames!Serve(m, k, f),
         Frames!IsUser(k) => f = Frames!UserAnswer(k, m).frames,
         ~Frames!IsUser(k) /\ began' => f = Frames!KernelAnswer(k, m)'.frames,
         run' # Nothing => ReplacedMap(run') /\ f = IF loading[run'] = "objectReplaced"
                                                       THEN Frames!ObjectFrames(k, m) ELSE Frames!Unresolved
  PROVE  ServedInv'
<1>1. served'.mode = m /\ served'.key = k /\ served'.frames = f
  BY DEF Frames!Serve
<1>2. /\ Frames!Modes' = Frames!Modes /\ Keys' = Keys /\ loading' = loading
      /\ \A l : Frames!IsUser(l)' <=> Frames!IsUser(l)
      /\ \A l, p : Frames!UserAnswer(l, p)' = Frames!UserAnswer(l, p)
  BY WorldSame
<1>3. served'.mode \in Frames!Modes' /\ served'.key \in Keys'
  BY <1>1, <1>2
<1>4. Frames!UserServed'
  BY <1>1, <1>2 DEF Frames!UserServed
<1>5. Frames!NothingStale'
  <2>1. Frames!KernelAnswer(served.key, served.mode)' = Frames!KernelAnswer(k, m)'
    BY <1>1 DEF Frames!KernelAnswer
  <2> QED
    BY <1>1, <1>2, <2>1 DEF Frames!NothingStale
<1>6. Frames!RunKeepsSource'
  BY <1>1, <1>2 DEF Frames!RunKeepsSource, ReplacedMap
<1> QED
  BY <1>3, <1>4, <1>5, <1>6 DEF ServedInv

\* Nothing is served.
LEMMA NotServed ==
  ASSUME served' = Nothing
  PROVE  ServedInv'
BY DEF ServedInv, Frames!UserServed, Frames!NothingStale, Frames!RunKeepsSource

\* The parts of the invariant after a step from one good cache to another.
LEMMA StepParts ==
  ASSUME FrameInv, UNCHANGED Frames!worldVars, NEW d, CacheOK(d), Grown(Frames!Cache, d), Frames!Becomes(d)
  PROVE  /\ WorldInv' /\ CacheOK(Frames!Cache)' /\ (core => core') /\ core' = d.core /\ core \in BOOLEAN
         /\ tables' = d.tables /\ replaced_kernel_entries' = d.replaced
         /\ pending_kernel_module_misses' = d.pending
         /\ projected' = projected => ProjectedInv'
<1>1. WorldInv /\ CacheOK(Frames!Cache) /\ ProjectedInv
  BY DEF FrameInv
<1>2. /\ tables' = d.tables /\ core' = d.core
      /\ replaced_kernel_entries' = d.replaced /\ pending_kernel_module_misses' = d.pending
      /\ CacheOK(Frames!Cache)'
      /\ \A m \in Frames!Modes : tables[m] \in Tables /\ d.tables[m] \in Tables /\ TableOK(d.tables[m])
      /\ core \in BOOLEAN /\ d.core \in BOOLEAN
  BY <1>1, BecomesIs
<1>3. WorldInv'
  BY <1>1, WorldSame
<1>4. (core => core') /\ \A m \in Frames!Modes : Keeps(tables[m], tables'[m])
  BY <1>2, CacheIs DEF Grown
<1>5. projected' = projected => ProjectedInv'
  BY <1>1, <1>2, <1>4, ProjectedKept
<1> QED
  BY <1>2, <1>3, <1>4, <1>5

\* A sample begins: nothing of the last one remains.
LEMMA BeginSampleKeeps ==
  ASSUME FrameInv, Frames!BeginSample
  PROVE  FrameInv'
<1>1. PICK loads \in BOOLEAN, keep \in BOOLEAN :
        /\ Frames!Becomes([Frames!Finished(Frames!Cache) EXCEPT !.core = @ \/ loads])
        /\ kernel_cursor_hint' = Nothing
        /\ retained_sample_ip' = IF loads /\ keep /\ ~core THEN MainKey ELSE Nothing
        /\ began' = core /\ run' = Nothing /\ served' = Nothing /\ text' = FALSE
        /\ UNCHANGED <<Frames!worldVars, projected>>
  BY DEF Frames!BeginSample
<1> DEFINE c == Frames!Finished(Frames!Cache)
           d == [c EXCEPT !.core = @ \/ loads]
<1>2. WorldInv /\ CacheOK(Frames!Cache)
  BY DEF FrameInv
<1>3. /\ CacheOK(c) /\ Grown(Frames!Cache, c) /\ c.core = core /\ c.replaced = {}
      /\ core => c.pending = {}
  BY <1>2, CacheIs, FinishedOK
<1>4. d = [c EXCEPT !.core = @ \/ loads] /\ Frames!Becomes(d) /\ UNCHANGED Frames!worldVars /\ projected' = projected
  BY <1>1
<1> HIDE DEF c, d
<1>5. /\ CacheOK(d) /\ Grown(c, d) /\ d.core = (c.core \/ loads)
      /\ d.replaced = {} /\ d.pending = c.pending
  BY <1>2, <1>3, <1>4, LoadedOK
<1>6. Grown(Frames!Cache, d)
  BY <1>2, <1>3, <1>5, GrownTwice
<1>7. /\ WorldInv' /\ CacheOK(Frames!Cache)' /\ (core => core') /\ core' = d.core /\ core \in BOOLEAN
      /\ replaced_kernel_entries' = {} /\ pending_kernel_module_misses' = c.pending
      /\ ProjectedInv'
  BY <1>4, <1>5, <1>6, StepParts
<1>8. CursorInv'
  BY <1>1, <1>3, <1>5, <1>7 DEF CursorInv, Option
<1>9. SampleInv'
  BY <1>1, <1>3, <1>5, <1>7 DEF SampleInv, Option
<1>10. ServedInv'
  BY <1>1, NotServed
<1> QED
  BY <1>7, <1>8, <1>9, <1>10 DEF FrameInv

\* Between text there is no cursor in a replaced map.
LEMMA NoCursor ==
  ASSUME FrameInv
  PROVE  /\ ~text \/ retained_sample_ip # Nothing => kernel_cursor_hint = Nothing
         /\ kernel_cursor_hint = Nothing => run = Nothing /\ Frames!Cache.replaced = {}
         /\ retained_sample_ip # Nothing => core
         /\ began => core /\ Frames!Cache.replaced = {} /\ Frames!Cache.pending = {} /\ kernel_cursor_hint = Nothing
         /\ WorldInv /\ CacheOK(Frames!Cache) /\ ProjectedInv /\ Frames!Cache.core = core /\ Frames!Cache.tables = tables
BY CacheIs DEF FrameInv, CursorInv, SampleInv

\* A fold that fails moves hints.
LEMMA FoldFailsKeeps ==
  ASSUME FrameInv, Frames!FoldFails
  PROVE  FrameInv'
<1>1. PICK m \in Frames!Modes, k \in Keys :
        /\ ~text /\ Frames!Becomes(Frames!Touched(Frames!Cache, m, k)) /\ served' = Nothing
        /\ UNCHANGED <<Frames!cursorVars, Frames!worldVars, text, began, run, projected>>
  BY DEF Frames!FoldFails, Keys
<1> DEFINE d == Frames!Touched(Frames!Cache, m, k)
<1>2. CacheOK(d) /\ Like(Frames!Cache, d) /\ Grown(Frames!Cache, d)
  BY NoCursor, TouchedOK
<1>3. Frames!Becomes(d) /\ UNCHANGED Frames!worldVars /\ projected' = projected
  BY <1>1
<1> HIDE DEF d
<1>4. d.replaced = Frames!Cache.replaced /\ d.pending = Frames!Cache.pending
  BY <1>2 DEF Like
<1>5. /\ WorldInv' /\ CacheOK(Frames!Cache)' /\ (core => core') /\ core \in BOOLEAN
      /\ replaced_kernel_entries' = d.replaced
      /\ pending_kernel_module_misses' = d.pending /\ ProjectedInv'
  BY <1>2, <1>3, StepParts
<1>6. /\ kernel_cursor_hint' = Nothing /\ kernel_cursor_hint = Nothing
      /\ retained_sample_ip' = retained_sample_ip
      /\ text' = text /\ began' = began /\ run' = run /\ run = Nothing /\ Frames!Cache.replaced = {}
  BY <1>1, NoCursor DEF Frames!cursorVars
<1>7. CursorInv'
  BY <1>4, <1>5, <1>6 DEF FrameInv, CursorInv, Option
<1>8. SampleInv'
  BY <1>4, <1>5, <1>6, NoCursor DEF FrameInv, SampleInv, Option
<1>9. ServedInv'
  BY <1>1, NotServed
<1> QED
  BY <1>5, <1>7, <1>8, <1>9 DEF FrameInv

\* The event's own address is of the core, which is loaded.
LEMMA ScriptRetainedKeeps ==
  ASSUME FrameInv, Frames!ScriptRetained
  PROVE  FrameInv'
<1>1. PICK m \in Frames!Modes :
        /\ retained_sample_ip # Nothing
        /\ Frames!Serve(m, retained_sample_ip, Frames!CoreFrames(retained_sample_ip, m))
        /\ text' = TRUE
        /\ Frames!Becomes(IF kernel_cursor_hint = Nothing THEN Frames!Finished(Frames!Cache) ELSE Frames!Cache)
        /\ UNCHANGED <<Frames!cursorVars, Frames!worldVars, began, run, projected>>
  BY DEF Frames!ScriptRetained
<1>2. /\ kernel_cursor_hint = Nothing /\ core /\ retained_sample_ip = MainKey
      /\ run = Nothing /\ run' = Nothing /\ began' = began /\ kernel_cursor_hint' = Nothing
      /\ retained_sample_ip' = retained_sample_ip
  BY <1>1, NoCursor DEF FrameInv, CursorInv, Option, Frames!cursorVars
<1> DEFINE d == Frames!Finished(Frames!Cache)
<1>3. /\ CacheOK(d) /\ Grown(Frames!Cache, d) /\ d.replaced = {} /\ d.pending = {}
  BY <1>2, NoCursor, FinishedOK
<1>4. Frames!Becomes(d) /\ UNCHANGED Frames!worldVars /\ projected' = projected
  BY <1>1, <1>2
<1> HIDE DEF d
<1>5. /\ WorldInv' /\ CacheOK(Frames!Cache)' /\ core' 
      /\ replaced_kernel_entries' = {} /\ pending_kernel_module_misses' = {} /\ ProjectedInv'
  BY <1>2, <1>3, <1>4, StepParts
<1>6. CursorInv'
  BY <1>2, <1>5 DEF CursorInv, Option
<1>7. SampleInv'
  BY <1>1, <1>2, <1>5 DEF FrameInv, SampleInv, Option
<1>8. ServedInv'
  <2>1. MainKey \in Keys /\ ~Frames!IsUser(MainKey)
    BY NoCursor, KeysApart DEF Keys, Frames!IsUser
  <2>2. Frames!Serve(m, MainKey, Frames!CoreFrames(MainKey, m))
    BY <1>1, <1>2
  <2>3. Frames!KernelAnswer(MainKey, m)'.frames = Frames!CoreFrames(MainKey, m)
    BY <1>4, <1>5, CoreAnswers DEF Final
  <2> QED
    BY <1>2, <1>4, <2>1, <2>2, <2>3, ServedOK
<1> QED
  BY <1>5, <1>6, <1>7, <1>8 DEF FrameInv

\* A stack that is folded: no map is replaced under it.
LEMMA FoldStackKeeps ==
  ASSUME FrameInv, Frames!FoldStack
  PROVE  FrameInv'
<1>1. PICK m \in Frames!Modes, keys \in Frames!BoundedSeq(Keys, Frames!MaxBatch) :
        /\ ~text /\ keys # <<>>
        /\ core \/ \A i \in DOMAIN keys :
             Frames!IsUser(keys[i]) \/ \A j \in 1 .. i : Frames!IsCached(Frames!Cache, m, keys[j])
        /\ Frames!Becomes(Frames!Touched(Frames!Prefetched(Frames!Cache, m, keys), m, keys[Len(keys)]))
        /\ Frames!Serve(m, keys[Len(keys)], Frames!Lookup(Frames!Prefetched(Frames!Cache, m, keys), m, keys[Len(keys)]).frames)
        /\ Frames!Project(m, Frames!Lookup(Frames!Prefetched(Frames!Cache, m, keys), m, keys[Len(keys)]))
        /\ UNCHANGED <<Frames!cursorVars, Frames!worldVars, text, began, run>>
  BY DEF Frames!FoldStack, Keys
<1>2. keys \in Seq(Keys) /\ Len(keys) \in Nat /\ Len(keys) \in 1 .. Len(keys) /\ DOMAIN keys = 1 .. Len(keys)
  <2>1. keys \in Seq(Keys)
    BY DEF Frames!BoundedSeq, Frames!SeqOf
  <2>2. Len(keys) \in Nat /\ Len(keys) # 0
    BY <1>1, <2>1
  <2> QED
    BY <2>1, <2>2
<1> DEFINE leaf == keys[Len(keys)]
           c == Frames!Prefetched(Frames!Cache, m, keys)
           d == Frames!Touched(c, m, leaf)
           e == Frames!Lookup(c, m, leaf)
<1>3. leaf \in Keys /\ c = Frames!Prefetched(Frames!Cache, m, keys) /\ d = Frames!Touched(c, m, leaf) /\ e = Frames!Lookup(c, m, leaf)
  BY <1>2
<1>4. /\ Frames!Becomes(d) /\ Frames!Serve(m, leaf, e.frames) /\ Frames!Project(m, e) /\ UNCHANGED Frames!worldVars
      /\ kernel_cursor_hint' = kernel_cursor_hint /\ retained_sample_ip' = retained_sample_ip
      /\ text' = text /\ began' = began /\ run' = run
  BY <1>1 DEF Frames!cursorVars
<1>5. /\ kernel_cursor_hint = Nothing /\ run = Nothing /\ Frames!Cache.replaced = {}
      /\ WorldInv /\ CacheOK(Frames!Cache) /\ Frames!Cache.core = core /\ core \in BOOLEAN /\ ProjectedInv
  BY <1>1, NoCursor DEF CacheOK, Caches
<1> HIDE DEF c, d, e, leaf
<1>7. /\ CacheOK(c) /\ Grown(Frames!Cache, c)
      /\ \A j \in 1 .. Len(keys) : Held(c.tables[m], keys[j])
      /\ core => c.replaced = Frames!Cache.replaced /\ c.pending = Frames!Cache.pending
      /\ \A x \in c.replaced :
           x \in Frames!Cache.replaced \/ (x.mode = m /\ \E j \in 1 .. Len(keys) : x.key = keys[j])
  <2>1. keys \in Seq(Keys) /\ WorldInv /\ core \in BOOLEAN /\ CacheOK(Frames!Cache)
        /\ (core => Frames!Cache.core) /\ c = Frames!Prefetched(Frames!Cache, m, keys)
    BY <1>2, <1>3, <1>5
  <2>2. CacheOK(c) /\ Grown(Frames!Cache, c)
    BY <2>1, PrefetchedOK
  <2>3. /\ \A j \in 1 .. Len(keys) : Held(c.tables[m], keys[j])
        /\ core => c.replaced = Frames!Cache.replaced /\ c.pending = Frames!Cache.pending
    BY <2>1, PrefetchedOK
  <2>4. \A x \in c.replaced :
          x \in Frames!Cache.replaced \/ (x.mode = m /\ \E j \in 1 .. Len(keys) : x.key = keys[j])
    BY <2>1, PrefetchedOK
  <2> QED
    BY <2>2, <2>3, <2>4
<1>8. CacheOK(d) /\ Like(c, d) /\ Grown(c, d)
  BY <1>3, <1>5, <1>7, TouchedOK
<1>9. d.replaced = c.replaced /\ d.pending = c.pending
  BY <1>8 DEF Like
<1>10. c.replaced = {}
  <2>1. CASE core
    BY <1>5, <1>7, <2>1
  <2>2. ASSUME ~core, NEW x \in c.replaced PROVE FALSE
    <3>1. PICK j \in 1 .. Len(keys) : x.key = keys[j]
      BY <1>5, <1>7, <2>2
    <3>2. ReplacedMap(keys[j].map) /\ keys[j] \in Frames!ModuleKeys
      BY <1>7, <2>2, <3>1 DEF CacheOK, NotesTrue, Caches
    <3>3. keys[j] \in Frames!KernelKeys /\ keys[j] \in Keys /\ ~Frames!IsUser(keys[j]) /\ Frames!IsModule(keys[j])
      BY <1>5, <3>2, KeysApart DEF Keys, Frames!IsUser, Frames!IsModule
    <3>4. Frames!IsCached(Frames!Cache, m, keys[j])
      BY <1>1, <1>2, <2>2, <3>3
    <3>5. Held(Frames!Cache.tables[m], keys[j])
      BY <1>5, <3>3, <3>4, TouchedOK
    <3>6. loading[keys[j].map] \in {"object", "miss"}
      BY <1>5, <2>2, <3>3, <3>5 DEF CacheOK, KernelTrue
    <3> QED
      BY <3>2, <3>6 DEF ReplacedMap
  <2> QED
    BY <1>5, <2>1, <2>2
<1>11. Grown(Frames!Cache, d)
  BY <1>5, <1>7, <1>8, GrownTwice
<1>12. /\ WorldInv' /\ CacheOK(Frames!Cache)' /\ (core => core') /\ tables' = d.tables
       /\ replaced_kernel_entries' = {} /\ pending_kernel_module_misses' = c.pending
  BY <1>4, <1>8, <1>9, <1>10, <1>11, StepParts
<1>13. CursorInv'
  BY <1>4, <1>5, <1>12 DEF FrameInv, CursorInv, Option
<1>14. SampleInv'
  BY <1>4, <1>5, <1>7, <1>12, NoCursor DEF FrameInv, SampleInv, Option
<1>15. /\ e.frames = Value(c.tables[m], leaf) /\ e.revision \in Nat
       /\ e.revision # 0 => \E i \in 1 .. Len(c.tables[m].frames) : e = c.tables[m].frames[i]
       /\ Held(c.tables[m], leaf)
  <2>1. Held(c.tables[m], leaf)
    BY <1>2, <1>7 DEF leaf
  <2> QED
    BY <1>3, <1>5, <1>7, <2>1, LookupIs
<1>16. ServedInv'
  <2>1. Frames!IsUser(leaf) => e.frames = Frames!UserAnswer(leaf, m).frames
    BY <1>7, <1>15 DEF CacheOK, UserTrue, Frames!IsUser
  <2>2. ASSUME ~Frames!IsUser(leaf), began'
        PROVE  e.frames = Frames!KernelAnswer(leaf, m)'.frames
    <3>1. core /\ c.pending = {} /\ core'
      BY <1>4, <1>7, <1>12, <2>2, NoCursor
    <3>2. Frames!Retired(c) = {}
      BY <1>10, <3>1 DEF Frames!Retired
    <3>3. leaf \in Frames!KernelKeys
      BY <1>3, <2>2 DEF Keys, Frames!IsUser
    <3>4. Value(c.tables[m], leaf) = Final(leaf, m)
      BY <1>7, <1>15, <3>2, <3>3 DEF CacheOK, KernelTrue
    <3> QED
      BY <1>4, <1>15, <3>1, <3>4, CoreAnswers
  <2> QED
    BY <1>3, <1>4, <1>5, <2>1, <2>2, ServedOK
<1>17. ProjectedInv'
  <2>1. \A n \in Frames!Modes : tables[n] \in Tables /\ tables'[n] \in Tables /\ Keeps(tables[n], tables'[n])
    BY <1>5, <1>8, <1>11, <1>12, CacheIs DEF CacheOK, TableOK, Grown
  <2>2. Revisions(tables'[m])
    BY <1>8, <1>12 DEF CacheOK, TableOK
  <2>3. tables'[m].frames = c.tables[m].frames
    BY <1>8, <1>12 DEF Like, Same
  <2>4. e.revision # 0 => \E i \in 1 .. Len(tables'[m].frames) : e = tables'[m].frames[i]
    BY <1>15, <2>3
  <2> QED
    BY <1>4, <1>5, <1>15, <2>1, <2>2, <2>4, ProjectOK
<1> QED
  BY <1>12, <1>13, <1>14, <1>16, <1>17 DEF FrameInv

\* The same under the cursor there is.
LEMMA ContinuedHere ==
  ASSUME WorldInv, CacheOK(Frames!Cache), Frames!Cache.core, NEW m \in Frames!Modes, NEW k \in Keys,
         Frames!SameMap(k), ~Frames!IsCached(Frames!Cache, m, k),
         kernel_cursor_hint \in [map : Frames!Maps, object : BOOLEAN], ReplacedMap(kernel_cursor_hint.map),
         kernel_cursor_hint.object = (loading[kernel_cursor_hint.map] = "objectReplaced")
  PROVE  LET b == Frames!Continued(Frames!Cache, m, k)
         IN /\ CacheOK(b) /\ Grown(Frames!Cache, b)
            /\ b.replaced = Frames!Cache.replaced \cup {[mode |-> m, key |-> k, object |-> kernel_cursor_hint.object]}
            /\ \A p \in Frames!Modes, l \in Keys : Held(b.tables[p], l) => Held(Frames!Cache.tables[p], l) \/ (p = m /\ l = k)
<1> DEFINE c == Frames!Cache
           b == Frames!Continued(c, m, k)
<1>1. CacheOK(c) /\ c.core /\ ~Frames!IsCached(c, m, k) /\ b = Frames!Continued(c, m, k)
  OBVIOUS
<1> HIDE DEF c, b
<1>2. CacheOK(b) /\ Grown(c, b)
  <2>1. CacheOK(b)
    BY <1>1, ContinuedOK
  <2>2. Grown(c, b)
    BY <1>1, ContinuedOK
  <2> QED
    BY <2>1, <2>2
<1>3. b.replaced = c.replaced \cup {[mode |-> m, key |-> k, object |-> kernel_cursor_hint.object]}
  BY <1>1, ContinuedOK
<1>4. \A p \in Frames!Modes, l \in Keys : Held(b.tables[p], l) => Held(c.tables[p], l) \/ (p = m /\ l = k)
  BY <1>1, ContinuedOK
<1> QED
  BY <1>2, <1>3, <1>4 DEF b, c

\* The cache the node is looked up in.
LEMMA BeforeOK ==
  ASSUME FrameInv, NEW m \in Frames!Modes, NEW k \in Keys
  PROVE  LET b == Frames!Before(m, k)
         IN /\ CacheOK(b) /\ Grown(Frames!Cache, b) /\ (core => b.core)
            /\ kernel_cursor_hint = Nothing => b = Frames!Cache
            /\ kernel_cursor_hint # Nothing /\ ~Frames!SameMap(k) => core /\ b.replaced = {}
            /\ Frames!SameMap(k) =>
                 /\ core /\ k \in Frames!ModuleKeys /\ k.map = kernel_cursor_hint.map /\ ReplacedMap(k.map)
                 /\ [mode |-> m, key |-> k, object |-> kernel_cursor_hint.object] \in b.replaced
                 /\ \A p \in Frames!Modes, l \in Frames!ModuleKeys :
                      l.map = kernel_cursor_hint.map /\ Held(b.tables[p], l) =>
                        [mode |-> p, key |-> l, object |-> kernel_cursor_hint.object] \in b.replaced
<1> DEFINE b == Frames!Before(m, k)
<1>a. b = Frames!Before(m, k)
  OBVIOUS
<1>b. SUFFICES /\ CacheOK(b) /\ Grown(Frames!Cache, b) /\ (core => b.core)
               /\ kernel_cursor_hint = Nothing => b = Frames!Cache
               /\ kernel_cursor_hint # Nothing /\ ~Frames!SameMap(k) => core /\ b.replaced = {}
               /\ Frames!SameMap(k) =>
                    /\ core /\ k \in Frames!ModuleKeys /\ k.map = kernel_cursor_hint.map /\ ReplacedMap(k.map)
                    /\ [mode |-> m, key |-> k, object |-> kernel_cursor_hint.object] \in b.replaced
                    /\ \A p \in Frames!Modes, l \in Frames!ModuleKeys :
                         l.map = kernel_cursor_hint.map /\ Held(b.tables[p], l) =>
                           [mode |-> p, key |-> l, object |-> kernel_cursor_hint.object] \in b.replaced
  BY DEF b
<1> HIDE DEF b
<1>1. WorldInv /\ CacheOK(Frames!Cache) /\ Frames!Cache.core = core /\ Frames!Cache.tables = tables
  BY NoCursor
<1>2. Frames!Cache.replaced = replaced_kernel_entries
  BY CacheIs
<1>3. Grown(Frames!Cache, Frames!Cache)
  BY <1>1, SameKeeps DEF Grown, CacheOK, TableOK, Same
<1>4. CASE kernel_cursor_hint = Nothing
  <2>1. ~Frames!SameMap(k)
    BY <1>4 DEF Frames!SameMap
  <2>2. b = Frames!Cache
    BY <1>a, <1>4, <2>1 DEF Frames!Before, Frames!Continued
  <2> QED
    BY <1>1, <1>3, <1>4, <2>1, <2>2
<1>5. CASE kernel_cursor_hint # Nothing /\ ~Frames!SameMap(k)
  <2>1. b = Frames!Finished(Frames!Cache) /\ core
    BY <1>a, <1>5 DEF Frames!Before, FrameInv, CursorInv
  <2>2. CacheOK(b) /\ Grown(Frames!Cache, b) /\ b.core = core /\ b.replaced = {}
    BY <1>1, <2>1, FinishedOK
  <2> QED
    BY <1>5, <2>1, <2>2
<1>6. CASE Frames!SameMap(k)
  <2>1. /\ kernel_cursor_hint # Nothing /\ Frames!IsModule(k) /\ k \in Frames!ModuleKeys
        /\ kernel_cursor_hint.map = k.map
    BY <1>6 DEF Frames!SameMap, Frames!IsModule
  <2>2. /\ kernel_cursor_hint \in [map : Frames!Maps, object : BOOLEAN] /\ core
        /\ ReplacedMap(kernel_cursor_hint.map)
        /\ kernel_cursor_hint.object = (loading[kernel_cursor_hint.map] = "objectReplaced")
        /\ \A p \in Frames!Modes, l \in Frames!ModuleKeys :
             l.map = kernel_cursor_hint.map /\ Held(tables[p], l) =>
               [mode |-> p, key |-> l, object |-> kernel_cursor_hint.object] \in Frames!Cache.replaced
    BY <1>2, <2>1 DEF FrameInv, CursorInv
  <2>3. b = Frames!Continued(Frames!Cache, m, k)
    BY <1>a, <1>6 DEF Frames!Before
  <2>4. CASE Frames!IsCached(Frames!Cache, m, k)
    <3>1. b = Frames!Cache /\ Held(tables[m], k)
      BY <1>1, <2>3, <2>4, TouchedOK DEF Frames!Continued
    <3> QED
      BY <1>1, <1>3, <1>6, <2>1, <2>2, <3>1
  <2>5. CASE ~Frames!IsCached(Frames!Cache, m, k)
    <3>1. /\ CacheOK(b) /\ Grown(Frames!Cache, b)
          /\ b.replaced = Frames!Cache.replaced \cup {[mode |-> m, key |-> k, object |-> kernel_cursor_hint.object]}
          /\ \A p \in Frames!Modes, l \in Keys : Held(b.tables[p], l) => Held(Frames!Cache.tables[p], l) \/ (p = m /\ l = k)
      <4>1. /\ WorldInv /\ CacheOK(Frames!Cache) /\ Frames!Cache.core /\ Frames!SameMap(k) /\ ~Frames!IsCached(Frames!Cache, m, k)
            /\ kernel_cursor_hint \in [map : Frames!Maps, object : BOOLEAN] /\ ReplacedMap(kernel_cursor_hint.map)
            /\ kernel_cursor_hint.object = (loading[kernel_cursor_hint.map] = "objectReplaced")
        BY <1>1, <1>6, <2>2, <2>5
      <4>2. CacheOK(b) /\ Grown(Frames!Cache, b)
        BY <2>3, <4>1, ContinuedHere
      <4>3. b.replaced = Frames!Cache.replaced \cup {[mode |-> m, key |-> k, object |-> kernel_cursor_hint.object]}
        BY <2>3, <4>1, ContinuedHere
      <4>4. \A p \in Frames!Modes, l \in Keys : Held(b.tables[p], l) => Held(Frames!Cache.tables[p], l) \/ (p = m /\ l = k)
        BY <2>3, <4>1, ContinuedHere
      <4> QED
        BY <4>2, <4>3, <4>4
    <3>2. \A l \in Frames!ModuleKeys : l \in Keys
      BY DEF Keys, Frames!KernelKeys
    <3>3. \A p \in Frames!Modes, l \in Frames!ModuleKeys :
             l.map = kernel_cursor_hint.map /\ Held(b.tables[p], l) =>
               [mode |-> p, key |-> l, object |-> kernel_cursor_hint.object] \in b.replaced
      BY <1>1, <2>2, <3>1, <3>2
    <3>4. b.core
      BY <1>1, <2>2, <3>1 DEF Grown
    <3> QED
      BY <1>1, <1>6, <2>1, <2>2, <3>1, <3>3, <3>4
  <2> QED
    BY <2>4, <2>5
<1> QED
  BY <1>4, <1>5, <1>6

\* A batch of one key.
LEMMA OnePrefetched ==
  ASSUME WorldInv, core \in BOOLEAN, NEW c, CacheOK(c), core => c.core,
         NEW m \in Frames!Modes, NEW k \in Keys
  PROVE  LET d == Frames!Prefetched(c, m, <<k>>)
         IN /\ CacheOK(d) /\ Grown(c, d) /\ Held(d.tables[m], k)
            /\ core => d.replaced = c.replaced /\ d.pending = c.pending
            /\ \A p \in Frames!Modes, l \in Keys :
                 Held(d.tables[p], l) => Held(c.tables[p], l) \/ (Frames!IsUser(l) /\ l.source \in unavailable)
                                            \/ (p = m /\ l = k)
<1> DEFINE keys == <<k>>
           d == Frames!Prefetched(c, m, keys)
<1>1. Len(keys) = 1 /\ keys[1] = k /\ keys \in Seq(Keys)
  OBVIOUS
<1>2. d = Frames!Prefetched(c, m, keys)
  OBVIOUS
<1> HIDE DEF keys, d
<1>3. 1 \in 1 .. Len(keys) /\ \A j \in 1 .. Len(keys) : keys[j] = k
  BY <1>1
<1>4. /\ CacheOK(d) /\ Grown(c, d)
      /\ \A j \in 1 .. Len(keys) : Held(d.tables[m], keys[j])
      /\ core => d.replaced = c.replaced /\ d.pending = c.pending
      /\ \A p \in Frames!Modes, l \in Keys :
           Held(d.tables[p], l) => Held(c.tables[p], l) \/ (Frames!IsUser(l) /\ l.source \in unavailable)
                                      \/ (p = m /\ \E j \in 1 .. Len(keys) : l = keys[j])
  BY <1>1, <1>2, PrefetchedOK
<1> QED
  BY <1>1, <1>3, <1>4 DEF d, keys

\* A new cursor: every key of its map in the cache was replaced with it.
LEMMA CursorOK ==
  ASSUME FrameInv, NEW m \in Frames!Modes, NEW k \in Keys,
         NEW e \in Frames!Prefetched(Frames!Before(m, k), m, <<k>>).replaced, e.mode = m, e.key = k
  PROVE  LET c == Frames!Prefetched(Frames!Before(m, k), m, <<k>>)
         IN /\ k \in Frames!ModuleKeys /\ ReplacedMap(k.map) /\ c.core /\ ~began
            /\ e.object \in BOOLEAN /\ e.object = (loading[k.map] = "objectReplaced")
            /\ Value(c.tables[m], k) = Old(k, m)
            /\ retained_sample_ip = Nothing
            /\ \A p \in Frames!Modes, l \in Frames!ModuleKeys :
                 l.map = k.map /\ Held(c.tables[p], l) =>
                   [mode |-> p, key |-> l, object |-> e.object] \in c.replaced
<1> DEFINE b == Frames!Before(m, k)
           c == Frames!Prefetched(b, m, <<k>>)
<1>a. b = Frames!Before(m, k) /\ c = Frames!Prefetched(b, m, <<k>>) /\ e \in c.replaced
  OBVIOUS
<1> HIDE DEF b, c
<1>1. WorldInv /\ CacheOK(Frames!Cache) /\ Frames!Cache.core = core /\ core \in BOOLEAN
  BY NoCursor DEF CacheOK, Caches
<1>2. /\ CacheOK(b) /\ (core => b.core)
      /\ kernel_cursor_hint = Nothing => b = Frames!Cache
      /\ kernel_cursor_hint # Nothing /\ ~Frames!SameMap(k) => core /\ b.replaced = {}
      /\ Frames!SameMap(k) =>
           /\ core /\ k.map = kernel_cursor_hint.map
           /\ \A p \in Frames!Modes, l \in Frames!ModuleKeys :
                l.map = kernel_cursor_hint.map /\ Held(b.tables[p], l) =>
                  [mode |-> p, key |-> l, object |-> kernel_cursor_hint.object] \in b.replaced
  BY <1>a, BeforeOK
<1>6. /\ CacheOK(c) /\ (core => c.replaced = b.replaced)
      /\ \A p \in Frames!Modes, l \in Keys :
           Held(c.tables[p], l) => Held(b.tables[p], l) \/ (Frames!IsUser(l) /\ l.source \in unavailable)
                                     \/ (p = m /\ l = k)
  <2>1. WorldInv /\ core \in BOOLEAN /\ CacheOK(b) /\ (core => b.core)
    BY <1>1, <1>2
  <2> QED
    BY <1>a, <2>1, OnePrefetched
<1>7. /\ e \in [mode : Frames!Modes, key : Frames!ModuleKeys, object : BOOLEAN] /\ c.core
      /\ ReplacedMap(e.key.map) /\ e.object = (loading[e.key.map] = "objectReplaced")
      /\ Value(c.tables[e.mode], e.key) = Old(e.key, e.mode)
  <2>1. NotesTrue(c) /\ c \in Caches
    BY <1>6 DEF CacheOK
  <2> QED
    BY <1>a, <2>1 DEF NotesTrue, Caches
<1>8. k \in Frames!ModuleKeys /\ e = [mode |-> m, key |-> k, object |-> e.object] /\ ReplacedMap(k.map)
  BY <1>7
<1>9. kernel_cursor_hint = Nothing => ~core
  BY <1>a, <1>2, <1>6, NoCursor
<1>10. ~(kernel_cursor_hint # Nothing /\ ~Frames!SameMap(k))
  BY <1>a, <1>2, <1>6
<1>11. ASSUME NEW p \in Frames!Modes, NEW l \in Frames!ModuleKeys, l.map = k.map, Held(c.tables[p], l)
       PROVE  [mode |-> p, key |-> l, object |-> e.object] \in c.replaced
  <2>1. l \in Frames!KernelKeys /\ l \in Keys /\ ~Frames!IsUser(l) /\ Frames!IsModule(l)
    BY <1>1, KeysApart DEF Keys, Frames!IsUser, Frames!IsModule
  <2>2. CASE p = m /\ l = k
    BY <1>a, <1>8, <2>2
  <2>3. CASE Held(b.tables[p], l)
    <3>1. CASE kernel_cursor_hint = Nothing
      <4>1. ~Frames!Cache.core /\ Held(Frames!Cache.tables[p], l)
        BY <1>1, <1>2, <1>9, <2>3, <3>1
      <4>2. loading[l.map] \in {"object", "miss"}
        BY <1>1, <2>1, <4>1 DEF CacheOK, KernelTrue
      <4> QED
        BY <1>8, <1>11, <4>2 DEF ReplacedMap
    <3>2. CASE Frames!SameMap(k)
      <4>1. [mode |-> p, key |-> l, object |-> kernel_cursor_hint.object] \in c.replaced
        BY <1>2, <1>6, <1>11, <2>3, <3>2
      <4>2. kernel_cursor_hint.object = (loading[k.map] = "objectReplaced")
        BY <1>2, <3>2 DEF Frames!SameMap, FrameInv, CursorInv
      <4> QED
        BY <1>7, <4>1, <4>2
    <3> QED
      BY <1>10, <3>1, <3>2
  <2> QED
    BY <1>6, <1>11, <2>1, <2>2, <2>3
<1>12. ~began /\ retained_sample_ip = Nothing
  BY <1>9, NoCursor
<1> QED
  BY <1>7, <1>8, <1>11, <1>12 DEF b, c

\* A node is printed: from the replaced map it is in, or from what the resolver says.
LEMMA ScriptFrameKeeps ==
  ASSUME FrameInv, Frames!ScriptFrame
  PROVE  FrameInv'
<1>1. PICK m \in Frames!Modes, k \in Keys :
        /\ retained_sample_ip # k /\ text' = TRUE
        /\ LET c == Frames!Prefetched(Frames!Before(m, k), m, <<k>>)
               old == {e \in c.replaced : e.mode = m /\ e.key = k}
               hint == IF old # {} THEN [map |-> k.map, object |-> \E e \in old : e.object]
                       ELSE IF Frames!SameMap(k) THEN kernel_cursor_hint ELSE Nothing
           IN /\ Frames!Becomes(IF hint = Nothing THEN Frames!Finished(Frames!Touched(c, m, k)) ELSE Frames!Touched(c, m, k))
              /\ Frames!Serve(m, k, Frames!Lookup(c, m, k).frames)
              /\ kernel_cursor_hint' = hint
              /\ run' = IF hint = Nothing THEN Nothing ELSE k.map
        /\ retained_sample_ip' = IF kernel_cursor_hint # Nothing /\ ~Frames!SameMap(k) THEN Nothing
                                 ELSE retained_sample_ip
        /\ UNCHANGED <<Frames!worldVars, began, projected>>
  BY DEF Frames!ScriptFrame, Keys
<1> DEFINE b == Frames!Before(m, k)
           c == Frames!Prefetched(b, m, <<k>>)
           old == {e \in c.replaced : e.mode = m /\ e.key = k}
           hint == IF old # {} THEN [map |-> k.map, object |-> \E e \in old : e.object]
                   ELSE IF Frames!SameMap(k) THEN kernel_cursor_hint ELSE Nothing
           t == Frames!Touched(c, m, k)
           f == Frames!Finished(t)
           frames == Frames!Lookup(c, m, k).frames
<1>2. /\ text' = TRUE /\ began' = began /\ UNCHANGED Frames!worldVars /\ projected' = projected
      /\ retained_sample_ip' = IF kernel_cursor_hint # Nothing /\ ~Frames!SameMap(k) THEN Nothing
                               ELSE retained_sample_ip
  BY <1>1
<1>3. /\ Frames!Becomes(IF hint = Nothing THEN f ELSE t) /\ Frames!Serve(m, k, frames)
      /\ kernel_cursor_hint' = hint /\ run' = IF hint = Nothing THEN Nothing ELSE k.map
  BY <1>1
<1>4. /\ WorldInv /\ CacheOK(Frames!Cache) /\ Frames!Cache.core = core /\ core \in BOOLEAN
      /\ retained_sample_ip # Nothing => core
      /\ began => core /\ Frames!Cache.pending = {} /\ Frames!Cache.replaced = {} /\ kernel_cursor_hint = Nothing
  BY NoCursor DEF CacheOK, Caches
<1>5. /\ CacheOK(b) /\ Grown(Frames!Cache, b) /\ (core => b.core)
      /\ kernel_cursor_hint = Nothing => b = Frames!Cache
      /\ Frames!SameMap(k) =>
           [mode |-> m, key |-> k, object |-> kernel_cursor_hint.object] \in b.replaced /\ core
  BY BeforeOK
<1>6. /\ \A e \in c.replaced : e.mode = m /\ e.key = k =>
           /\ k \in Frames!ModuleKeys /\ ReplacedMap(k.map) /\ c.core /\ ~began
           /\ e.object \in BOOLEAN /\ e.object = (loading[k.map] = "objectReplaced")
           /\ Value(c.tables[m], k) = Old(k, m)
           /\ retained_sample_ip = Nothing
           /\ \A p \in Frames!Modes, l \in Frames!ModuleKeys :
                l.map = k.map /\ Held(c.tables[p], l) =>
                  [mode |-> p, key |-> l, object |-> e.object] \in c.replaced
  BY CursorOK
<1>7. c = Frames!Prefetched(b, m, <<k>>) /\ t = Frames!Touched(c, m, k) /\ f = Frames!Finished(t) /\ frames = Frames!Lookup(c, m, k).frames
      /\ old = {e \in c.replaced : e.mode = m /\ e.key = k}
  OBVIOUS
<1>8. hint = IF old # {} THEN [map |-> k.map, object |-> \E e \in old : e.object]
             ELSE IF Frames!SameMap(k) THEN kernel_cursor_hint ELSE Nothing
  OBVIOUS
<1> HIDE DEF b, c, t, f, frames, old, hint
<1>9. /\ CacheOK(c) /\ Grown(b, c) /\ Held(c.tables[m], k)
      /\ core => c.replaced = b.replaced /\ c.pending = b.pending
  BY <1>4, <1>5, <1>7, OnePrefetched
<1>10. CacheOK(t) /\ Like(c, t) /\ Grown(c, t)
  BY <1>4, <1>7, <1>9, TouchedOK
<1>11. t.replaced = c.replaced /\ t.pending = c.pending /\ t.core = c.core
  BY <1>10 DEF Like
<1>12. /\ CacheOK(f) /\ Grown(t, f) /\ f.core = t.core /\ f.replaced = {}
       /\ t.core => f.pending = {}
  BY <1>4, <1>7, <1>10, FinishedOK
<1>13. Grown(Frames!Cache, t) /\ Grown(Frames!Cache, f)
  <2>1. Grown(Frames!Cache, c)
    BY <1>4, <1>5, <1>9, GrownTwice
  <2>2. Grown(Frames!Cache, t)
    BY <1>4, <1>9, <1>10, <2>1, GrownTwice
  <2>3. Grown(Frames!Cache, f)
    BY <1>4, <1>10, <1>12, <2>2, GrownTwice
  <2> QED
    BY <2>2, <2>3
<1>14. frames = Value(c.tables[m], k)
  BY <1>4, <1>7, <1>9, LookupIs
<1>15. Frames!IsUser(k) => frames = Frames!UserAnswer(k, m).frames
  BY <1>9, <1>14 DEF CacheOK, UserTrue, Frames!IsUser
<1>16. CASE hint = Nothing
  <2>1. Frames!Becomes(f) /\ kernel_cursor_hint' = Nothing /\ run' = Nothing
    BY <1>3, <1>16
  <2>2. /\ WorldInv' /\ CacheOK(Frames!Cache)' /\ (core => core') /\ core' = f.core
        /\ replaced_kernel_entries' = {} /\ pending_kernel_module_misses' = f.pending
        /\ ProjectedInv'
    BY <1>2, <1>12, <1>13, <2>1, StepParts
  <2>3. CursorInv'
    <3>1. retained_sample_ip' \in Option({MainKey})
      BY <1>2 DEF FrameInv, CursorInv, Option
    <3>2. retained_sample_ip' # Nothing => core'
      BY <1>2, <1>4, <2>2
    <3> QED
      BY <2>1, <2>2, <3>1, <3>2 DEF CursorInv
  <2>4. SampleInv'
    <3>1. began' => core' /\ f.pending = {}
      BY <1>2, <1>4, <1>12, <2>2
    <3> QED
      BY <1>2, <2>1, <2>2, <3>1 DEF FrameInv, SampleInv, Option
  <2>5. ServedInv'
    <3>1. ASSUME ~Frames!IsUser(k), began'
          PROVE  frames = Frames!KernelAnswer(k, m)'.frames
      <4>1. core' /\ c.replaced = {} /\ c.pending = {}
        BY <1>2, <1>4, <1>5, <1>9, <2>2, <3>1
      <4>2. Frames!Retired(c) = {}
        BY <4>1 DEF Frames!Retired
      <4>3. k \in Frames!KernelKeys
        BY <3>1 DEF Keys, Frames!IsUser
      <4>4. frames = Final(k, m)
        BY <1>9, <1>14, <4>2, <4>3 DEF CacheOK, KernelTrue
      <4> QED
        BY <1>2, <4>1, <4>4, CoreAnswers
    <3> QED
      BY <1>2, <1>3, <1>15, <2>1, <3>1, ServedOK
  <2> QED
    BY <2>2, <2>3, <2>4, <2>5 DEF FrameInv
<1>17. CASE hint # Nothing
  <2>1. Frames!Becomes(t) /\ kernel_cursor_hint' = hint /\ run' = k.map
    BY <1>3, <1>17
  <2>2. old # {}
    <3>1. CASE Frames!SameMap(k)
      <4>1. [mode |-> m, key |-> k, object |-> kernel_cursor_hint.object] \in c.replaced
        BY <1>5, <1>9, <3>1
      <4> QED
        BY <1>7, <4>1
    <3>2. CASE ~Frames!SameMap(k)
      BY <1>8, <1>17, <3>2
    <3> QED
      BY <3>1, <3>2
  <2>3. PICK e \in c.replaced : e.mode = m /\ e.key = k
    BY <1>7, <2>2
  <2>4. /\ k \in Frames!ModuleKeys /\ ReplacedMap(k.map) /\ c.core /\ ~began
        /\ Value(c.tables[m], k) = Old(k, m) /\ retained_sample_ip = Nothing
        /\ \A p \in Frames!Modes, l \in Frames!ModuleKeys :
             l.map = k.map /\ Held(c.tables[p], l) =>
               [mode |-> p, key |-> l, object |-> e.object] \in c.replaced
    BY <1>6, <2>3
  <2>5. e.object \in BOOLEAN /\ e.object = (loading[k.map] = "objectReplaced")
    BY <1>6, <2>3
  <2>6. \A x \in old : x.object \in BOOLEAN /\ x.object = (loading[k.map] = "objectReplaced")
    BY <1>6, <1>7
  <2>7. (\E x \in old : x.object) = e.object
    <3>1. e \in old
      BY <1>7, <2>3
    <3> QED
      BY <2>5, <2>6, <3>1
  <2>8. hint.map = k.map /\ hint.object = e.object /\ hint \in [map : Frames!Maps, object : BOOLEAN]
    <3>1. hint = [map |-> k.map, object |-> \E x \in old : x.object]
      BY <1>8, <2>2
    <3>2. k.map \in Frames!Maps
      BY <1>4, <2>4, KeysApart
    <3> HIDE DEF hint
    <3>3. hint = [map |-> k.map, object |-> e.object]
      BY <2>7, <3>1
    <3> QED
      BY <2>5, <3>2, <3>3
  <2>9. /\ WorldInv' /\ CacheOK(Frames!Cache)' /\ core' = t.core /\ tables' = t.tables
        /\ replaced_kernel_entries' = c.replaced /\ ProjectedInv'
    BY <1>2, <1>10, <1>11, <1>13, <2>1, StepParts
  <2>10. /\ Frames!Modes' = Frames!Modes /\ Frames!Maps' = Frames!Maps /\ Frames!ModuleKeys' = Frames!ModuleKeys /\ loading' = loading
         /\ \A u, l : Held(u, l)' <=> Held(u, l)
         /\ \A map : ReplacedMap(map)' <=> ReplacedMap(map)
    BY <1>2, WorldSame
  <2>11. retained_sample_ip' = Nothing
    BY <1>2, <2>4
  <2>12. \A p \in Frames!Modes, l \in Frames!ModuleKeys :
           l.map = k.map /\ Held(t.tables[p], l) =>
             [mode |-> p, key |-> l, object |-> hint.object] \in c.replaced
    <3>1. \A p \in Frames!Modes, l \in Frames!ModuleKeys : Held(t.tables[p], l) => Held(c.tables[p], l)
      BY <1>10, SamePlain DEF Like
    <3> QED
      BY <2>4, <2>8, <3>1
  <2>13. CursorInv'
    <3>1. /\ kernel_cursor_hint' \in [map : Frames!Maps', object : BOOLEAN] /\ core' /\ text'
          /\ ReplacedMap(kernel_cursor_hint.map)'
      BY <1>2, <1>11, <2>1, <2>4, <2>8, <2>9, <2>10
    <3>2. kernel_cursor_hint'.object = (loading'[kernel_cursor_hint'.map] = "objectReplaced")
      BY <2>1, <2>5, <2>8, <2>10
    <3>3. \A p \in Frames!Modes', l \in Frames!ModuleKeys' :
            l.map = kernel_cursor_hint'.map /\ Held(tables[p], l)' =>
              [mode |-> p, key |-> l, object |-> kernel_cursor_hint'.object] \in replaced_kernel_entries'
      BY <2>1, <2>8, <2>9, <2>10, <2>12
    <3>4. kernel_cursor_hint' # Nothing
      BY <1>17, <2>1
    <3> QED
      BY <2>11, <3>1, <3>2, <3>3, <3>4 DEF CursorInv, Option
  <2>14. SampleInv'
    BY <1>2, <1>17, <2>1, <2>4, <2>8, <2>10 DEF SampleInv, Option, FrameInv
  <2>15. ServedInv'
    <3>1. frames = IF loading[run'] = "objectReplaced" THEN Frames!ObjectFrames(k, m) ELSE Frames!Unresolved
      BY <1>14, <2>1, <2>4 DEF Old
    <3>2. ~began' /\ ReplacedMap(run')
      BY <1>2, <2>1, <2>4
    <3> QED
      BY <1>2, <1>3, <1>15, <3>1, <3>2, ServedOK
  <2> QED
    BY <2>9, <2>13, <2>14, <2>15 DEF FrameInv
<1> QED
  BY <1>16, <1>17

\* Nothing happens.
LEMMA StutterKeeps ==
  ASSUME FrameInv, UNCHANGED Frames!vars
  PROVE  FrameInv'
<1>1. /\ UNCHANGED Frames!worldVars /\ tables' = tables /\ core' = core
      /\ replaced_kernel_entries' = replaced_kernel_entries
      /\ pending_kernel_module_misses' = pending_kernel_module_misses
      /\ kernel_cursor_hint' = kernel_cursor_hint /\ retained_sample_ip' = retained_sample_ip
      /\ text' = text /\ served' = served /\ began' = began /\ run' = run /\ projected' = projected
  BY DEF Frames!vars, Frames!noteVars, Frames!cursorVars
<1>2. /\ Frames!Modes' = Frames!Modes /\ Frames!Maps' = Frames!Maps /\ Frames!ModuleKeys' = Frames!ModuleKeys /\ Keys' = Keys
      /\ loading' = loading /\ (WorldInv' <=> WorldInv)
      /\ \A k : Frames!IsUser(k)' <=> Frames!IsUser(k)
      /\ \A u, l : Held(u, l)' <=> Held(u, l)
      /\ \A map : ReplacedMap(map)' <=> ReplacedMap(map)
      /\ \A k, m : Frames!UserAnswer(k, m)' = Frames!UserAnswer(k, m)
      /\ \A c : CacheOK(c)' <=> CacheOK(c)
  BY <1>1, WorldSame
<1>3. Frames!Cache' = Frames!Cache
  BY <1>1 DEF Frames!Cache
<1>4. CacheOK(Frames!Cache)'
  BY <1>2, <1>3 DEF FrameInv
<1>5. CursorInv'
  BY <1>1, <1>2 DEF FrameInv, CursorInv
<1>6. SampleInv'
  BY <1>1, <1>2 DEF FrameInv, SampleInv
<1>7. ServedInv'
  <2>1. \A k, m : Frames!KernelAnswer(k, m)' = Frames!KernelAnswer(k, m)
    BY <1>1, <1>2 DEF Frames!KernelAnswer
  <2>2. Frames!UserServed'
    BY <1>1, <1>2 DEF FrameInv, ServedInv, Frames!UserServed
  <2>3. Frames!NothingStale'
    BY <1>1, <1>2, <2>1 DEF FrameInv, ServedInv, Frames!NothingStale
  <2>4. Frames!RunKeepsSource'
    BY <1>1, <1>2 DEF FrameInv, ServedInv, Frames!RunKeepsSource
  <2> QED
    BY <1>1, <1>2, <2>2, <2>3, <2>4 DEF FrameInv, ServedInv
<1>8. ProjectedInv'
  BY <1>1, <1>2 DEF FrameInv, ProjectedInv, Frames!IdentityKept
<1> QED
  BY <1>2, <1>4, <1>5, <1>6, <1>7, <1>8 DEF FrameInv

\* Every step keeps the invariant.
LEMMA NextKeeps ==
  ASSUME FrameInv, [Frames!Next]_(Frames!vars)
  PROVE  FrameInv'
BY BeginSampleKeeps, FoldStackKeeps, FoldFailsKeeps, ScriptRetainedKeeps, ScriptFrameKeeps,
   StutterKeeps DEF Frames!Next

\* A table with nothing in it.
LEMMA NewTableOK ==
  ASSUME WorldInv
  PROVE  TableOK(Frames!NewTable) /\ DOMAIN Frames!NewTable.by_source = {} /\ \A k \in Keys : ~Held(Frames!NewTable, k)
<1> DEFINE t == Frames!NewTable
<1>1. /\ DOMAIN t.by_source = {} /\ DOMAIN t.kernel = {} /\ Len(t.frames) = 0 /\ t.frames \in Seq(Entries)
      /\ t.last_source = Nothing /\ t.last_address = Nothing
      /\ t.by_source = <<>> /\ t.kernel = <<>> /\ t.last_revision = 0
  BY NoneIs DEF Frames!NewTable
<1>2. t \in Tables
  BY NoneIs DEF Frames!NewTable, Tables, Option
<1> HIDE DEF t
<1>3. \A k : Plain(t, k) = Nothing
  BY <1>1 DEF Plain, Frames!PlainSlot
<1>4. SlotsOwn(t)
  BY <1>1, <1>3 DEF SlotsOwn, Option
<1>5. Revisions(t)
  BY <1>1 DEF Revisions
<1>6. HintsTrue(t)
  BY <1>1 DEF HintsTrue
<1> QED
  BY <1>1, <1>2, <1>3, <1>4, <1>5, <1>6 DEF TableOK, Held, t

\* So it holds at the start,
LEMMA InitFrames ==
  ASSUME Frames!Init
  PROVE  FrameInv
<1>1. WorldInv
  BY DEF Frames!Init, WorldInv
<1>2. /\ tables = [m \in Frames!Modes |-> Frames!NewTable] /\ core = FALSE
      /\ replaced_kernel_entries = {} /\ pending_kernel_module_misses = {}
  BY DEF Frames!Init
<1> DEFINE t == Frames!NewTable
           c == Frames!Cache
<1>3. TableOK(t) /\ DOMAIN t.by_source = {} /\ \A k \in Keys : ~Held(t, k)
  BY <1>1, NewTableOK
<1>4. /\ c = [tables |-> [m \in Frames!Modes |-> t], replaced |-> {}, pending |-> {}, core |-> FALSE]
  BY <1>2 DEF Frames!Cache
<1> HIDE DEF t, c
<1>5. /\ c.core = FALSE /\ c.replaced = {} /\ \A m \in Frames!Modes : c.tables[m] = t
  BY <1>4
<1>6. c \in Caches
  BY <1>3, <1>4 DEF Caches, TableOK
<1>7. UserTrue(c)
  BY <1>3, <1>5 DEF UserTrue, Keys
<1>8. KernelTrue(c)
  BY <1>3, <1>5 DEF KernelTrue, Keys
<1>9. NotesTrue(c)
  BY <1>5 DEF NotesTrue
<1>10. CacheOK(Frames!Cache)
  BY <1>3, <1>5, <1>6, <1>7, <1>8, <1>9 DEF CacheOK, c
<1>11. CursorInv
  BY DEF Frames!Init, CursorInv, Option
<1>12. SampleInv
  BY DEF Frames!Init, SampleInv, Option
<1>13. ServedInv
  BY DEF Frames!Init, ServedInv, Frames!UserServed, Frames!NothingStale, Frames!RunKeepsSource
<1>14. ProjectedInv
  BY DEF Frames!Init, ProjectedInv
<1> QED
  BY <1>1, <1>10, <1>11, <1>12, <1>13, <1>14 DEF FrameInv

\* and says more than the property.
LEMMA FramesAre ==
  ASSUME FrameInv
  PROVE  Frames!FramesExact
<1>1. /\ WorldInv /\ CacheOK(Frames!Cache) /\ CursorInv /\ SampleInv /\ ServedInv /\ ProjectedInv
  BY DEF FrameInv
<1>2. \A m \in Frames!Modes : TableOK(tables[m]) /\ tables[m] \in Tables
  BY <1>1, CacheIs DEF CacheOK, TableOK
<1>3. Frames!HintsExact
  BY <1>1, <1>2, UserSlotOK DEF Frames!HintsExact
<1>4. Frames!TypeOK
  <2>1. ASSUME NEW m \in Frames!Modes
        PROVE  LET t == tables[m]
                   slots == 0 .. Len(t.frames)
               IN /\ \A s \in DOMAIN t.by_source : Frames!Range(t.by_source[s].by_address) \subseteq slots
                  /\ Frames!Range(t.kernel) \subseteq slots
                  /\ DOMAIN t.by_source \subseteq Frames!Sources /\ DOMAIN t.kernel \subseteq Frames!KernelKeys
                  /\ t.last_revision \in Nat
    <3> DEFINE t == tables[m]
               slots == 0 .. Len(t.frames)
    <3>1. TableOK(t) /\ t \in Tables
      BY <1>2
    <3> HIDE DEF t
    <3>2. /\ DOMAIN t.by_source \subseteq Frames!Sources /\ DOMAIN t.kernel \subseteq Frames!KernelKeys
          /\ t.last_revision \in Nat
          /\ \A s \in DOMAIN t.by_source :
               /\ DOMAIN t.by_source[s].by_address \subseteq Frames!Addresses
               /\ \A a \in DOMAIN t.by_source[s].by_address : t.by_source[s].by_address[a] \in Nat
          /\ \A k \in DOMAIN t.kernel : t.kernel[k] \in Nat
      BY <3>1, TableShape
    <3>3. /\ \A k \in Keys : Plain(t, k) \in Option(slots)
          /\ \A s \in DOMAIN t.by_source : t.by_source[s].unavailable => DOMAIN t.by_source[s].by_address = {}
      BY <3>1 DEF TableOK, SlotsOwn
    <3> HIDE DEF slots
    <3>4. Nothing \notin Nat
      BY <1>1, KeysApart
    <3>5. ASSUME NEW s \in DOMAIN t.by_source, NEW a \in DOMAIN t.by_source[s].by_address
          PROVE  t.by_source[s].by_address[a] \in slots
      <4> DEFINE k == [source |-> s, address |-> a]
      <4>1. k \in Frames!UserKeys /\ k.source = s /\ k.address = a
        BY <1>1, <3>2, <3>5, KeysApart
      <4> HIDE DEF k
      <4>2. Plain(t, k) = t.by_source[s].by_address[a] /\ k \in Keys
        BY <3>3, <3>5, <4>1 DEF Plain, Frames!PlainSlot, Frames!IsUser, Keys
      <4> QED
        BY <3>2, <3>3, <3>4, <3>5, <4>2 DEF Option
    <3>6. ASSUME NEW k \in DOMAIN t.kernel
          PROVE  t.kernel[k] \in slots
      <4>1. k \in Keys /\ ~Frames!IsUser(k)
        BY <1>1, <3>2, <3>6, KeysApart DEF Keys, Frames!IsUser
      <4>2. Plain(t, k) = t.kernel[k]
        BY <3>6, <4>1 DEF Plain
      <4> QED
        BY <3>2, <3>3, <3>4, <3>6, <4>1, <4>2 DEF Option
    <3>7. \A s \in DOMAIN t.by_source : Frames!Range(t.by_source[s].by_address) \subseteq slots
      BY <3>5 DEF Frames!Range
    <3>8. Frames!Range(t.kernel) \subseteq slots
      BY <3>6 DEF Frames!Range
    <3> QED
      BY <3>2, <3>7, <3>8 DEF t, slots
  <2>2. /\ \A e \in replaced_kernel_entries : e.mode \in Frames!Modes /\ e.key \in Frames!ModuleKeys
        /\ \A e \in pending_kernel_module_misses : e.mode \in Frames!Modes /\ e.key \in Frames!ModuleKeys
        /\ core \in BOOLEAN
    BY <1>1, CacheIs DEF CacheOK, Caches
  <2>3. /\ kernel_cursor_hint = Nothing \/ kernel_cursor_hint.map \in Frames!Maps
        /\ retained_sample_ip \in {Nothing, MainKey}
    BY <1>1 DEF CursorInv, Option
  <2>4. /\ {core, text} \subseteq BOOLEAN /\ began \in BOOLEAN /\ run \in Frames!Maps \cup {Nothing}
    BY <1>1, <2>2 DEF SampleInv, Option
  <2> QED
    BY <2>1, <2>2, <2>3, <2>4 DEF Frames!TypeOK
<1>5. Frames!UserServed /\ Frames!NothingStale /\ Frames!RunKeepsSource
  BY <1>1 DEF ServedInv
<1>6. Frames!IdentityKept
  BY <1>1 DEF ProjectedInv, Frames!IdentityKept
<1> QED
  BY <1>3, <1>4, <1>5, <1>6 DEF Frames!FramesExact

\* A frame is served as the resolver would give it: the hints change nothing, a
\* sample that begins when the core kernel is loaded gets nothing of the time
\* before, adjacent nodes in a map replaced under the cursor keep to it, and an
\* identity stands for one list of frames for good.
THEOREM FramesAreExact == Frames!Spec => []FramesExact
<1>1. Frames!Init => FrameInv
  BY InitFrames
<1>2. FrameInv /\ [Frames!Next]_(Frames!vars) => FrameInv'
  BY NextKeeps
<1>3. FrameInv => FramesExact
  BY FramesAre DEF FramesExact
<1> QED
  BY <1>1, <1>2, <1>3, PTL DEF Frames!Spec
=============================================================================
