-------------------------- MODULE SessionMapsProofs --------------------------
(***************************************************************************)
(* Threads and their map groups stay what the records said: for any ids,   *)
(* images and names, and a history of any length in which keys and ids are *)
(* used again.                                                             *)
(*                                                                         *)
(* Inside a record the counts are not exact: a fork holds a group for the  *)
(* child before the child exists, and a group whose last thread is gone is *)
(* listed as retired until it is purged.  So every operator is shown to    *)
(* keep a session Tidy, up to a set H of groups that are held once more    *)
(* than their threads say; between records H and `retired` are empty.      *)
(***************************************************************************)
EXTENDS SessionMaps, FiniteSetTheorems, FunctionTheorems, WellFoundedInduction,
        NaturalsInduction, TLAPS

-----------------------------------------------------------------------------
(* Partial functions, and the keys that are free.                            *)

\* A partial function is a function on some of the arguments.
LEMMA PartialFunctions ==
  ASSUME NEW S, NEW T, NEW f
  PROVE  f \in Partial(S, T) <=> DOMAIN f \subseteq S /\ f \in [DOMAIN f -> T]
  BY DEF Partial

\* It stays one when an argument is given a value, loses some, or changes its value.
LEMMA PutPartial ==
  ASSUME NEW S, NEW T, NEW f \in Partial(S, T), NEW x \in S, NEW v \in T
  PROVE  /\ Put(f, x, v) \in Partial(S, T)
         /\ DOMAIN Put(f, x, v) = DOMAIN f \cup {x}
         /\ Put(f, x, v)[x] = v
         /\ \A y \in DOMAIN f : y # x => Put(f, x, v)[y] = f[y]
<1>1. DOMAIN f \subseteq S /\ f \in [DOMAIN f -> T]
  BY PartialFunctions
<1>2. DOMAIN Put(f, x, v) \subseteq S /\ Put(f, x, v) \in [DOMAIN Put(f, x, v) -> T]
  BY <1>1 DEF Put
<1>3. Put(f, x, v) \in Partial(S, T)
  BY <1>2, PartialFunctions
<1> QED
  BY <1>3 DEF Put

LEMMA WithoutPartial ==
  ASSUME NEW S, NEW T, NEW f \in Partial(S, T), NEW D
  PROVE  /\ Without(f, D) \in Partial(S, T)
         /\ DOMAIN Without(f, D) = DOMAIN f \ D
         /\ \A y \in DOMAIN f \ D : Without(f, D)[y] = f[y]
<1>1. DOMAIN f \subseteq S /\ f \in [DOMAIN f -> T]
  BY PartialFunctions
<1>2. DOMAIN Without(f, D) \subseteq S /\ Without(f, D) \in [DOMAIN Without(f, D) -> T]
  BY <1>1 DEF Without, Restrict
<1>3. Without(f, D) \in Partial(S, T)
  BY <1>2, PartialFunctions
<1> QED
  BY <1>3 DEF Without, Restrict

LEMMA ExceptPartial ==
  ASSUME NEW S, NEW T, NEW f \in Partial(S, T), NEW x \in DOMAIN f, NEW v \in T
  PROVE  /\ [f EXCEPT ![x] = v] \in Partial(S, T)
         /\ DOMAIN [f EXCEPT ![x] = v] = DOMAIN f
         /\ [f EXCEPT ![x] = v][x] = v
         /\ \A y \in DOMAIN f : y # x => [f EXCEPT ![x] = v][y] = f[y]
<1>1. DOMAIN f \subseteq S /\ f \in [DOMAIN f -> T]
  BY PartialFunctions
<1>2. [f EXCEPT ![x] = v] \in Partial(S, T)
  BY <1>1, PartialFunctions
<1> QED
  BY <1>1, <1>2

\* A session is a record of its fields.
LEMMA Fields ==
  ASSUME NEW s
  PROVE  s \in Session <=>
           /\ s = [threads |-> s.threads, references |-> s.references, next_key |-> s.next_key,
                   retired |-> s.retired, maps |-> s.maps, unwind |-> s.unwind, comms |-> s.comms]
           /\ s.threads \in Partial(Tids, Thread) /\ s.references \in Partial(Keys, Nat)
           /\ s.next_key \in Buckets /\ s.retired \in SUBSET Keys
           /\ s.maps \in Partial(Buckets, Images)
           /\ s.unwind \in Partial(Keys, Images \cup {None})
           /\ s.comms \in Partial(Tids, Names)
  BY DEF Session

\* Only a field that is named is changed.
LEMMA Changed ==
  ASSUME NEW s \in Session, NEW v, NEW w
  PROVE  /\ [s EXCEPT !.threads = v].threads = v
         /\ [s EXCEPT !.references = v].references = v
         /\ [s EXCEPT !.maps = v].maps = v
         /\ [s EXCEPT !.unwind = v].unwind = v
         /\ [s EXCEPT !.comms = v].comms = v
  BY DEF Session

-----------------------------------------------------------------------------
(* What holds of a session, with the groups in H held by a FORK.             *)

Users(s, g) == {t \in DOMAIN s.threads : s.threads[t].maps = g}
GroupsOf(s) == {s.threads[t].maps : t \in DOMAIN s.threads}

\* A group is counted if it has threads or is held, each of them once.
Counted(s, H) ==
  /\ DOMAIN s.references = GroupsOf(s) \cup H
  /\ \A g \in DOMAIN s.references :
       s.references[g] = Cardinality(Users(s, g)) + IF g \in H THEN 1 ELSE 0

\* Mappings and unwinder state are those of groups that live or retire.
Owned(s) ==
  /\ s.retired \cap DOMAIN s.references = {}
  /\ DOMAIN s.maps \subseteq DOMAIN s.references \cup s.retired \cup {Unknown}
  /\ DOMAIN s.unwind \subseteq DOMAIN s.references \cup s.retired

Fresh(s) ==
  \A g \in DOMAIN s.unwind :
    s.unwind[g] # None => g \in DOMAIN s.maps /\ s.unwind[g] = s.maps[g]

Tidy(s, H) == s \in Session /\ Counted(s, H) /\ Owned(s) /\ Fresh(s)

\* There are few threads.
LEMMA FewThreads ==
  ASSUME IdsAssumption, NEW s \in Session
  PROVE  /\ IsFiniteSet(Tids) /\ DOMAIN s.threads \subseteq Tids /\ IsFiniteSet(DOMAIN s.threads)
         /\ \A g : IsFiniteSet(Users(s, g)) /\ Cardinality(Users(s, g)) \in Nat
         /\ \A t \in DOMAIN s.threads : s.threads[t] \in Thread
<1>1. IsFiniteSet(Ids \cup {Unknown})
  BY FS_AddElement DEF IdsAssumption
<1>2. IsFiniteSet(Tids)
  BY <1>1, FS_Subset DEF IdsAssumption
<1>3. s.threads \in Partial(Tids, Thread)
  BY Fields
<1>4. DOMAIN s.threads \subseteq Tids /\ s.threads \in [DOMAIN s.threads -> Thread]
  BY <1>3, PartialFunctions
<1>5. IsFiniteSet(DOMAIN s.threads)
  BY <1>2, <1>4, FS_Subset
<1>6. ASSUME NEW g PROVE IsFiniteSet(Users(s, g)) /\ Cardinality(Users(s, g)) \in Nat
  <2>1. Users(s, g) \in SUBSET DOMAIN s.threads
    BY DEF Users
  <2>2. IsFiniteSet(Users(s, g))
    BY <1>5, <2>1, FS_Subset
  <2> QED
    BY <2>2, FS_CardinalityType
<1> QED
  BY <1>2, <1>4, <1>5, <1>6

\* What Insert changes.
LEMMA InsertFields ==
  ASSUME NEW s \in Session, NEW tid \in Tids, NEW pid \in Pids, NEW g \in DOMAIN s.references
  PROVE  LET r == Insert(s, tid, pid, g) IN
         /\ r \in Session
         /\ r.threads = Put(s.threads, tid, [pid |-> pid, maps |-> g])
         /\ r.references = [s.references EXCEPT ![g] = @ + 1]
         /\ r.next_key = s.next_key /\ r.retired = s.retired /\ r.maps = s.maps
         /\ r.unwind = s.unwind /\ r.comms = s.comms
<1> DEFINE put == Put(s.threads, tid, [pid |-> pid, maps |-> g])
           more == [s.references EXCEPT ![g] = @ + 1]
           r == Insert(s, tid, pid, g)
<1>1. /\ s.threads \in Partial(Tids, Thread) /\ s.references \in Partial(Keys, Nat)
      /\ DOMAIN s.references \subseteq Keys /\ s.references[g] \in Nat
  BY Fields, PartialFunctions
<1>2. put \in Partial(Tids, Thread)
  <2>1. [pid |-> pid, maps |-> g] \in Thread
    BY <1>1 DEF Thread
  <2> QED
    BY <1>1, <2>1, PutPartial
<1>3. more \in Partial(Keys, Nat)
  <2>1. s.references[g] + 1 \in Nat
    BY <1>1
  <2> QED
    BY <1>1, <2>1, ExceptPartial
<1>4. /\ r.threads = put /\ r.references = more
      /\ r.next_key = s.next_key /\ r.retired = s.retired /\ r.maps = s.maps
      /\ r.unwind = s.unwind /\ r.comms = s.comms
      /\ r = [threads |-> put, references |-> more, next_key |-> s.next_key, retired |-> s.retired,
              maps |-> s.maps, unwind |-> s.unwind, comms |-> s.comms]
  <2> HIDE DEF put
  <2>1. r = [[s EXCEPT !.threads = put] EXCEPT !.references[g] = @ + 1]
    BY DEF Insert, Retain, put
  <2> QED
    BY <2>1 DEF Session
<1>5. r \in Session
  <2> HIDE DEF put, more, r
  <2> QED
    BY <1>2, <1>3, <1>4, Fields
<1> QED
  BY <1>4, <1>5

\* A nonempty set of numbers has a least one.
LEMMA Least ==
  ASSUME NEW S \in SUBSET Nat, S # {}
  PROVE  \E n \in S : \A m \in S : n <= m
<1>1. PICK n \in S : \A m \in S : ~ (<<m, n>> \in OpToRel(<, Nat))
  BY NatLessThanWellFounded, WFMin, Zenon
<1>2. \A m \in S : ~ (m < n)
  BY <1>1, Zenon DEF OpToRel
<1> QED
  BY <1>2

\* A remainder is less than its divisor.
LEMMA Remainder ==
  ASSUME NEW a \in Int, NEW n \in Nat
  PROVE  a % (n + 1) \in 0 .. n
  OBVIOUS

\* Counting on from any key, wrapping, reaches every key.
LEMMA WrapReaches ==
  ASSUME IdsAssumption, NEW a \in Buckets, NEW k \in Buckets
  PROVE  \E d \in Buckets : Wrap(a + d) = k
<1>1. Unknown \in Nat /\ a \in 0 .. Unknown /\ k \in 0 .. Unknown /\ Buckets = 0 .. Unknown
  BY DEF Buckets, Keys, IdsAssumption
<1>2. CASE k >= a
  <2>1. Wrap(a + (k - a)) = k
    BY <1>1, <1>2 DEF Wrap
  <2> QED
    BY <1>1, <1>2, <2>1
<1>3. CASE k < a
  <2> DEFINE d == k + Unknown + 1 - a
  <2>1. (k + (Unknown + 1)) % (Unknown + 1) = k
    BY <1>1
  <2>2. a + d = k + (Unknown + 1) /\ d \in 0 .. Unknown
    BY <1>1, <1>3
  <2>3. Wrap(a + d) = k
    BY <2>1, <2>2 DEF Wrap
  <2> QED
    BY <1>1, <2>2, <2>3
<1> QED
  BY <1>1, <1>2, <1>3

\* The search ends at a key nobody uses, if there is one.
LEMMA SearchFinds ==
  ASSUME IdsAssumption, NEW s, s.next_key \in Buckets,
         \E k \in Keys : k \notin DOMAIN s.references /\ k \notin s.retired
  PROVE  FreeKey(s) \in Keys /\ ~Taken(s, FreeKey(s))
<1> DEFINE key(d) == Wrap(s.next_key + d)
           Free == {d \in Buckets : ~Taken(s, key(d))}
<1>1. Unknown \in Nat /\ Buckets = 0 .. Unknown /\ Keys = 0 .. Unknown - 1
  BY DEF Buckets, Keys, IdsAssumption
<1>2. Free # {}
  <2>1. PICK k \in Keys : k \notin DOMAIN s.references /\ k \notin s.retired
    OBVIOUS
  <2>2. k \in Buckets /\ k # Unknown
    BY <1>1
  <2>3. PICK d \in Buckets : Wrap(s.next_key + d) = k
    BY <2>2, WrapReaches
  <2> QED
    BY <2>1, <2>2, <2>3 DEF Taken
<1>3. PICK n \in Free : \A m \in Free : n <= m
  <2>1. Free \in SUBSET Nat
    BY <1>1
  <2> HIDE DEF Free
  <2> QED
    BY <1>2, <2>1, Least
<1>4. \A e \in 0 .. n - 1 : Taken(s, key(e))
  <2> SUFFICES ASSUME NEW e \in 0 .. n - 1, ~Taken(s, key(e)) PROVE FALSE
    OBVIOUS
  <2>1. e \in Buckets /\ n \in Int /\ e < n
    BY <1>1
  <2> QED
    BY <1>3, <2>1
<1> DEFINE d == CHOOSE d \in Buckets :
                  /\ ~Taken(s, Wrap(s.next_key + d))
                  /\ \A e \in 0 .. d - 1 : Taken(s, Wrap(s.next_key + e))
<1>5. d \in Buckets /\ ~Taken(s, key(d))
  <2>1. \E c \in Buckets : /\ ~Taken(s, Wrap(s.next_key + c))
                          /\ \A e \in 0 .. c - 1 : Taken(s, Wrap(s.next_key + e))
    BY <1>3, <1>4
  <2> QED
    BY <2>1
<1>6. FreeKey(s) = key(d)
  BY DEF FreeKey
<1>7. key(d) \in Buckets
  <2>1. s.next_key + d \in Int /\ Unknown + 1 \in Int /\ Unknown + 1 > 0
    <3> HIDE DEF d
    <3> QED
      BY <1>1, <1>5
  <2> HIDE DEF d
  <2>2. (s.next_key + d) % (Unknown + 1) \in 0 .. Unknown
    BY <1>1, <2>1, Remainder
  <2> QED
    BY <1>1, <2>2 DEF Wrap
<1>8. key(d) # Unknown
  BY <1>5 DEF Taken
<1> HIDE DEF d, key
<1> QED
  BY <1>1, <1>5, <1>6, <1>7, <1>8

-----------------------------------------------------------------------------
(* The operations of ThreadMaps.                                             *)

\* There is a free key for a thread that does not exist yet: the keys in use are
\* those of the other threads' groups, of one held group and of one retired one.
LEMMA RoomForOne ==
  ASSUME IdsAssumption, NEW s \in Session, NEW h, NEW r, NEW tid \in Tids \ DOMAIN s.threads,
         DOMAIN s.references \subseteq GroupsOf(s) \cup {h}, s.retired \subseteq {r}
  PROVE  \E k \in Keys : k \notin DOMAIN s.references /\ k \notin s.retired
<1> SUFFICES ASSUME Keys \subseteq DOMAIN s.references \cup s.retired PROVE FALSE
  OBVIOUS
<1> DEFINE ts == DOMAIN s.threads
           group == [t \in ts |-> s.threads[t].maps]
<1>1. IsFiniteSet(Tids) /\ ts \subseteq Tids /\ IsFiniteSet(ts)
  BY FewThreads
<1>2. Cardinality(ts) + 1 <= Cardinality(Tids)
  <2>1. ts \in SUBSET (Tids \ {tid})
    BY <1>1
  <2>2. IsFiniteSet(Tids \ {tid}) /\ Cardinality(Tids \ {tid}) = Cardinality(Tids) - 1
    BY <1>1, FS_RemoveElement
  <2>3. Cardinality(ts) <= Cardinality(Tids \ {tid})
    BY <2>1, <2>2, FS_Subset
  <2>4. Cardinality(ts) \in Nat /\ Cardinality(Tids) \in Nat
    BY <1>1, FS_CardinalityType
  <2> QED
    BY <2>2, <2>3, <2>4
<1>3. IsFiniteSet(GroupsOf(s)) /\ Cardinality(GroupsOf(s)) <= Cardinality(ts)
  <2>1. group \in Surjection(ts, GroupsOf(s))
    BY DEF Surjection, GroupsOf
  <2> HIDE DEF group
  <2> QED
    BY <1>1, <2>1, FS_Surjection
<1> DEFINE all == (GroupsOf(s) \cup {h}) \cup {r}
<1>4. IsFiniteSet(all) /\ Cardinality(all) <= Cardinality(GroupsOf(s)) + 2
  <2>1. /\ IsFiniteSet(GroupsOf(s) \cup {h})
        /\ Cardinality(GroupsOf(s) \cup {h}) <= Cardinality(GroupsOf(s)) + 1
    <3>1. /\ IsFiniteSet(GroupsOf(s) \cup {h})
          /\ Cardinality(GroupsOf(s) \cup {h}) =
               IF h \in GroupsOf(s) THEN Cardinality(GroupsOf(s)) ELSE Cardinality(GroupsOf(s)) + 1
      BY <1>3, FS_AddElement
    <3>2. Cardinality(GroupsOf(s)) \in Nat
      BY <1>3, FS_CardinalityType
    <3> QED
      BY <3>1, <3>2
  <2> DEFINE some == GroupsOf(s) \cup {h}
  <2> HIDE DEF some
  <2>2. /\ IsFiniteSet(some \cup {r})
        /\ Cardinality(some \cup {r}) =
             IF r \in some THEN Cardinality(some) ELSE Cardinality(some) + 1
    BY <2>1, FS_AddElement DEF some
  <2>3. Cardinality(GroupsOf(s)) \in Nat /\ Cardinality(some) \in Nat
    BY <1>3, <2>1, FS_CardinalityType DEF some
  <2>4. Cardinality(some) <= Cardinality(GroupsOf(s)) + 1 /\ all = some \cup {r}
    BY <2>1 DEF some
  <2> HIDE DEF all
  <2> QED
    BY <2>2, <2>3, <2>4
<1>5. Keys \in SUBSET all
  OBVIOUS
<1>6. Cardinality(Keys) = Unknown
  <2>1. 0 \in Int /\ Unknown - 1 \in Int /\ Unknown > 0
    <3>1. Cardinality(Tids) \in Nat
      BY <1>1, FS_CardinalityType
    <3> QED
      BY <3>1 DEF IdsAssumption
  <2>2. Cardinality(0 .. Unknown - 1) = IF 0 > Unknown - 1 THEN 0 ELSE (Unknown - 1) - 0 + 1
    BY <2>1, FS_Interval
  <2>3. ~(0 > Unknown - 1) /\ (Unknown - 1) - 0 + 1 = Unknown
    BY <2>1 DEF IdsAssumption
  <2>4. Cardinality(0 .. Unknown - 1) = Unknown
    BY <2>2, <2>3
  <2> QED
    BY <2>4 DEF Keys
<1>7. Cardinality(Keys) <= Cardinality(all)
  <2> HIDE DEF all
  <2> QED
    BY <1>4, <1>5, FS_Subset
<1>8. /\ Cardinality(ts) \in Nat /\ Cardinality(Tids) \in Nat
      /\ Cardinality(GroupsOf(s)) \in Nat /\ Cardinality(all) \in Nat
  <2> HIDE DEF all
  <2> QED
    BY <1>1, <1>3, <1>4, FS_CardinalityType
<1> HIDE DEF all, ts
<1> QED
  BY <1>2, <1>3, <1>4, <1>6, <1>7, <1>8 DEF IdsAssumption

\* A new thread is one more user of its group, and of no other.
LEMMA PutUsers ==
  ASSUME IdsAssumption, NEW s \in Session, NEW r, NEW tid \in Tids \ DOMAIN s.threads,
         NEW pid \in Pids, NEW g \in Keys,
         r.threads = Put(s.threads, tid, [pid |-> pid, maps |-> g])
  PROVE  /\ DOMAIN r.threads = DOMAIN s.threads \cup {tid}
         /\ r.threads[tid] = [pid |-> pid, maps |-> g]
         /\ \A t \in DOMAIN s.threads : t # tid /\ r.threads[t] = s.threads[t]
         /\ GroupsOf(r) = GroupsOf(s) \cup {g}
         /\ Users(r, g) = Users(s, g) \cup {tid}
         /\ Cardinality(Users(r, g)) = Cardinality(Users(s, g)) + 1
         /\ \A x : x # g => Users(r, x) = Users(s, x)
<1>1. s.threads \in Partial(Tids, Thread) /\ [pid |-> pid, maps |-> g] \in Thread
  BY Fields DEF Thread
<1>2. /\ DOMAIN r.threads = DOMAIN s.threads \cup {tid}
      /\ r.threads[tid] = [pid |-> pid, maps |-> g]
      /\ \A t \in DOMAIN s.threads : t # tid /\ r.threads[t] = s.threads[t]
  BY DEF Put
<1>3. [pid |-> pid, maps |-> g].maps = g
  OBVIOUS
<1>4. /\ GroupsOf(r) = GroupsOf(s) \cup {g}
      /\ Users(r, g) = Users(s, g) \cup {tid} /\ tid \notin Users(s, g)
      /\ \A x : x # g => Users(r, x) = Users(s, x)
  BY <1>2, <1>3 DEF GroupsOf, Users
<1>5. Cardinality(Users(s, g) \cup {tid}) = Cardinality(Users(s, g)) + 1
  BY <1>4, FewThreads, FS_AddElement
<1> QED
  BY <1>2, <1>4, <1>5

\* A thread that goes is one user less of its group, and of no other.
LEMMA DropUsers ==
  ASSUME IdsAssumption, NEW s \in Session, NEW r, NEW tid \in DOMAIN s.threads,
         r.threads = Without(s.threads, {tid})
  PROVE  LET g == s.threads[tid].maps IN
         /\ g \in Keys
         /\ DOMAIN r.threads = DOMAIN s.threads \ {tid}
         /\ \A t \in DOMAIN r.threads : r.threads[t] = s.threads[t]
         /\ GroupsOf(s) = GroupsOf(r) \cup {g}
         /\ Cardinality(Users(s, g)) = Cardinality(Users(r, g)) + 1
         /\ \A x : x # g => Users(r, x) = Users(s, x)
<1> DEFINE g == s.threads[tid].maps
<1>1. s.threads \in Partial(Tids, Thread) /\ s.threads[tid] \in Thread
  BY Fields, FewThreads
<1>2. /\ DOMAIN r.threads = DOMAIN s.threads \ {tid}
      /\ \A t \in DOMAIN r.threads : r.threads[t] = s.threads[t]
  BY DEF Without, Restrict
<1>3. /\ GroupsOf(s) = GroupsOf(r) \cup {g}
      /\ Users(r, g) = Users(s, g) \ {tid} /\ tid \in Users(s, g)
      /\ \A x : x # g => Users(r, x) = Users(s, x)
  BY <1>2 DEF GroupsOf, Users
<1>4. Cardinality(Users(s, g) \ {tid}) = Cardinality(Users(s, g)) - 1
  <2>1. IsFiniteSet(Users(s, g)) /\ tid \in Users(s, g)
    BY <1>3, FewThreads
  <2> QED
    BY <2>1, FS_RemoveElement
<1>5. Cardinality(Users(s, g)) \in Nat
  BY FewThreads
<1>6. g \in Keys
  BY <1>1 DEF Thread
<1> HIDE DEF g
<1>7. Cardinality(Users(s, g)) = Cardinality(Users(r, g)) + 1
  BY <1>3, <1>4, <1>5
<1> QED
  BY <1>2, <1>3, <1>6, <1>7 DEF g

\* A thread that did not exist joins a counted group.
LEMMA InsertTidy ==
  ASSUME IdsAssumption, NEW s \in Session, NEW H, NEW tid \in Tids \ DOMAIN s.threads,
         NEW pid \in Pids, NEW g \in DOMAIN s.references,
         DOMAIN s.references = GroupsOf(s) \cup H \cup {g},
         \A x \in DOMAIN s.references :
           s.references[x] = Cardinality(Users(s, x)) + IF x \in H THEN 1 ELSE 0,
         Owned(s), Fresh(s)
  PROVE  Tidy(Insert(s, tid, pid, g), H)
<1> DEFINE r == Insert(s, tid, pid, g)
<1>1. /\ r \in Session
      /\ r.threads = Put(s.threads, tid, [pid |-> pid, maps |-> g])
      /\ r.references = [s.references EXCEPT ![g] = @ + 1]
      /\ r.retired = s.retired /\ r.maps = s.maps /\ r.unwind = s.unwind
  BY InsertFields
<1>2. g \in Keys /\ s.references \in Partial(Keys, Nat)
  BY Fields, PartialFunctions
<1> HIDE DEF r
<1>3. /\ GroupsOf(r) = GroupsOf(s) \cup {g}
      /\ Cardinality(Users(r, g)) = Cardinality(Users(s, g)) + 1
      /\ \A x : x # g => Users(r, x) = Users(s, x)
  BY <1>1, <1>2, PutUsers
<1>4. /\ DOMAIN r.references = DOMAIN s.references
      /\ r.references[g] = s.references[g] + 1
      /\ \A x \in DOMAIN r.references : x # g => r.references[x] = s.references[x]
  BY <1>1, <1>2, PartialFunctions
<1>5. Counted(r, H)
  <2>1. DOMAIN r.references = GroupsOf(r) \cup H
    BY <1>3, <1>4
  <2>2. Cardinality(Users(s, g)) \in Nat
    BY FewThreads
  <2>3. r.references[g] = Cardinality(Users(r, g)) + IF g \in H THEN 1 ELSE 0
    BY <1>3, <1>4, <2>2
  <2>4. ASSUME NEW x \in DOMAIN r.references, x # g
        PROVE  r.references[x] = Cardinality(Users(r, x)) + IF x \in H THEN 1 ELSE 0
    BY <1>3, <1>4, <2>4
  <2> QED
    BY <2>1, <2>3, <2>4 DEF Counted
<1>6. Owned(r) /\ Fresh(r)
  BY <1>1, <1>4 DEF Owned, Fresh
<1> QED
  BY <1>1, <1>5, <1>6 DEF Tidy, r

\* What new_group changes: a key that nobody uses is counted, for nobody yet.
LEMMA WithGroupFields ==
  ASSUME IdsAssumption, NEW s \in Session, NEW pid \in Pids,
         \E k \in Keys : k \notin DOMAIN s.references /\ k \notin s.retired
  PROVE  LET k == NewKey(s, pid)  r == WithGroup(s, pid) IN
         /\ k \in Keys /\ k \notin DOMAIN s.references /\ k \notin s.retired
         /\ r \in Session
         /\ r.references = Put(s.references, k, 0)
         /\ r.threads = s.threads /\ r.retired = s.retired /\ r.maps = s.maps
         /\ r.unwind = s.unwind /\ r.comms = s.comms
<1> DEFINE k == NewKey(s, pid)
           more == Put(s.references, k, 0)
           next == IF KeepsPid(s, pid) THEN s.next_key ELSE Wrap(FreeKey(s) + 1)
           r == WithGroup(s, pid)
<1>1. /\ s.references \in Partial(Keys, Nat) /\ s.next_key \in Buckets
      /\ Unknown \in Nat /\ Buckets = 0 .. Unknown /\ Keys = 0 .. Unknown - 1
  BY Fields DEF IdsAssumption, Buckets, Keys
<1>2. FreeKey(s) \in Keys /\ ~Taken(s, FreeKey(s))
  BY <1>1, SearchFinds
<1>3. k \in Keys /\ k \notin DOMAIN s.references /\ k \notin s.retired
  <2>1. CASE KeepsPid(s, pid)
    <3>1. Ids \subseteq Keys
      BY DEF IdsAssumption, Keys
    <3> QED
      BY <2>1, <3>1 DEF NewKey, KeepsPid, Taken, Pids
  <2>2. CASE ~KeepsPid(s, pid)
    BY <1>2, <2>2 DEF NewKey, Taken
  <2> QED
    BY <2>1, <2>2
<1>4. more \in Partial(Keys, Nat)
  BY <1>1, <1>3, PutPartial
<1>5. next \in Buckets
  <2>1. FreeKey(s) + 1 \in Int
    BY <1>1, <1>2
  <2>2. (FreeKey(s) + 1) % (Unknown + 1) \in 0 .. Unknown
    BY <1>1, <2>1, Remainder
  <2> QED
    BY <1>1, <2>2 DEF Wrap
<1>6. /\ r = [threads |-> s.threads, references |-> more, next_key |-> next,
              retired |-> s.retired, maps |-> s.maps, unwind |-> s.unwind, comms |-> s.comms]
      /\ r.references = more /\ r.next_key = next
      /\ r.threads = s.threads /\ r.retired = s.retired /\ r.maps = s.maps
      /\ r.unwind = s.unwind /\ r.comms = s.comms
  <2>1. r = [s EXCEPT !.references = more, !.next_key = next]
    BY Fields DEF WithGroup
  <2> HIDE DEF more, next, r
  <2> QED
    BY <2>1 DEF Session
<1>7. r \in Session
  <2> HIDE DEF more, next, r
  <2> QED
    BY <1>4, <1>5, <1>6, Fields
<1> QED
  BY <1>3, <1>6, <1>7

\* A thread that did not exist starts a group of its own, with nothing in it.
LEMMA SoloTidy ==
  ASSUME IdsAssumption, NEW s, NEW H, NEW h, NEW o, Tidy(s, H), H \subseteq {h},
         s.retired \subseteq {o}, NEW tid \in Tids \ DOMAIN s.threads, NEW pid \in Pids
  PROVE  LET g == NewKey(s, pid)  r == Solo(s, pid, tid) IN
         /\ Tidy(r, H)
         /\ g \in Keys /\ g \notin DOMAIN s.references /\ g \notin s.retired
         /\ r.threads = Put(s.threads, tid, [pid |-> pid, maps |-> g])
         /\ r.retired = s.retired /\ r.maps = s.maps /\ r.unwind = s.unwind /\ r.comms = s.comms
<1> DEFINE g == NewKey(s, pid)
           w == WithGroup(s, pid)
           r == Solo(s, pid, tid)
<1>1. s \in Session /\ Counted(s, H) /\ Owned(s) /\ Fresh(s)
  BY DEF Tidy
<1>2. \E k \in Keys : k \notin DOMAIN s.references /\ k \notin s.retired
  <2>1. DOMAIN s.references \subseteq GroupsOf(s) \cup {h}
    BY <1>1 DEF Counted
  <2> QED
    BY <1>1, <2>1, RoomForOne
<1>3. /\ g \in Keys /\ g \notin DOMAIN s.references /\ g \notin s.retired
      /\ w \in Session
      /\ w.references = Put(s.references, g, 0)
      /\ w.threads = s.threads /\ w.retired = s.retired /\ w.maps = s.maps
      /\ w.unwind = s.unwind /\ w.comms = s.comms
  BY <1>1, <1>2, WithGroupFields
<1>4. /\ DOMAIN w.references = DOMAIN s.references \cup {g}
      /\ w.references[g] = 0
      /\ \A x \in DOMAIN s.references : x # g /\ w.references[x] = s.references[x]
  <2> HIDE DEF g, w
  <2> QED
    BY <1>3 DEF Put
<1>5. r = Insert(w, tid, pid, g)
  BY DEF Solo
<1> HIDE DEF g, w, r
<1>6. GroupsOf(w) = GroupsOf(s) /\ \A x : Users(w, x) = Users(s, x)
  BY <1>3 DEF GroupsOf, Users
<1>7. Users(w, g) = {} /\ g \notin H
  BY <1>1, <1>3 DEF Counted, Users, GroupsOf
<1>8. \A x \in DOMAIN w.references :
        w.references[x] = Cardinality(Users(w, x)) + IF x \in H THEN 1 ELSE 0
  <2>1. Cardinality({}) = 0
    BY FS_EmptySet
  <2>2. w.references[g] = Cardinality(Users(w, g)) + IF g \in H THEN 1 ELSE 0
    BY <1>4, <1>7, <2>1
  <2>3. ASSUME NEW x \in DOMAIN s.references
        PROVE  w.references[x] = Cardinality(Users(w, x)) + IF x \in H THEN 1 ELSE 0
    BY <1>1, <1>4, <1>6 DEF Counted
  <2> QED
    BY <1>4, <2>2, <2>3
<1>9. DOMAIN w.references = GroupsOf(w) \cup H \cup {g}
  BY <1>1, <1>4, <1>6 DEF Counted
<1>10. Owned(w) /\ Fresh(w)
  BY <1>1, <1>3, <1>4 DEF Owned, Fresh
<1>11. Tidy(r, H)
  BY <1>3, <1>4, <1>5, <1>8, <1>9, <1>10, InsertTidy
<1>12. /\ r.threads = Put(w.threads, tid, [pid |-> pid, maps |-> g])
       /\ r.retired = w.retired /\ r.maps = w.maps /\ r.unwind = w.unwind /\ r.comms = w.comms
  <2>1. w \in Session /\ tid \in Tids /\ g \in DOMAIN w.references
    BY <1>3, <1>4
  <2>2. LET q == Insert(w, tid, pid, g) IN
        /\ q \in Session
        /\ q.threads = Put(w.threads, tid, [pid |-> pid, maps |-> g])
        /\ q.references = [w.references EXCEPT ![g] = @ + 1]
        /\ q.next_key = w.next_key /\ q.retired = w.retired /\ q.maps = w.maps
        /\ q.unwind = w.unwind /\ q.comms = w.comms
    BY <2>1, InsertFields
  <2> QED
    BY <1>5, <2>2
<1> QED
  BY <1>3, <1>11, <1>12 DEF g, r

\* A thread that did not exist joins the group of another.
LEMMA JoinTidy ==
  ASSUME IdsAssumption, NEW s, NEW H, Tidy(s, H), NEW tid \in Tids \ DOMAIN s.threads,
         NEW pid \in Pids, NEW g \in GroupsOf(s)
  PROVE  LET r == Insert(s, tid, pid, g) IN
         /\ Tidy(r, H)
         /\ r.threads = Put(s.threads, tid, [pid |-> pid, maps |-> g])
         /\ r.retired = s.retired /\ r.maps = s.maps /\ r.unwind = s.unwind /\ r.comms = s.comms
<1>1. /\ s \in Session /\ Counted(s, H) /\ Owned(s) /\ Fresh(s)
      /\ g \in DOMAIN s.references /\ DOMAIN s.references = GroupsOf(s) \cup H \cup {g}
  BY DEF Tidy, Counted
<1>2. \A x \in DOMAIN s.references :
        s.references[x] = Cardinality(Users(s, x)) + IF x \in H THEN 1 ELSE 0
  BY <1>1 DEF Counted
<1>3. Tidy(Insert(s, tid, pid, g), H)
  BY <1>1, <1>2, InsertTidy
<1>4. tid \in Tids
  OBVIOUS
<1>5. LET q == Insert(s, tid, pid, g) IN
      /\ q \in Session
      /\ q.threads = Put(s.threads, tid, [pid |-> pid, maps |-> g])
      /\ q.references = [s.references EXCEPT ![g] = @ + 1]
      /\ q.next_key = s.next_key /\ q.retired = s.retired /\ q.maps = s.maps
      /\ q.unwind = s.unwind /\ q.comms = s.comms
  BY <1>1, <1>4, InsertFields
<1> QED
  BY <1>3, <1>5

\* A thread whose pid becomes known stays in its group.
LEMMA PromoteTidy ==
  ASSUME IdsAssumption, NEW s, NEW H, Tidy(s, H), NEW tid \in DOMAIN s.threads, NEW pid \in Pids
  PROVE  LET r == [s EXCEPT !.threads[tid].pid = pid] IN
         /\ Tidy(r, H)
         /\ r.threads = [s.threads EXCEPT ![tid] = [pid |-> pid, maps |-> s.threads[tid].maps]]
         /\ r.retired = s.retired /\ r.maps = s.maps /\ r.unwind = s.unwind /\ r.comms = s.comms
<1> DEFINE new == [pid |-> pid, maps |-> s.threads[tid].maps]
           put == [s.threads EXCEPT ![tid] = new]
           r == [s EXCEPT !.threads[tid].pid = pid]
<1>1. s \in Session /\ Counted(s, H) /\ Owned(s) /\ Fresh(s)
  BY DEF Tidy
<1>2. s.threads \in Partial(Tids, Thread) /\ s.threads[tid] \in Thread
  BY <1>1, Fields, FewThreads
<1>3. new \in Thread /\ new = [s.threads[tid] EXCEPT !.pid = pid]
  BY <1>2 DEF Thread
<1>4. put \in Partial(Tids, Thread)
  <2> HIDE DEF new
  <2> QED
    BY <1>2, <1>3, ExceptPartial
<1>5. /\ r = [threads |-> put, references |-> s.references, next_key |-> s.next_key,
              retired |-> s.retired, maps |-> s.maps, unwind |-> s.unwind, comms |-> s.comms]
      /\ r.threads = put /\ r.references = s.references /\ r.next_key = s.next_key
      /\ r.retired = s.retired /\ r.maps = s.maps /\ r.unwind = s.unwind /\ r.comms = s.comms
  <2>1. r = [s EXCEPT !.threads = [s.threads EXCEPT ![tid] = [s.threads[tid] EXCEPT !.pid = pid]]]
    BY <1>1 DEF Session
  <2>2. r = [s EXCEPT !.threads = put]
    BY <1>3, <2>1
  <2> HIDE DEF put, r
  <2> QED
    BY <1>1, <2>2 DEF Session
<1>6. r \in Session
  <2> HIDE DEF put, r
  <2> QED
    BY <1>1, <1>4, <1>5, Fields
<1>7. DOMAIN put = DOMAIN s.threads /\ \A t \in DOMAIN s.threads : put[t].maps = s.threads[t].maps
  <2>1. DOMAIN put = DOMAIN s.threads /\ put[tid] = new
    BY <1>2, PartialFunctions
  <2>2. \A t \in DOMAIN s.threads : t # tid => put[t] = s.threads[t]
    BY <1>2, PartialFunctions
  <2>3. new.maps = s.threads[tid].maps
    OBVIOUS
  <2> HIDE DEF put, new
  <2> QED
    BY <2>1, <2>2, <2>3
<1> HIDE DEF put, r
<1>8. GroupsOf(r) = GroupsOf(s) /\ \A x : Users(r, x) = Users(s, x)
  BY <1>5, <1>7 DEF GroupsOf, Users
<1>9. Counted(r, H)
  BY <1>1, <1>5, <1>8 DEF Counted
<1>10. Owned(r) /\ Fresh(r)
  BY <1>1, <1>5 DEF Owned, Fresh
<1> QED
  BY <1>5, <1>6, <1>9, <1>10 DEF Tidy, r, put

\* A group counted once too often: releasing it leaves every count exact, and
\* retires the group if it has nobody left.
LEMMA ReleaseTidy ==
  ASSUME IdsAssumption, NEW s \in Session, NEW H, NEW g \in DOMAIN s.references,
         DOMAIN s.references = GroupsOf(s) \cup H \cup {g},
         s.references[g] = Cardinality(Users(s, g)) + (IF g \in H THEN 1 ELSE 0) + 1,
         \A x \in DOMAIN s.references : x # g =>
           s.references[x] = Cardinality(Users(s, x)) + IF x \in H THEN 1 ELSE 0,
         Owned(s), Fresh(s)
  PROVE  LET r == Release(s, g) IN
         /\ Tidy(r, H)
         /\ r.threads = s.threads /\ r.maps = s.maps /\ r.unwind = s.unwind /\ r.comms = s.comms
         /\ r.retired \subseteq s.retired \cup {g}
<1> DEFINE r == Release(s, g)
           less == IF s.references[g] = 1 THEN Without(s.references, {g})
                                          ELSE [s.references EXCEPT ![g] = @ - 1]
           gone == IF s.references[g] = 1 THEN s.retired \cup {g} ELSE s.retired
<1>1. /\ s.references \in Partial(Keys, Nat) /\ s.references[g] \in Nat
      /\ s.retired \in SUBSET Keys /\ g \in Keys
  BY Fields, PartialFunctions
<1>2. Cardinality(Users(s, g)) \in Nat
  BY FewThreads
<1>3. /\ less \in Partial(Keys, Nat)
      /\ DOMAIN less = IF s.references[g] = 1 THEN DOMAIN s.references \ {g} ELSE DOMAIN s.references
      /\ s.references[g] # 1 => less[g] = s.references[g] - 1
      /\ \A x \in DOMAIN s.references : x # g => less[x] = s.references[x]
  <2>1. CASE s.references[g] = 1
    <3>1. less = Without(s.references, {g})
      BY <2>1
    <3>2. Without(s.references, {g}) \in Partial(Keys, Nat)
      BY <1>1, WithoutPartial
    <3> HIDE DEF less
    <3> QED
      BY <2>1, <3>1, <3>2 DEF Without, Restrict
  <2>2. CASE s.references[g] # 1
    <3>1. less = [s.references EXCEPT ![g] = s.references[g] - 1]
      BY <1>1, <2>2, PartialFunctions
    <3>2. s.references[g] - 1 \in Nat
      BY <1>1, <1>2
    <3>3. [s.references EXCEPT ![g] = s.references[g] - 1] \in Partial(Keys, Nat)
      BY <1>1, <3>2, ExceptPartial
    <3>4. s.references \in [DOMAIN s.references -> Nat]
      BY <1>1, PartialFunctions
    <3> HIDE DEF less
    <3> QED
      BY <2>2, <3>1, <3>3, <3>4
  <2> QED
    BY <2>1, <2>2
<1>4. /\ r = [threads |-> s.threads, references |-> less, next_key |-> s.next_key,
              retired |-> gone, maps |-> s.maps, unwind |-> s.unwind, comms |-> s.comms]
      /\ r.threads = s.threads /\ r.references = less /\ r.next_key = s.next_key
      /\ r.retired = gone /\ r.maps = s.maps /\ r.unwind = s.unwind /\ r.comms = s.comms
  <2>1. r = [s EXCEPT !.references = less, !.retired = gone]
    <3>1. CASE s.references[g] = 1
      <4>1. r = [s EXCEPT !.references = Without(s.references, {g}), !.retired = s.retired \cup {g}]
        BY <3>1 DEF Release
      <4> QED
        BY <3>1, <4>1
    <3>2. CASE s.references[g] # 1
      <4>1. r = [s EXCEPT !.references = [s.references EXCEPT ![g] = @ - 1]]
        BY <3>2 DEF Release, Session
      <4>2. s = [s EXCEPT !.retired = s.retired]
        BY DEF Session
      <4>3. less = [s.references EXCEPT ![g] = @ - 1] /\ gone = s.retired
        BY <3>2
      <4> HIDE DEF less, gone, r
      <4> QED
        BY <4>1, <4>3 DEF Session
    <3> QED
      BY <3>1, <3>2
  <2> HIDE DEF less, gone, r
  <2> QED
    BY <2>1 DEF Session
<1>5. gone \in SUBSET Keys
  BY <1>1
<1>6. r \in Session
  <2> HIDE DEF less, gone, r
  <2> QED
    BY <1>3, <1>4, <1>5, Fields
<1>7. GroupsOf(r) = GroupsOf(s) /\ \A x : Users(r, x) = Users(s, x)
  BY <1>4 DEF GroupsOf, Users
<1>8. s.references[g] = 1 <=> g \notin GroupsOf(s) \cup H
  <2>1. Users(s, g) = {} <=> g \notin GroupsOf(s)
    BY DEF Users, GroupsOf
  <2>2. Cardinality(Users(s, g)) = 0 <=> Users(s, g) = {}
    BY FewThreads, FS_EmptySet
  <2> QED
    BY <1>2, <2>1, <2>2
<1> HIDE DEF less, r
<1>9. Counted(r, H)
  <2>1. DOMAIN r.references = GroupsOf(r) \cup H
    BY <1>3, <1>4, <1>7, <1>8
  <2>2. ASSUME NEW x \in DOMAIN r.references, x # g
        PROVE  r.references[x] = Cardinality(Users(r, x)) + IF x \in H THEN 1 ELSE 0
    BY <1>3, <1>4, <1>7, <2>2
  <2>3. ASSUME g \in DOMAIN r.references
        PROVE  r.references[g] = Cardinality(Users(r, g)) + IF g \in H THEN 1 ELSE 0
    BY <1>1, <1>2, <1>3, <1>4, <1>7, <2>3
  <2> QED
    BY <2>1, <2>2, <2>3 DEF Counted
<1>10. Owned(r) /\ Fresh(r)
  BY <1>3, <1>4 DEF Owned, Fresh
<1> QED
  BY <1>4, <1>6, <1>9, <1>10 DEF Tidy, r

\* Counts do not depend on names, mappings or unwinder state.
LEMMA DataTidy ==
  ASSUME NEW s, NEW H, Tidy(s, H), NEW r \in Session, r.threads = s.threads,
         r.references = s.references, Owned(r), Fresh(r)
  PROVE  Tidy(r, H)
<1>1. GroupsOf(r) = GroupsOf(s) /\ \A x : Users(r, x) = Users(s, x)
  BY DEF GroupsOf, Users
<1> QED
  BY <1>1 DEF Tidy, Counted

\* remove_thread takes a thread away, and its group's key if it was the last.
LEMMA RemoveTidy ==
  ASSUME IdsAssumption, NEW s, NEW H, Tidy(s, H), NEW tid
  PROVE  LET r == Remove(s, tid) IN
         /\ Tidy(r, H)
         /\ DOMAIN r.threads = DOMAIN s.threads \ {tid}
         /\ \A t \in DOMAIN r.threads : r.threads[t] = s.threads[t]
         /\ r.maps = s.maps /\ r.unwind = s.unwind /\ r.comms = s.comms
         /\ \E o : r.retired \subseteq s.retired \cup {o}
<1> DEFINE r == Remove(s, tid)
<1>1. s \in Session /\ Counted(s, H) /\ Owned(s) /\ Fresh(s)
  BY DEF Tidy
<1>2. CASE tid \notin DOMAIN s.threads
  <2>1. r = s
    BY <1>2 DEF Remove
  <2> HIDE DEF r
  <2> QED
    BY <1>2, <2>1 DEF r
<1>3. CASE tid \in DOMAIN s.threads
  <2> DEFINE g == s.threads[tid].maps
             left == Without(s.threads, {tid})
             d == [s EXCEPT !.threads = left]
  <2>1. /\ d.threads = left /\ d.references = s.references /\ d.retired = s.retired
        /\ d.maps = s.maps /\ d.unwind = s.unwind /\ d.comms = s.comms
        /\ d = [threads |-> left, references |-> s.references, next_key |-> s.next_key,
                retired |-> s.retired, maps |-> s.maps, unwind |-> s.unwind, comms |-> s.comms]
        /\ d.next_key = s.next_key
    <3> HIDE DEF left
    <3> QED
      BY <1>1 DEF Session
  <2>2. left \in Partial(Tids, Thread)
    BY <1>1, Fields, WithoutPartial
  <2>3. d \in Session
    <3> HIDE DEF left, d
    <3> QED
      BY <1>1, <2>1, <2>2, Fields
  <2>4. r = Release(d, g)
    BY <1>3 DEF Remove
  <2>5. /\ g \in Keys
        /\ DOMAIN d.threads = DOMAIN s.threads \ {tid}
        /\ \A t \in DOMAIN d.threads : d.threads[t] = s.threads[t]
        /\ GroupsOf(s) = GroupsOf(d) \cup {g}
        /\ Cardinality(Users(s, g)) = Cardinality(Users(d, g)) + 1
        /\ \A x : x # g => Users(d, x) = Users(s, x)
    <3>1. d.threads = Without(s.threads, {tid})
      BY <2>1
    <3> HIDE DEF d
    <3>2. LET k == s.threads[tid].maps IN
          /\ k \in Keys
          /\ DOMAIN d.threads = DOMAIN s.threads \ {tid}
          /\ \A t \in DOMAIN d.threads : d.threads[t] = s.threads[t]
          /\ GroupsOf(s) = GroupsOf(d) \cup {k}
          /\ Cardinality(Users(s, k)) = Cardinality(Users(d, k)) + 1
      BY <1>1, <1>3, <3>1, DropUsers
    <3>3. ASSUME NEW x, x # s.threads[tid].maps PROVE Users(d, x) = Users(s, x)
      BY <3>2, <3>3 DEF Users
    <3> QED
      BY <3>2, <3>3
  <2>6. \A x : Cardinality(Users(d, x)) \in Nat
    BY <2>3, FewThreads
  <2> HIDE DEF g, left, d, r
  <2>7. g \in DOMAIN d.references /\ DOMAIN d.references = GroupsOf(d) \cup H \cup {g}
    BY <1>1, <2>1, <2>5 DEF Counted
  <2>8. d.references[g] = Cardinality(Users(d, g)) + (IF g \in H THEN 1 ELSE 0) + 1
    BY <1>1, <2>1, <2>5, <2>6, <2>7 DEF Counted
  <2>9. \A x \in DOMAIN d.references : x # g =>
          d.references[x] = Cardinality(Users(d, x)) + IF x \in H THEN 1 ELSE 0
    BY <1>1, <2>1, <2>5 DEF Counted
  <2>10. Owned(d) /\ Fresh(d)
    BY <1>1, <2>1 DEF Owned, Fresh
  <2>11. /\ Tidy(r, H)
         /\ r.threads = d.threads /\ r.maps = d.maps /\ r.unwind = d.unwind /\ r.comms = d.comms
         /\ r.retired \subseteq d.retired \cup {g}
    BY <2>3, <2>4, <2>7, <2>8, <2>9, <2>10, ReleaseTidy
  <2> QED
    BY <2>1, <2>5, <2>11 DEF r
<1> QED
  BY <1>2, <1>3

\* A FORK holds its parent's group, and lets it go.
LEMMA HoldTidy ==
  ASSUME IdsAssumption, NEW s, Tidy(s, {}), NEW g \in DOMAIN s.references
  PROVE  LET r == Retain(s, g) IN
         /\ Tidy(r, {g})
         /\ r.threads = s.threads /\ r.retired = s.retired /\ r.maps = s.maps
         /\ r.unwind = s.unwind /\ r.comms = s.comms
<1> DEFINE r == Retain(s, g)
           more == [s.references EXCEPT ![g] = @ + 1]
<1>1. s \in Session /\ Counted(s, {}) /\ Owned(s) /\ Fresh(s)
  BY DEF Tidy
<1>2. /\ s.references \in Partial(Keys, Nat) /\ s.references[g] \in Nat
      /\ s.references \in [DOMAIN s.references -> Nat]
  BY <1>1, Fields, PartialFunctions
<1>3. more \in Partial(Keys, Nat)
  <2>1. s.references[g] + 1 \in Nat
    BY <1>2
  <2> QED
    BY <1>2, <2>1, ExceptPartial
<1>4. /\ DOMAIN more = DOMAIN s.references /\ more[g] = s.references[g] + 1
      /\ \A x \in DOMAIN s.references : x # g => more[x] = s.references[x]
  BY <1>2
<1>5. /\ r = [threads |-> s.threads, references |-> more, next_key |-> s.next_key,
              retired |-> s.retired, maps |-> s.maps, unwind |-> s.unwind, comms |-> s.comms]
      /\ r.threads = s.threads /\ r.references = more /\ r.next_key = s.next_key
      /\ r.retired = s.retired /\ r.maps = s.maps /\ r.unwind = s.unwind /\ r.comms = s.comms
  BY <1>1 DEF Retain, Session
<1> HIDE DEF more, r
<1>6. r \in Session
  BY <1>1, <1>3, <1>5, Fields
<1>7. GroupsOf(r) = GroupsOf(s) /\ \A x : Users(r, x) = Users(s, x)
  BY <1>5 DEF GroupsOf, Users
<1>8. Counted(r, {g})
  <2>1. DOMAIN r.references = GroupsOf(r) \cup {g}
    BY <1>1, <1>4, <1>5, <1>7 DEF Counted
  <2>2. ASSUME NEW x \in DOMAIN r.references
        PROVE  r.references[x] = Cardinality(Users(r, x)) + IF x \in {g} THEN 1 ELSE 0
    <3>1. s.references[x] = Cardinality(Users(s, x)) + 0
      BY <1>1, <1>4, <1>5 DEF Counted
    <3>2. Cardinality(Users(s, x)) \in Nat
      BY <1>1, FewThreads
    <3> QED
      BY <1>4, <1>5, <1>7, <3>1, <3>2
  <2> QED
    BY <2>1, <2>2 DEF Counted
<1>9. Owned(r) /\ Fresh(r)
  BY <1>1, <1>4, <1>5 DEF Owned, Fresh
<1> QED
  BY <1>5, <1>6, <1>8, <1>9 DEF Tidy, r

\* The end of that fork.
LEMMA LetGoTidy ==
  ASSUME IdsAssumption, NEW s, NEW g, Tidy(s, {g})
  PROVE  LET r == Release(s, g) IN
         /\ Tidy(r, {})
         /\ r.threads = s.threads /\ r.maps = s.maps /\ r.unwind = s.unwind /\ r.comms = s.comms
<1>1. s \in Session /\ Counted(s, {g}) /\ Owned(s) /\ Fresh(s)
  BY DEF Tidy
<1>2. g \in DOMAIN s.references /\ DOMAIN s.references = GroupsOf(s) \cup {} \cup {g}
  BY <1>1 DEF Counted
<1>3. \A x : Cardinality(Users(s, x)) \in Nat
  BY <1>1, FewThreads
<1>4. s.references[g] = Cardinality(Users(s, g)) + (IF g \in {} THEN 1 ELSE 0) + 1
  BY <1>1, <1>2, <1>3 DEF Counted
<1>5. \A x \in DOMAIN s.references : x # g =>
        s.references[x] = Cardinality(Users(s, x)) + IF x \in {} THEN 1 ELSE 0
  BY <1>1 DEF Counted
<1> QED
  BY <1>1, <1>2, <1>4, <1>5, ReleaseTidy

\* release_retired_map_groups forgets what was kept for the retired groups.
LEMMA PurgeTidy ==
  ASSUME NEW s, NEW H, Tidy(s, H)
  PROVE  LET r == Purge(s) IN
         /\ Tidy(r, H)
         /\ r.threads = s.threads /\ r.references = s.references /\ r.comms = s.comms
         /\ r.retired = {}
         /\ DOMAIN r.unwind \subseteq DOMAIN s.unwind
         /\ DOMAIN r.maps \subseteq DOMAIN s.maps
<1> DEFINE r == Purge(s)
<1>1. s \in Session /\ Owned(s) /\ Fresh(s)
  BY DEF Tidy
<1>2. CASE s.retired = {}
  <2>1. r = s
    BY <1>2 DEF Purge
  <2> HIDE DEF r
  <2> QED
    BY <1>2, <2>1 DEF r
<1>3. CASE s.retired # {}
  <2> DEFINE maps == Without(s.maps, s.retired)
             unwind == Without(s.unwind, s.retired)
  <2>1. /\ r = [threads |-> s.threads, references |-> s.references, next_key |-> s.next_key,
                retired |-> {}, maps |-> maps, unwind |-> unwind, comms |-> s.comms]
        /\ r.threads = s.threads /\ r.references = s.references /\ r.next_key = s.next_key
        /\ r.retired = {} /\ r.maps = maps /\ r.unwind = unwind /\ r.comms = s.comms
    <3>1. r = [s EXCEPT !.maps = maps, !.unwind = unwind, !.retired = {}]
      BY <1>3 DEF Purge
    <3> HIDE DEF maps, unwind, r
    <3> QED
      BY <1>1, <3>1 DEF Session
  <2>2. maps \in Partial(Buckets, Images) /\ unwind \in Partial(Keys, Images \cup {None})
    <3>1. s.maps \in Partial(Buckets, Images) /\ s.unwind \in Partial(Keys, Images \cup {None})
      BY <1>1, Fields
    <3> QED
      BY <3>1, WithoutPartial
  <2>3. /\ DOMAIN maps = DOMAIN s.maps \ s.retired
        /\ DOMAIN unwind = DOMAIN s.unwind \ s.retired
        /\ \A g \in DOMAIN maps : maps[g] = s.maps[g]
        /\ \A g \in DOMAIN unwind : unwind[g] = s.unwind[g]
    BY DEF Without, Restrict
  <2> HIDE DEF maps, unwind, r
  <2>4. r \in Session
    BY <1>1, <2>1, <2>2, Fields
  <2>5. Owned(r) /\ Fresh(r)
    BY <1>1, <2>1, <2>3 DEF Owned, Fresh
  <2>6. Tidy(r, H)
    BY <2>1, <2>4, <2>5, DataTidy
  <2> QED
    BY <2>1, <2>3, <2>6 DEF r
<1> QED
  BY <1>2, <1>3

-----------------------------------------------------------------------------
(* maps_for_thread and remove_thread.                                        *)

\* No thread goes, and one whose pid is known does not change.
Keeps(s, r) ==
  \A t \in DOMAIN s.threads :
    t \in DOMAIN r.threads /\ (s.threads[t].pid = Unknown \/ r.threads[t] = s.threads[t])

\* The thread has a group of its own, which did not exist, with no unwinder state.
Alone(s, r, t) ==
  LET g == r.threads[t].maps
  IN Users(r, g) = {t} /\ g \notin DOMAIN s.references /\ g \notin DOMAIN r.unwind

\* find_or_create gives a known process its leader.
LEMMA LeaderTidy ==
  ASSUME IdsAssumption, NEW s, NEW H, NEW h, NEW o, Tidy(s, H), H \subseteq {h},
         s.retired \subseteq {o}, NEW pid \in Ids
  PROVE  LET r == WithLeader(s, pid) IN
         /\ Tidy(r, H) /\ Keeps(s, r)
         /\ DOMAIN r.threads = DOMAIN s.threads \cup {pid}
         /\ \A t \in DOMAIN s.threads : t # pid => r.threads[t] = s.threads[t]
         /\ pid \notin DOMAIN s.threads => r.threads[pid].pid = pid /\ Alone(s, r, pid)
         /\ r.retired = s.retired /\ r.maps = s.maps /\ r.unwind = s.unwind /\ r.comms = s.comms
<1> DEFINE r == WithLeader(s, pid)
<1>1. s \in Session /\ pid \in Tids /\ pid \in Pids /\ pid # Unknown
  BY DEF Tidy, IdsAssumption, Pids
<1>2. CASE Settled(s, pid, pid)
  <2>1. r = s /\ pid \in DOMAIN s.threads
    BY <1>2 DEF WithLeader, Settled
  <2> HIDE DEF r
  <2> QED
    BY <2>1 DEF r, Keeps
<1>3. CASE ~Settled(s, pid, pid) /\ pid \in DOMAIN s.threads
  <2>1. r = [s EXCEPT !.threads[pid].pid = pid] /\ s.threads[pid].pid = Unknown
    BY <1>3 DEF WithLeader, Settled
  <2> DEFINE new == [pid |-> pid, maps |-> s.threads[pid].maps]
  <2>2. /\ Tidy(r, H)
        /\ r.threads = [s.threads EXCEPT ![pid] = new]
        /\ r.retired = s.retired /\ r.maps = s.maps /\ r.unwind = s.unwind /\ r.comms = s.comms
    BY <1>1, <1>3, <2>1, PromoteTidy
  <2>3. s.threads \in [DOMAIN s.threads -> Thread]
    BY <1>1, Fields, PartialFunctions
  <2> HIDE DEF r, new
  <2>4. /\ DOMAIN r.threads = DOMAIN s.threads
        /\ \A t \in DOMAIN s.threads : t # pid => r.threads[t] = s.threads[t]
    BY <2>2, <2>3
  <2> QED
    BY <1>3, <2>1, <2>2, <2>4 DEF r, Keeps
<1>4. CASE pid \notin DOMAIN s.threads
  <2> DEFINE g == NewKey(s, pid)
  <2>1. r = Solo(s, pid, pid)
    BY <1>4 DEF WithLeader, Settled
  <2>2. pid \in Tids \ DOMAIN s.threads
    BY <1>1, <1>4
  <2>3. /\ Tidy(r, H)
        /\ g \in Keys /\ g \notin DOMAIN s.references /\ g \notin s.retired
        /\ r.threads = Put(s.threads, pid, [pid |-> pid, maps |-> g])
        /\ r.retired = s.retired /\ r.maps = s.maps /\ r.unwind = s.unwind /\ r.comms = s.comms
    BY <1>1, <2>1, <2>2, SoloTidy
  <2> HIDE DEF r, g
  <2>4. /\ DOMAIN r.threads = DOMAIN s.threads \cup {pid}
        /\ r.threads[pid] = [pid |-> pid, maps |-> g]
        /\ \A t \in DOMAIN s.threads : t # pid /\ r.threads[t] = s.threads[t]
        /\ Users(r, g) = Users(s, g) \cup {pid}
    <3>1. DOMAIN r.threads = DOMAIN s.threads \cup {pid}
      BY <2>3 DEF Put
    <3>2. /\ r.threads[pid] = [pid |-> pid, maps |-> g]
          /\ \A t \in DOMAIN s.threads : t # pid /\ r.threads[t] = s.threads[t]
          /\ Users(r, g) = Users(s, g) \cup {pid}
      BY <1>1, <2>2, <2>3, PutUsers
    <3> QED
      BY <3>1, <3>2
  <2>5. Users(s, g) = {} /\ g \notin DOMAIN s.unwind
    BY <2>3 DEF Tidy, Counted, Owned, Users, GroupsOf
  <2>6. r.threads[pid].pid = pid /\ r.threads[pid].maps = g
    BY <2>4
  <2>7. Alone(s, r, pid)
    BY <2>3, <2>4, <2>5, <2>6 DEF Alone
  <2> QED
    BY <2>3, <2>4, <2>6, <2>7 DEF r, Keeps
<1> QED
  BY <1>2, <1>3, <1>4

\* find_or_create gives a record its thread.
LEMMA ThreadTidy ==
  ASSUME IdsAssumption, NEW s, NEW H, NEW h, Tidy(s, H), H \subseteq {h},
         s.retired = {}, NEW pid \in Pids, NEW tid \in Tids
  PROVE  LET r == WithThread(s, pid, tid) IN
         /\ Tidy(r, H) /\ Keeps(s, r) /\ tid \in DOMAIN r.threads
         /\ DOMAIN r.threads \subseteq DOMAIN s.threads \cup {pid, tid}
         /\ \A t \in DOMAIN s.threads : t \notin {pid, tid} => r.threads[t] = s.threads[t]
         /\ tid \notin DOMAIN s.threads => r.threads[tid].pid = pid
         /\ tid \notin DOMAIN s.threads /\ pid = tid /\ pid \in Ids => Alone(s, r, tid)
         /\ r.maps = s.maps /\ r.unwind = s.unwind /\ r.comms = s.comms
<1> DEFINE r == WithThread(s, pid, tid)
<1>1. s \in Session /\ s.retired \subseteq {0} /\ Ids \subseteq Tids /\ Ids \subseteq Pids
      /\ Unknown \notin Ids
  BY DEF Tidy, IdsAssumption, Pids
<1>2. CASE Settled(s, pid, tid)
  <2>1. r = s /\ tid \in DOMAIN s.threads
    BY <1>2 DEF WithThread, Settled
  <2> HIDE DEF r
  <2> QED
    BY <2>1 DEF r, Keeps
<1>3. CASE ~Settled(s, pid, tid) /\ pid = tid /\ pid # Unknown
  <2>1. r = WithLeader(s, pid) /\ pid \in Ids
    BY <1>3 DEF WithThread, Pids
  <2>2. /\ Tidy(r, H) /\ Keeps(s, r)
        /\ DOMAIN r.threads = DOMAIN s.threads \cup {pid}
        /\ \A t \in DOMAIN s.threads : t # pid => r.threads[t] = s.threads[t]
        /\ pid \notin DOMAIN s.threads => r.threads[pid].pid = pid /\ Alone(s, r, pid)
        /\ r.maps = s.maps /\ r.unwind = s.unwind /\ r.comms = s.comms
    BY <1>1, <2>1, LeaderTidy
  <2> HIDE DEF r
  <2> QED
    BY <1>3, <2>2 DEF r
<1>4. CASE ~Settled(s, pid, tid) /\ pid = Unknown
  <2> DEFINE g == NewKey(s, pid)
  <2>1. r = Solo(s, pid, tid) /\ tid \in Tids \ DOMAIN s.threads
    BY <1>4 DEF WithThread, Settled
  <2>2. /\ Tidy(r, H)
        /\ g \in Keys
        /\ r.threads = Put(s.threads, tid, [pid |-> pid, maps |-> g])
        /\ r.maps = s.maps /\ r.unwind = s.unwind /\ r.comms = s.comms
    <3>1. s.retired \subseteq {0} /\ tid \in Tids \ DOMAIN s.threads
      BY <1>1, <2>1
    <3>2. LET k == NewKey(s, pid)  q == Solo(s, pid, tid) IN
          /\ Tidy(q, H)
          /\ k \in Keys
          /\ q.threads = Put(s.threads, tid, [pid |-> pid, maps |-> k])
          /\ q.maps = s.maps /\ q.unwind = s.unwind /\ q.comms = s.comms
      BY <3>1, SoloTidy
    <3> QED
      BY <2>1, <3>2
  <2> HIDE DEF r, g
  <2>3. /\ DOMAIN r.threads = DOMAIN s.threads \cup {tid}
        /\ r.threads[tid] = [pid |-> pid, maps |-> g]
        /\ \A t \in DOMAIN s.threads : t # tid /\ r.threads[t] = s.threads[t]
    BY <2>1, <2>2 DEF Put
  <2>4. r.threads[tid].pid = pid
    BY <2>3
  <2> QED
    BY <1>1, <1>4, <2>2, <2>3, <2>4 DEF r, Keeps
<1>5. CASE ~Settled(s, pid, tid) /\ pid # tid /\ pid # Unknown
  <2> DEFINE gone == Remove(s, tid)
             led == WithLeader(gone, pid)
             g == led.threads[pid].maps
  <2>1. r = Insert(led, tid, pid, g) /\ pid \in Ids
    BY <1>5 DEF WithThread, Pids
  <2>2. /\ Tidy(gone, H)
        /\ DOMAIN gone.threads = DOMAIN s.threads \ {tid}
        /\ \A t \in DOMAIN gone.threads : gone.threads[t] = s.threads[t]
        /\ gone.maps = s.maps /\ gone.unwind = s.unwind /\ gone.comms = s.comms
        /\ \E o : gone.retired \subseteq s.retired \cup {o}
    BY RemoveTidy
  <2> HIDE DEF gone
  <2>3. PICK o : gone.retired \subseteq {o}
    BY <2>2
  <2>4. /\ Tidy(led, H) /\ Keeps(gone, led)
        /\ DOMAIN led.threads = DOMAIN gone.threads \cup {pid}
        /\ \A t \in DOMAIN gone.threads : t # pid => led.threads[t] = gone.threads[t]
        /\ led.maps = gone.maps /\ led.unwind = gone.unwind /\ led.comms = gone.comms
    BY <2>1, <2>2, <2>3, LeaderTidy
  <2> HIDE DEF led
  <2>5. /\ led \in Session /\ tid \in Tids \ DOMAIN led.threads
        /\ g \in GroupsOf(led) /\ pid \in Pids
    BY <1>1, <1>5, <2>1, <2>2, <2>4 DEF Tidy, GroupsOf
  <2> HIDE DEF g
  <2>6. /\ Tidy(r, H)
        /\ r.threads = Put(led.threads, tid, [pid |-> pid, maps |-> g])
        /\ r.maps = led.maps /\ r.unwind = led.unwind /\ r.comms = led.comms
    BY <2>1, <2>4, <2>5, JoinTidy
  <2> HIDE DEF r
  <2>7. g \in Keys
    <3>1. DOMAIN led.references = GroupsOf(led) \cup H /\ DOMAIN led.references \subseteq Keys
      BY <2>4, <2>5, Fields, PartialFunctions DEF Tidy, Counted
    <3> QED
      BY <2>5, <3>1
  <2>8. /\ DOMAIN r.threads = DOMAIN led.threads \cup {tid}
        /\ r.threads[tid] = [pid |-> pid, maps |-> g]
        /\ \A t \in DOMAIN led.threads : t # tid /\ r.threads[t] = led.threads[t]
    BY <2>5, <2>6, <2>7, PutUsers
  <2>9. r.threads[tid].pid = pid
    BY <2>8
  <2>10. Keeps(s, r)
    <3> SUFFICES ASSUME NEW t \in DOMAIN s.threads
                 PROVE  /\ t \in DOMAIN r.threads
                        /\ s.threads[t].pid = Unknown \/ r.threads[t] = s.threads[t]
      BY DEF Keeps
    <3>1. CASE t = tid
      BY <1>5, <2>8, <3>1 DEF Settled
    <3>2. CASE t # tid
      BY <2>2, <2>4, <2>8, <3>2 DEF Keeps
    <3> QED
      BY <3>1, <3>2
  <2>11. \A t \in DOMAIN s.threads : t \notin {pid, tid} => r.threads[t] = s.threads[t]
    BY <2>2, <2>4, <2>8
  <2> QED
    BY <1>5, <2>2, <2>4, <2>6, <2>8, <2>9, <2>10, <2>11 DEF r
<1> QED
  BY <1>2, <1>3, <1>4, <1>5

\* Between records nothing waits to be forgotten, and names are those of threads.
Calm(s, H) == Tidy(s, H) /\ s.retired = {} /\ DOMAIN s.comms \subseteq DOMAIN s.threads

\* maps_for_thread.
LEMMA ForThreadCalm ==
  ASSUME IdsAssumption, NEW s, NEW H, NEW h, Calm(s, H), H \subseteq {h},
         NEW pid \in Pids, NEW tid \in Tids
  PROVE  LET r == MapsForThread(s, pid, tid) IN
         /\ Calm(r, H) /\ Keeps(s, r) /\ tid \in DOMAIN r.threads
         /\ Group(r, tid) \in DOMAIN r.references
         /\ DOMAIN r.threads \subseteq DOMAIN s.threads \cup {pid, tid}
         /\ \A t \in DOMAIN s.threads : t \notin {pid, tid} => r.threads[t] = s.threads[t]
         /\ tid \notin DOMAIN s.threads => r.threads[tid].pid = pid
         /\ tid \notin DOMAIN s.threads /\ pid = tid /\ pid \in Ids => Alone(s, r, tid)
         /\ r.comms = s.comms
<1> DEFINE w == WithThread(s, pid, tid)
           r == Purge(w)
<1>1. Tidy(s, H) /\ s.retired = {}
  BY DEF Calm
<1>2. /\ Tidy(w, H) /\ Keeps(s, w) /\ tid \in DOMAIN w.threads
      /\ DOMAIN w.threads \subseteq DOMAIN s.threads \cup {pid, tid}
      /\ \A t \in DOMAIN s.threads : t \notin {pid, tid} => w.threads[t] = s.threads[t]
      /\ tid \notin DOMAIN s.threads => w.threads[tid].pid = pid
      /\ tid \notin DOMAIN s.threads /\ pid = tid /\ pid \in Ids => Alone(s, w, tid)
      /\ w.comms = s.comms
  <2>1. /\ Tidy(w, H) /\ Keeps(s, w) /\ tid \in DOMAIN w.threads
        /\ DOMAIN w.threads \subseteq DOMAIN s.threads \cup {pid, tid}
        /\ tid \notin DOMAIN s.threads => w.threads[tid].pid = pid
        /\ tid \notin DOMAIN s.threads /\ pid = tid /\ pid \in Ids => Alone(s, w, tid)
        /\ w.comms = s.comms
    BY <1>1, ThreadTidy
  <2>2. \A t \in DOMAIN s.threads : t \notin {pid, tid} => w.threads[t] = s.threads[t]
    BY <1>1, ThreadTidy
  <2> HIDE DEF w
  <2> QED
    BY <2>1, <2>2
<1> HIDE DEF w
<1>3. /\ Tidy(r, H)
      /\ r.threads = w.threads /\ r.comms = w.comms /\ r.retired = {}
      /\ DOMAIN r.unwind \subseteq DOMAIN w.unwind
  BY <1>2, PurgeTidy
<1> HIDE DEF r
<1>4. Calm(r, H)
  BY <1>2, <1>3 DEF Calm, Keeps
<1>5. Group(r, tid) \in DOMAIN r.references
  BY <1>2, <1>3 DEF Tidy, Counted, Group, GroupsOf
<1>6. Keeps(s, r) /\ (Alone(s, w, tid) => Alone(s, r, tid))
  BY <1>2, <1>3 DEF Keeps, Alone, Users
<1>7. r = MapsForThread(s, pid, tid)
  BY DEF r, w, MapsForThread
<1> QED
  BY <1>2, <1>3, <1>4, <1>5, <1>6, <1>7

\* What a record edits beside the threads.
LEMMA EditTidy ==
  ASSUME NEW s, NEW H, Tidy(s, H), NEW maps \in Partial(Buckets, Images),
         NEW unwind \in Partial(Keys, Images \cup {None}), NEW comms \in Partial(Tids, Names),
         DOMAIN maps \subseteq DOMAIN s.references \cup s.retired \cup {Unknown},
         DOMAIN unwind \subseteq DOMAIN s.references \cup s.retired,
         \A g \in DOMAIN unwind :
           unwind[g] # None => g \in DOMAIN maps /\ unwind[g] = maps[g]
  PROVE  LET r == [s EXCEPT !.maps = maps, !.unwind = unwind, !.comms = comms] IN
         Tidy(r, H)
<1> DEFINE r == [s EXCEPT !.maps = maps, !.unwind = unwind, !.comms = comms]
<1>1. s \in Session /\ Owned(s)
  BY DEF Tidy
<1>2. /\ r = [threads |-> s.threads, references |-> s.references, next_key |-> s.next_key,
              retired |-> s.retired, maps |-> maps, unwind |-> unwind, comms |-> comms]
      /\ r.threads = s.threads /\ r.references = s.references /\ r.next_key = s.next_key
      /\ r.retired = s.retired /\ r.maps = maps /\ r.unwind = unwind /\ r.comms = comms
  <2>1. r = [s EXCEPT !.maps = maps, !.unwind = unwind, !.comms = comms]
    OBVIOUS
  <2> HIDE DEF r
  <2> QED
    BY <1>1, <2>1 DEF Session
<1> HIDE DEF r
<1>3. r \in Session
  BY <1>1, <1>2, Fields
<1>4. Owned(r) /\ Fresh(r)
  BY <1>1, <1>2 DEF Owned, Fresh
<1>5. Tidy(r, H)
  BY <1>2, <1>3, <1>4, DataTidy
<1> QED
  BY <1>2, <1>5 DEF r

\* What EditTidy asks of the parts a record does not edit.
LEMMA Unedited ==
  ASSUME NEW s, NEW H, Tidy(s, H)
  PROVE  /\ s \in Session
         /\ s.maps \in Partial(Buckets, Images)
         /\ s.unwind \in Partial(Keys, Images \cup {None})
         /\ s.comms \in Partial(Tids, Names)
         /\ DOMAIN s.maps \subseteq DOMAIN s.references \cup s.retired \cup {Unknown}
         /\ DOMAIN s.unwind \subseteq DOMAIN s.references \cup s.retired
         /\ \A g \in DOMAIN s.unwind :
              s.unwind[g] # None => g \in DOMAIN s.maps /\ s.unwind[g] = s.maps[g]
  BY Fields DEF Tidy, Owned, Fresh

\* A thread that exists is named.
LEMMA NameCalm ==
  ASSUME NEW s, NEW H, Calm(s, H), NEW tid \in Tids, tid \in DOMAIN s.threads, NEW name \in Names
  PROVE  LET r == [s EXCEPT !.comms = Put(@, tid, name)] IN
         Calm(r, H) /\ r.threads = s.threads /\ r.references = s.references /\ r.unwind = s.unwind
<1> DEFINE c == Put(s.comms, tid, name)
           r == [s EXCEPT !.maps = s.maps, !.unwind = s.unwind, !.comms = c]
<1>1. Tidy(s, H) /\ s.retired = {} /\ DOMAIN s.comms \subseteq DOMAIN s.threads
  BY DEF Calm
<1>2. /\ s \in Session
      /\ s.maps \in Partial(Buckets, Images) /\ s.unwind \in Partial(Keys, Images \cup {None})
      /\ s.comms \in Partial(Tids, Names)
      /\ DOMAIN s.maps \subseteq DOMAIN s.references \cup s.retired \cup {Unknown}
      /\ DOMAIN s.unwind \subseteq DOMAIN s.references \cup s.retired
      /\ \A g \in DOMAIN s.unwind :
           s.unwind[g] # None => g \in DOMAIN s.maps /\ s.unwind[g] = s.maps[g]
  BY <1>1, Unedited
<1>3. c \in Partial(Tids, Names)
  BY <1>2, PutPartial
<1>4. DOMAIN c = DOMAIN s.comms \cup {tid}
  BY DEF Put
<1> HIDE DEF c
<1>5. /\ Tidy(r, H)
      /\ r.threads = s.threads /\ r.references = s.references /\ r.retired = s.retired
      /\ r.unwind = s.unwind /\ r.comms = c
  <2>1. Tidy(r, H)
    BY <1>1, <1>2, <1>3, EditTidy
  <2>2. /\ r.threads = s.threads /\ r.references = s.references /\ r.retired = s.retired
        /\ r.unwind = s.unwind /\ r.comms = c
    BY <1>2 DEF Session
  <2> QED
    BY <2>1, <2>2
<1>6. r = [s EXCEPT !.comms = Put(@, tid, name)]
  BY <1>2 DEF Session, c
<1> HIDE DEF r
<1>7. Calm(r, H)
  BY <1>1, <1>4, <1>5 DEF Calm
<1> QED
  BY <1>5, <1>6, <1>7

\* remove_thread forgets the thread, its name, and its group if it was the last.
LEMMA RemoveCalm ==
  ASSUME IdsAssumption, NEW s, NEW H, Calm(s, H), NEW tid
  PROVE  LET r == RemoveThread(s, tid) IN
         /\ Calm(r, H)
         /\ DOMAIN r.threads = DOMAIN s.threads \ {tid}
         /\ \A t \in DOMAIN r.threads : r.threads[t] = s.threads[t]
<1> DEFINE d == Remove(s, tid)
           c == Without(d.comms, {tid})
           e == [d EXCEPT !.comms = c]
           r == Purge(e)
<1>1. Tidy(s, H) /\ s.retired = {} /\ DOMAIN s.comms \subseteq DOMAIN s.threads
  BY DEF Calm
<1>2. /\ Tidy(d, H)
      /\ DOMAIN d.threads = DOMAIN s.threads \ {tid}
      /\ \A t \in DOMAIN d.threads : d.threads[t] = s.threads[t]
      /\ d.comms = s.comms
  BY <1>1, RemoveTidy
<1> HIDE DEF d
<1>3. /\ d \in Session
      /\ d.maps \in Partial(Buckets, Images) /\ d.unwind \in Partial(Keys, Images \cup {None})
      /\ d.comms \in Partial(Tids, Names)
      /\ DOMAIN d.maps \subseteq DOMAIN d.references \cup d.retired \cup {Unknown}
      /\ DOMAIN d.unwind \subseteq DOMAIN d.references \cup d.retired
      /\ \A g \in DOMAIN d.unwind :
           d.unwind[g] # None => g \in DOMAIN d.maps /\ d.unwind[g] = d.maps[g]
  BY <1>2, Unedited
<1>4. c \in Partial(Tids, Names)
  BY <1>3, WithoutPartial
<1>5. DOMAIN c = DOMAIN d.comms \ {tid}
  BY DEF Without, Restrict
<1> HIDE DEF c
<1>6. e = [d EXCEPT !.maps = d.maps, !.unwind = d.unwind, !.comms = c]
  BY <1>3 DEF Session
<1> HIDE DEF e
<1>7. /\ Tidy(e, H)
      /\ e.threads = d.threads /\ e.comms = c
  <2>1. Tidy([d EXCEPT !.maps = d.maps, !.unwind = d.unwind, !.comms = c], H)
    BY <1>2, <1>3, <1>4, EditTidy
  <2> QED
    BY <1>3, <1>6, <2>1 DEF Session
<1>8. /\ Tidy(r, H)
      /\ r.threads = e.threads /\ r.comms = e.comms /\ r.retired = {}
  BY <1>7, PurgeTidy
<1> HIDE DEF r
<1>9. Calm(r, H)
  BY <1>1, <1>2, <1>5, <1>7, <1>8 DEF Calm
<1>10. r = RemoveThread(s, tid)
  BY DEF r, e, c, d, RemoveThread
<1> QED
  BY <1>2, <1>7, <1>8, <1>9, <1>10

-----------------------------------------------------------------------------
(* The records.                                                              *)

\* A record that edits nothing of the threads keeps them.
LEMMA KeepsAll ==
  ASSUME NEW s, NEW r, r.threads = s.threads
  PROVE  Keeps(s, r)
  BY DEF Keeps

\* An MMAP: the memo of the group that is mapped over is cleared.
LEMMA MapCalm ==
  ASSUME IdsAssumption, NEW s, Calm(s, {}), NEW g \in DOMAIN s.references \cup {Unknown},
         NEW image \in Images
  PROVE  LET r == [ClearMemo(s, g) EXCEPT !.maps = Put(@, g, image)]
         IN Calm(r, {}) /\ r.threads = s.threads
<1> DEFINE m == Put(s.maps, g, image)
           u == IF g \in DOMAIN s.unwind THEN [s.unwind EXCEPT ![g] = None] ELSE s.unwind
           r == [s EXCEPT !.maps = m, !.unwind = u, !.comms = s.comms]
<1>1. Tidy(s, {}) /\ s.retired = {} /\ DOMAIN s.comms \subseteq DOMAIN s.threads
  BY DEF Calm
<1>2. /\ s \in Session
      /\ s.maps \in Partial(Buckets, Images) /\ s.unwind \in Partial(Keys, Images \cup {None})
      /\ s.comms \in Partial(Tids, Names)
      /\ DOMAIN s.maps \subseteq DOMAIN s.references \cup s.retired \cup {Unknown}
      /\ DOMAIN s.unwind \subseteq DOMAIN s.references \cup s.retired
      /\ \A x \in DOMAIN s.unwind :
           s.unwind[x] # None => x \in DOMAIN s.maps /\ s.unwind[x] = s.maps[x]
  BY <1>1, Unedited
<1>3. m \in Partial(Buckets, Images)
  <2>1. g \in Buckets
    BY <1>2, Fields, PartialFunctions DEF Buckets
  <2> QED
    BY <1>2, <2>1, PutPartial
<1>4. u \in Partial(Keys, Images \cup {None})
  <2>1. CASE g \in DOMAIN s.unwind
    <3>1. [s.unwind EXCEPT ![g] = None] \in Partial(Keys, Images \cup {None})
      BY <1>2, <2>1, ExceptPartial
    <3> QED
      BY <2>1, <3>1
  <2> QED
    BY <1>2, <2>1
<1>5. /\ DOMAIN m = DOMAIN s.maps \cup {g}
      /\ \A x \in DOMAIN s.maps : x # g => m[x] = s.maps[x]
  BY DEF Put
<1>6. /\ DOMAIN u = DOMAIN s.unwind
      /\ \A x \in DOMAIN u : u[x] # None => x # g /\ u[x] = s.unwind[x]
  <2>1. s.unwind \in [DOMAIN s.unwind -> Images \cup {None}]
    BY <1>2, PartialFunctions
  <2> QED
    BY <2>1
<1>7. r = [ClearMemo(s, g) EXCEPT !.maps = Put(@, g, image)]
  <2>1. CASE g \in DOMAIN s.unwind
    BY <1>2, <2>1 DEF ClearMemo, Session
  <2>2. CASE g \notin DOMAIN s.unwind
    BY <1>2, <2>2 DEF ClearMemo, Session
  <2> QED
    BY <2>1, <2>2
<1> HIDE DEF m, u
<1>8. Tidy(r, {})
  <2>1. DOMAIN m \subseteq DOMAIN s.references \cup s.retired \cup {Unknown}
    BY <1>2, <1>5
  <2>2. DOMAIN u \subseteq DOMAIN s.references \cup s.retired
    BY <1>2, <1>6
  <2>3. \A x \in DOMAIN u : u[x] # None => x \in DOMAIN m /\ u[x] = m[x]
    BY <1>2, <1>5, <1>6
  <2> QED
    BY <1>1, <1>2, <1>3, <1>4, <2>1, <2>2, <2>3, EditTidy
<1>9. r.threads = s.threads /\ r.retired = s.retired /\ r.comms = s.comms
  BY <1>2 DEF Session
<1> HIDE DEF r
<1>10. Calm(r, {})
  BY <1>1, <1>8, <1>9 DEF Calm
<1> QED
  BY <1>7, <1>9, <1>10

\* An unwind: the memo it leaves is computed from what is mapped.
LEMMA MemoCalm ==
  ASSUME IdsAssumption, NEW s, Calm(s, {}), NEW g \in DOMAIN s.references,
         NEW memo \in MemoAfter(s, g)
  PROVE  LET r == [s EXCEPT !.unwind = Put(@, g, memo)]
         IN Calm(r, {}) /\ r.threads = s.threads
<1> DEFINE u == Put(s.unwind, g, memo)
           r == [s EXCEPT !.maps = s.maps, !.unwind = u, !.comms = s.comms]
<1>1. Tidy(s, {}) /\ s.retired = {} /\ DOMAIN s.comms \subseteq DOMAIN s.threads
  BY DEF Calm
<1>2. /\ s \in Session
      /\ s.maps \in Partial(Buckets, Images) /\ s.unwind \in Partial(Keys, Images \cup {None})
      /\ s.comms \in Partial(Tids, Names)
      /\ DOMAIN s.maps \subseteq DOMAIN s.references \cup s.retired \cup {Unknown}
      /\ DOMAIN s.unwind \subseteq DOMAIN s.references \cup s.retired
      /\ \A x \in DOMAIN s.unwind :
           s.unwind[x] # None => x \in DOMAIN s.maps /\ s.unwind[x] = s.maps[x]
  BY <1>1, Unedited
<1>3. memo # None => g \in DOMAIN s.maps /\ memo = s.maps[g]
  BY <1>2 DEF MemoAfter
<1>4. u \in Partial(Keys, Images \cup {None})
  <2>1. g \in Keys /\ s.maps \in [DOMAIN s.maps -> Images]
    BY <1>2, Fields, PartialFunctions
  <2>2. memo \in Images \cup {None}
    BY <1>3, <2>1
  <2> QED
    BY <1>2, <2>1, <2>2, PutPartial
<1>5. /\ DOMAIN u = DOMAIN s.unwind \cup {g} /\ u[g] = memo
      /\ \A x \in DOMAIN s.unwind : x # g => u[x] = s.unwind[x]
  BY DEF Put
<1>6. r = [s EXCEPT !.unwind = Put(@, g, memo)]
  BY <1>2 DEF Session
<1> HIDE DEF u
<1>7. Tidy(r, {})
  <2>1. DOMAIN u \subseteq DOMAIN s.references \cup s.retired
    BY <1>2, <1>5
  <2>2. \A x \in DOMAIN u : u[x] # None => x \in DOMAIN s.maps /\ u[x] = s.maps[x]
    BY <1>2, <1>3, <1>5
  <2> QED
    BY <1>1, <1>2, <1>4, <2>1, <2>2, EditTidy
<1>8. r.threads = s.threads /\ r.retired = s.retired /\ r.comms = s.comms
  BY <1>2 DEF Session
<1> HIDE DEF r
<1>9. Calm(r, {})
  BY <1>1, <1>7, <1>8 DEF Calm
<1> QED
  BY <1>6, <1>8, <1>9

\* clone_pid_mappings: the child's group is new and has no memo of its mappings.
LEMMA CloneCalm ==
  ASSUME IdsAssumption, NEW s, NEW H, Calm(s, H), NEW from,
         NEW to \in DOMAIN s.references, to \notin DOMAIN s.unwind
  PROVE  LET r == CloneMappings(s, from, to)
         IN Calm(r, H) /\ r.threads = s.threads /\ r.unwind = s.unwind
<1> DEFINE m == IF from \in DOMAIN s.maps THEN Put(s.maps, to, s.maps[from])
                                          ELSE Without(s.maps, {to})
           r == [s EXCEPT !.maps = m, !.unwind = s.unwind, !.comms = s.comms]
<1>1. Tidy(s, H) /\ s.retired = {} /\ DOMAIN s.comms \subseteq DOMAIN s.threads
  BY DEF Calm
<1>2. /\ s \in Session
      /\ s.maps \in Partial(Buckets, Images) /\ s.unwind \in Partial(Keys, Images \cup {None})
      /\ s.comms \in Partial(Tids, Names)
      /\ DOMAIN s.maps \subseteq DOMAIN s.references \cup s.retired \cup {Unknown}
      /\ DOMAIN s.unwind \subseteq DOMAIN s.references \cup s.retired
      /\ \A x \in DOMAIN s.unwind :
           s.unwind[x] # None => x \in DOMAIN s.maps /\ s.unwind[x] = s.maps[x]
  BY <1>1, Unedited
<1>3. m \in Partial(Buckets, Images)
  <2>1. to \in Buckets /\ s.maps \in [DOMAIN s.maps -> Images]
    BY <1>2, Fields, PartialFunctions DEF Buckets
  <2>2. CASE from \in DOMAIN s.maps
    <3>1. Put(s.maps, to, s.maps[from]) \in Partial(Buckets, Images)
      BY <1>2, <2>1, <2>2, PutPartial
    <3> QED
      BY <2>2, <3>1
  <2>3. CASE from \notin DOMAIN s.maps
    <3>1. Without(s.maps, {to}) \in Partial(Buckets, Images)
      BY <1>2, WithoutPartial
    <3> QED
      BY <2>3, <3>1
  <2> QED
    BY <2>2, <2>3
<1>4. /\ DOMAIN m \subseteq DOMAIN s.maps \cup {to}
      /\ \A x \in DOMAIN s.maps : x # to => x \in DOMAIN m /\ m[x] = s.maps[x]
  BY DEF Put, Without, Restrict
<1>5. from # to => r = CloneMappings(s, from, to)
  <2>1. CASE from \in DOMAIN s.maps
    <3>1. m = Put(s.maps, to, s.maps[from])
      BY <2>1
    <3> HIDE DEF m
    <3> QED
      BY <1>2, <2>1, <3>1 DEF CloneMappings, Session
  <2>2. CASE from \notin DOMAIN s.maps
    <3>1. m = Without(s.maps, {to})
      BY <2>2
    <3> HIDE DEF m
    <3> QED
      BY <1>2, <2>2, <3>1 DEF CloneMappings, Session
  <2> QED
    BY <2>1, <2>2
<1> HIDE DEF m
<1>6. Tidy(r, H)
  <2>1. DOMAIN m \subseteq DOMAIN s.references \cup s.retired \cup {Unknown}
    BY <1>2, <1>4
  <2>2. \A x \in DOMAIN s.unwind : s.unwind[x] # None => x \in DOMAIN m /\ s.unwind[x] = m[x]
    BY <1>2, <1>4
  <2> QED
    BY <1>1, <1>2, <1>3, <2>1, <2>2, EditTidy
<1>7. /\ r.threads = s.threads /\ r.retired = s.retired /\ r.comms = s.comms
      /\ r.unwind = s.unwind
  BY <1>2 DEF Session
<1> HIDE DEF r
<1>8. Calm(r, H)
  BY <1>1, <1>6, <1>7 DEF Calm
<1> QED
  BY <1>5, <1>7, <1>8 DEF CloneMappings

\* A FORK: its parent, put into the process the record names, keeps its group
\* until the child has one; a new process starts in a group of its own.
LEMMA ForkCalm ==
  ASSUME IdsAssumption, NEW s, Calm(s, {}), NEW f \in Forks
  PROVE  LET r == ApplyFork(s, f) IN
         /\ Calm(r, {}) /\ f.tid \in DOMAIN r.threads
         /\ r.threads[f.tid].pid = f.tid =>
              /\ Users(r, r.threads[f.tid].maps) = {f.tid}
              /\ r.threads[f.tid].maps \notin DOMAIN r.unwind
         /\ \A t \in DOMAIN s.threads \cap DOMAIN r.threads : t # f.tid =>
              \/ s.threads[t].pid = Unknown
              \/ r.threads[t] = s.threads[t]
              \/ r.threads[t].pid # s.threads[t].pid
<1> DEFINE a == IF WrongParent(s, f) THEN RemoveThread(s, f.ptid) ELSE s
           parented == MapsForThread(a, f.ppid, f.ptid)
           parent == Group(parented, f.ptid)
           held == Retain(parented, parent)
           gone == RemoveThread(held, f.tid)
           born == MapsForThread(gone, f.pid, f.tid)
           name == CommOf(parented, f.ptid)
           named == InheritComm(born, f, name)
           cloned == IF f.pid # f.ppid /\ f.clone_maps
                       THEN CloneMappings(named, parent, Group(born, f.tid)) ELSE named
           freed == Release(cloned, parent)
           r == Purge(freed)
<1>1. /\ f.pid \in Ids /\ f.tid \in Ids /\ f.ppid \in Pids /\ f.ptid \in Tids
      /\ f.pid = f.ppid \/ f.tid = f.pid
      /\ f.pid \in Pids /\ f.tid \in Tids /\ Unknown \notin Ids
  <2>1. /\ f.pid \in Ids /\ f.tid \in Ids /\ f.ppid \in Pids /\ f.ptid \in Tids
        /\ f.pid = f.ppid \/ f.tid = f.pid
    BY DEF Forks
  <2>2. Unknown \notin Ids /\ Ids \subseteq Tids
    BY DEF IdsAssumption
  <2> QED
    BY <2>1, <2>2 DEF Pids
<1>2. /\ Calm(a, {}) /\ DOMAIN a.threads \subseteq DOMAIN s.threads
      /\ \A t \in DOMAIN a.threads : a.threads[t] = s.threads[t]
      /\ \A t \in DOMAIN s.threads : t \notin DOMAIN a.threads => t = f.ptid /\ WrongParent(s, f)
  <2>1. CASE WrongParent(s, f)
    <3>1. a = RemoveThread(s, f.ptid)
      BY <2>1
    <3> HIDE DEF a
    <3>2. /\ Calm(a, {})
          /\ DOMAIN a.threads = DOMAIN s.threads \ {f.ptid}
          /\ \A t \in DOMAIN a.threads : a.threads[t] = s.threads[t]
      BY <3>1, RemoveCalm
    <3> QED
      BY <2>1, <3>2
  <2>2. CASE ~WrongParent(s, f)
    <3>1. a = s
      BY <2>2
    <3> HIDE DEF a
    <3> QED
      BY <3>1
  <2> QED
    BY <2>1, <2>2
<1> HIDE DEF a
<1>3. /\ Calm(parented, {}) /\ Keeps(a, parented) /\ f.ptid \in DOMAIN parented.threads
      /\ parent \in DOMAIN parented.references
      /\ f.ptid \notin DOMAIN a.threads => parented.threads[f.ptid].pid = f.ppid
  BY <1>1, <1>2, ForThreadCalm
<1> HIDE DEF parented, parent
<1>4. Calm(held, {parent}) /\ held.threads = parented.threads
  <2>1. /\ Tidy(held, {parent})
        /\ held.threads = parented.threads /\ held.retired = parented.retired
        /\ held.comms = parented.comms
    BY <1>3, HoldTidy DEF Calm
  <2> HIDE DEF held
  <2> QED
    BY <1>3, <2>1 DEF Calm
<1> HIDE DEF held
<1>5. /\ Calm(gone, {parent})
      /\ DOMAIN gone.threads = DOMAIN held.threads \ {f.tid}
      /\ \A t \in DOMAIN gone.threads : gone.threads[t] = held.threads[t]
  BY <1>4, RemoveCalm
<1> HIDE DEF gone
<1>6. /\ Calm(born, {parent}) /\ Keeps(gone, born) /\ f.tid \in DOMAIN born.threads
      /\ Group(born, f.tid) \in DOMAIN born.references
      /\ born.threads[f.tid].pid = f.pid
      /\ f.pid = f.tid => Alone(gone, born, f.tid)
  <2>1. f.tid \notin DOMAIN gone.threads
    BY <1>5
  <2> QED
    BY <1>1, <1>5, <2>1, ForThreadCalm
<1>7. \A t \in DOMAIN gone.threads : t \notin {f.pid, f.tid} => born.threads[t] = gone.threads[t]
  BY <1>1, <1>5, ForThreadCalm
<1> HIDE DEF born
<1>8. name = {} \/ \E n \in Names : name = {n}
  <2>1. parented.comms \in [DOMAIN parented.comms -> Names]
    BY <1>3, Unedited, PartialFunctions DEF Calm
  <2> QED
    BY <2>1 DEF CommOf
<1> HIDE DEF name
<1>9. /\ Calm(named, {parent}) /\ named.threads = born.threads
      /\ named.references = born.references /\ named.unwind = born.unwind
  <2>1. CASE name = {}
    <3>1. named = born
      BY <2>1 DEF InheritComm
    <3> HIDE DEF named
    <3> QED
      BY <1>6, <3>1
  <2>2. CASE name # {}
    <3> DEFINE n == CHOOSE x \in name : TRUE
    <3>1. n \in Names
      BY <1>8, <2>2
    <3> HIDE DEF n
    <3>2. named = [born EXCEPT !.comms = Put(@, f.tid, n)]
      BY <2>2 DEF InheritComm, n
    <3> HIDE DEF named
    <3> QED
      BY <1>1, <1>6, <3>1, <3>2, NameCalm
  <2> QED
    BY <2>1, <2>2
<1> HIDE DEF named
<1>10. Calm(cloned, {parent}) /\ cloned.threads = born.threads /\ cloned.unwind = born.unwind
  <2>1. CASE f.pid # f.ppid /\ f.clone_maps
    <3>1. Group(born, f.tid) \in DOMAIN named.references /\ Group(born, f.tid) \notin DOMAIN named.unwind
      BY <1>1, <1>6, <1>9, <2>1 DEF Alone, Group
    <3>2. cloned = CloneMappings(named, parent, Group(born, f.tid))
      BY <2>1
    <3> HIDE DEF cloned
    <3> QED
      BY <1>9, <3>1, <3>2, CloneCalm
  <2>2. CASE ~(f.pid # f.ppid /\ f.clone_maps)
    <3>1. cloned = named
      BY <2>2
    <3> HIDE DEF cloned
    <3> QED
      BY <1>9, <3>1
  <2> QED
    BY <2>1, <2>2
<1> HIDE DEF cloned
<1>11. /\ Tidy(freed, {})
       /\ freed.threads = cloned.threads /\ freed.unwind = cloned.unwind /\ freed.comms = cloned.comms
  BY <1>10, LetGoTidy DEF Calm
<1> HIDE DEF freed
<1>12. /\ Tidy(r, {})
       /\ r.threads = freed.threads /\ r.comms = freed.comms /\ r.retired = {}
       /\ DOMAIN r.unwind \subseteq DOMAIN freed.unwind
  BY <1>11, PurgeTidy
<1>13. r = ApplyFork(s, f)
  BY DEF r, freed, cloned, named, name, born, gone, held, parent, parented, a, ApplyFork
<1> HIDE DEF r
<1>14. Calm(r, {})
  BY <1>10, <1>11, <1>12 DEF Calm
<1>15. r.threads = born.threads /\ DOMAIN r.unwind \subseteq DOMAIN born.unwind
  BY <1>10, <1>11, <1>12
<1>16. r.threads[f.tid].pid = f.tid =>
         /\ Users(r, r.threads[f.tid].maps) = {f.tid}
         /\ r.threads[f.tid].maps \notin DOMAIN r.unwind
  BY <1>6, <1>15 DEF Alone, Users
<1>17. ASSUME NEW t \in DOMAIN s.threads \cap DOMAIN r.threads, t # f.tid,
              s.threads[t].pid # Unknown, r.threads[t] # s.threads[t]
       PROVE  r.threads[t].pid # s.threads[t].pid
  <2>1. CASE t \in DOMAIN a.threads
    <3>1. parented.threads[t] = s.threads[t] /\ t \in DOMAIN parented.threads
      BY <1>2, <1>3, <1>17, <2>1 DEF Keeps
    <3>2. gone.threads[t] = s.threads[t] /\ t \in DOMAIN gone.threads
      BY <1>4, <1>5, <1>17, <3>1
    <3> QED
      BY <1>6, <1>15, <1>17, <3>2 DEF Keeps
  <2>2. CASE t \notin DOMAIN a.threads
    <3>1. /\ t = f.ptid /\ s.threads[t].pid # f.ppid
          /\ parented.threads[t].pid = f.ppid /\ t \in DOMAIN parented.threads
      BY <1>2, <1>3, <1>17, <2>2 DEF WrongParent
    <3>2. gone.threads[t].pid = f.ppid /\ t \in DOMAIN gone.threads
      BY <1>4, <1>5, <1>17, <3>1
    <3>3. CASE f.pid = f.ppid
      <4>1. born.threads[t] = gone.threads[t]
        BY <1>1, <1>6, <3>2, <3>3 DEF Keeps
      <4> QED
        BY <1>15, <3>1, <3>2, <4>1
    <3>4. CASE f.tid = f.pid
      <4>1. born.threads[t] = gone.threads[t]
        BY <1>7, <1>17, <3>2, <3>4
      <4> QED
        BY <1>15, <3>1, <3>2, <4>1
    <3> QED
      BY <1>1, <3>3, <3>4
  <2> QED
    BY <2>1, <2>2
<1>18. f.tid \in DOMAIN r.threads
  BY <1>6, <1>15
<1> QED
  BY <1>13, <1>14, <1>16, <1>17, <1>18

-----------------------------------------------------------------------------
(* The invariant.                                                            *)

\* Between records the session is calm, and the process a FORK has just created
\* is alone in its group.
IInv == Calm(session, {}) /\ child \in Ids \cup {Unknown} /\ ForkIsolates

\* No thread, no group, nothing kept.
LEMMA InitInv ==
  ASSUME IdsAssumption, Init
  PROVE  IInv
<1> DEFINE s == session
<1>1. /\ s.threads = Empty /\ s.references = Empty /\ s.next_key = 0 /\ s.retired = {}
      /\ s.maps = Empty /\ s.unwind = Empty /\ s.comms = Empty /\ child = Unknown
      /\ s = [threads |-> s.threads, references |-> s.references, next_key |-> s.next_key,
              retired |-> s.retired, maps |-> s.maps, unwind |-> s.unwind, comms |-> s.comms]
  BY DEF Init
<1>2. DOMAIN Empty = {}
  BY DEF Empty
<1>3. \A S, T : Empty \in Partial(S, T)
  BY <1>2, PartialFunctions DEF Empty
<1>4. s \in Session
  <2>1. 0 \in Buckets
    BY DEF Buckets, Keys, IdsAssumption
  <2> HIDE DEF s
  <2> QED
    BY <1>1, <1>3, <2>1, Fields
<1> HIDE DEF s
<1>5. Counted(s, {}) /\ Owned(s) /\ Fresh(s)
  BY <1>1, <1>2 DEF Counted, Owned, Fresh, GroupsOf
<1>6. Calm(s, {})
  BY <1>1, <1>2, <1>4, <1>5 DEF Calm, Tidy
<1> QED
  BY <1>1, <1>6 DEF IInv, ForkIsolates, s

\* A record that is no FORK: no thread is new to the history.
LEMMA BecomesInv ==
  ASSUME IInv, NEW s, Calm(s, {}), Becomes(s)
  PROVE  IInv'
  BY DEF IInv, Becomes, ForkIsolates

\* A thread that stays and does not change, or that goes, is not moved.
LEMMA KeepsStays ==
  ASSUME NEW s, Becomes(s), Keeps(session, s)
  PROVE  StaysPut
  BY DEF Becomes, StaysPut, Keeps

\* One case per record kind: each is maps_for_thread and what follows it.
LEMMA Step ==
  ASSUME IdsAssumption, IInv, [Next]_vars
  PROVE  IInv' /\ StaysPut
<1>1. Calm(session, {}) /\ {} \subseteq {0}
  BY DEF IInv
<1>2. ASSUME NEW pid \in Pids, NEW tid \in Tids
      PROVE  LET r == MapsForThread(session, pid, tid) IN
             /\ Calm(r, {}) /\ Keeps(session, r) /\ tid \in DOMAIN r.threads
             /\ Group(r, tid) \in DOMAIN r.references
  BY <1>1, ForThreadCalm
<1>3. CASE Comm
  <2>1. PICK pid \in Pids, tid \in Tids, name \in Names :
          Becomes(ApplyComm(session, pid, tid, name))
    BY <1>3 DEF Comm
  <2> DEFINE k == MapsForThread(session, pid, tid)
             r == [k EXCEPT !.comms = Put(@, tid, name)]
  <2>2. Calm(k, {}) /\ Keeps(session, k) /\ tid \in DOMAIN k.threads
    BY <1>2
  <2>3. r = ApplyComm(session, pid, tid, name)
    BY DEF ApplyComm
  <2> HIDE DEF k
  <2>4. Calm(r, {}) /\ r.threads = k.threads
    BY <2>2, NameCalm
  <2> HIDE DEF r
  <2>5. Keeps(session, r)
    BY <2>2, <2>4 DEF Keeps
  <2> QED
    BY <2>1, <2>3, <2>4, <2>5, BecomesInv, KeepsStays
<1>4. CASE Mmap
  <2>1. PICK pid \in Pids, tid \in Tids, image \in Images :
          Becomes(ApplyMmap(session, pid, tid, image))
    BY <1>4 DEF Mmap
  <2> DEFINE k == IF pid = Unknown THEN session ELSE MapsForThread(session, pid, tid)
             g == IF pid = Unknown THEN Unknown ELSE Group(k, tid)
             r == [ClearMemo(k, g) EXCEPT !.maps = Put(@, g, image)]
  <2>2. Calm(k, {}) /\ Keeps(session, k) /\ g \in DOMAIN k.references \cup {Unknown}
    <3>1. CASE pid = Unknown
      BY <1>1, <3>1, KeepsAll
    <3>2. CASE pid # Unknown
      BY <1>2, <3>2
    <3> QED
      BY <3>1, <3>2
  <2>3. r = ApplyMmap(session, pid, tid, image)
    BY DEF ApplyMmap
  <2> HIDE DEF k, g
  <2>4. Calm(r, {}) /\ r.threads = k.threads
    BY <2>2, MapCalm
  <2> HIDE DEF r
  <2>5. Keeps(session, r)
    BY <2>2, <2>4 DEF Keeps
  <2> QED
    BY <2>1, <2>3, <2>4, <2>5, BecomesInv, KeepsStays
<1>5. CASE Fork
  <2>1. PICK f \in Forks : session' = ApplyFork(session, f) /\ child' = f.tid
    BY <1>5 DEF Fork
  <2> DEFINE r == ApplyFork(session, f)
  <2>2. /\ Calm(r, {}) /\ f.tid \in DOMAIN r.threads
        /\ r.threads[f.tid].pid = f.tid =>
             /\ Users(r, r.threads[f.tid].maps) = {f.tid}
             /\ r.threads[f.tid].maps \notin DOMAIN r.unwind
        /\ \A t \in DOMAIN session.threads \cap DOMAIN r.threads : t # f.tid =>
             \/ session.threads[t].pid = Unknown
             \/ r.threads[t] = session.threads[t]
             \/ r.threads[t].pid # session.threads[t].pid
    BY <1>1, ForkCalm
  <2>3. f.tid \in Ids /\ f.tid # Unknown
    BY DEF Forks, IdsAssumption
  <2> HIDE DEF r
  <2>4. session' = r /\ child' = f.tid
    BY <2>1 DEF r
  <2>5. ForkIsolates'
    BY <2>2, <2>4 DEF ForkIsolates, Members, Users
  <2>6. StaysPut
    BY <2>2, <2>3, <2>4 DEF StaysPut
  <2> QED
    BY <2>2, <2>3, <2>4, <2>5, <2>6 DEF IInv
<1>6. CASE Exit
  <2>1. PICK tid \in Tids : Becomes(ApplyExit(session, tid))
    BY <1>6 DEF Exit
  <2> DEFINE r == ApplyExit(session, tid)
  <2>2. /\ Calm(r, {})
        /\ \A t \in DOMAIN r.threads \cap DOMAIN session.threads : r.threads[t] = session.threads[t]
    <3>1. CASE KeepExited
      BY <1>1, <3>1 DEF ApplyExit
    <3>2. CASE ~KeepExited
      <4>1. r = RemoveThread(session, tid)
        BY <3>2 DEF ApplyExit
      <4> HIDE DEF r
      <4> QED
        BY <1>1, <4>1, RemoveCalm
    <3> QED
      BY <3>1, <3>2
  <2> HIDE DEF r
  <2>3. Becomes(r)
    BY <2>1 DEF r
  <2>4. StaysPut
    BY <2>2, <2>3 DEF StaysPut, Becomes
  <2> QED
    BY <2>2, <2>3, <2>4, BecomesInv
<1>7. CASE Sample
  <2>1. PICK pid \in Pids, tid \in Tids : Becomes(MapsForThread(session, pid, tid))
    BY <1>7 DEF Sample
  <2> QED
    BY <1>2, <2>1, BecomesInv, KeepsStays
<1>8. CASE Unwind
  <2>1. PICK pid \in Pids, tid \in Tids :
          LET s == MapsForThread(session, pid, tid)
              g == Group(s, tid)
          IN \E memo \in MemoAfter(s, g) : Becomes([s EXCEPT !.unwind = Put(@, g, memo)])
    BY <1>8 DEF Unwind
  <2> DEFINE k == MapsForThread(session, pid, tid)
             g == Group(k, tid)
  <2>2. Calm(k, {}) /\ Keeps(session, k) /\ g \in DOMAIN k.references
    BY <1>2
  <2> HIDE DEF k, g
  <2>3. PICK memo \in MemoAfter(k, g) : Becomes([k EXCEPT !.unwind = Put(@, g, memo)])
    BY <2>1 DEF k, g
  <2> DEFINE r == [k EXCEPT !.unwind = Put(@, g, memo)]
  <2>4. Calm(r, {}) /\ r.threads = k.threads
    BY <2>2, MemoCalm
  <2> HIDE DEF r
  <2>5. Keeps(session, r)
    BY <2>2, <2>4 DEF Keeps
  <2> QED
    BY <2>3, <2>4, <2>5, BecomesInv, KeepsStays DEF r
<1>9. CASE UNCHANGED vars
  BY <1>9 DEF IInv, ForkIsolates, Members, StaysPut, vars
<1> QED
  BY <1>3, <1>4, <1>5, <1>6, <1>7, <1>8, <1>9 DEF Next

\* Between records nothing is held or retired, so the counts are exact.
LEMMA InvHolds ==
  ASSUME IdsAssumption, IInv
  PROVE  CountsExact /\ GroupsIsolated
<1>1. /\ Tidy(session, {}) /\ session.retired = {}
      /\ DOMAIN session.comms \subseteq DOMAIN session.threads
      /\ session \in Session /\ Counted(session, {}) /\ Owned(session) /\ Fresh(session)
  BY DEF IInv, Calm, Tidy
<1>2. CountsExact
  <2>1. \A g : Cardinality(Members(g)) \in Nat /\ Members(g) = Users(session, g)
    BY <1>1, FewThreads DEF Members, Users
  <2> QED
    BY <1>1, <2>1 DEF CountsExact, Counted, GroupsOf
<1>3. TypeOK
  BY <1>1, Fields, FewThreads, PartialFunctions DEF TypeOK
<1>4. NothingOutlives /\ MemoFresh /\ NamesOwned
  BY <1>1 DEF NothingOutlives, MemoFresh, NamesOwned, Owned, Fresh
<1> QED
  BY <1>2, <1>3, <1>4 DEF IInv, GroupsIsolated

\* CountsExact: reference counts are exact between records, whatever processes and threads the
\* records name, in whatever order, and however often keys and ids are used again.
THEOREM CountsAreExact ==
  ASSUME IdsAssumption
  PROVE  Spec => []CountsExact
<1>1. Init => IInv
  BY InitInv
<1>2. IInv /\ [Next]_vars => IInv'
  BY Step
<1>3. IInv => CountsExact
  BY InvHolds
<1> QED
  BY <1>1, <1>2, <1>3, PTL DEF Spec

\* GroupsIsolated: what is kept for a group or a thread belongs to it alone: it dies
\* with its owner, is current, and a new process has a group of its own.
THEOREM GroupsAreIsolated ==
  ASSUME IdsAssumption
  PROVE  Spec => []GroupsIsolated
<1>1. Init => IInv
  BY InitInv
<1>2. IInv /\ [Next]_vars => IInv'
  BY Step
<1>3. IInv => GroupsIsolated
  BY InvHolds
<1> QED
  BY <1>1, <1>2, <1>3, PTL DEF Spec

\* NotMoved: only a FORK moves a thread whose pid is known.
THEOREM ThreadsStayPut ==
  ASSUME IdsAssumption
  PROVE  Spec => NotMoved
<1>1. Init => IInv
  BY InitInv
<1>2. IInv /\ [Next]_vars => IInv' /\ StaysPut
  BY Step
<1> QED
  BY <1>1, <1>2, PTL DEF Spec, NotMoved
=============================================================================
