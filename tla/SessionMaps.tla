----------------------------- MODULE SessionMaps -----------------------------
(***************************************************************************)
(* The replay's book-keeping of threads: ThreadMaps of                     *)
(* src/perfdata/fold/threads.rs and the SessionState of                    *)
(* src/perfdata/fold.rs that applies COMM, MMAP, FORK, EXIT and SAMPLE     *)
(* records to it.                                                          *)
(*                                                                         *)
(* Threads share reference-counted map groups.  A group's key is the pid   *)
(* where that is free and an internal number otherwise; mappings and       *)
(* unwinder state are filed under the key and must go when the last thread *)
(* of the group does, because the key is used again.                       *)
(*                                                                         *)
(* A record is applied atomically, by operators over the session record.   *)
(* A group's mappings are one image (MmapTable has the ranges), its        *)
(* unwinder state is the image its leaf-only memo was computed from.       *)
(***************************************************************************)
EXTENDS Integers, FiniteSets, Functions

CONSTANTS
  Ids,          \* process ids that occur
  Tids,         \* thread ids that occur
  Unknown,      \* u32::MAX: no pid known, and the kernel's bucket
  Images,       \* what can be mapped
  Names,        \* thread names
  None,         \* no image
  KeepExited    \* keep_exited_threads (the recording has AUX trace data)

IdsAssumption ==
  /\ Unknown \in Nat
  /\ IsFiniteSet(Ids) /\ Ids \subseteq 0 .. Unknown - 1
  /\ Ids \subseteq Tids /\ Tids \subseteq Ids \cup {Unknown}
  /\ Cardinality(Tids) + 1 < Unknown     \* a free key always exists
  /\ None \notin Images /\ KeepExited \in BOOLEAN

VARIABLES session, child    \* history: the thread a FORK just created
vars == <<session, child>>

Pids == Ids \cup {Unknown}
Keys == 0 .. Unknown - 1
Buckets == Keys \cup {Unknown}

Thread == [pid : Pids, maps : Keys]
Partial(S, T) == UNION {[D -> T] : D \in SUBSET S}
Session ==
  [threads : Partial(Tids, Thread), references : Partial(Keys, Nat),
   next_key : Buckets, retired : SUBSET Keys,
   maps : Partial(Buckets, Images), unwind : Partial(Keys, Images \cup {None}),
   comms : Partial(Tids, Names)]

Without(f, S) == Restrict(f, DOMAIN f \ S)
Put(f, x, v) == [y \in DOMAIN f \cup {x} |-> IF y = x THEN v ELSE f[y]]

-----------------------------------------------------------------------------
(* ThreadMaps. *)

Taken(s, k) == k \in DOMAIN s.references \/ k \in s.retired \/ k = Unknown

\* The first key from next_key on, wrapping, that nobody uses.
Wrap(k) == k % (Unknown + 1)
FreeKey(s) ==
  Wrap(s.next_key + (CHOOSE d \in Buckets :
         /\ ~Taken(s, Wrap(s.next_key + d))
         /\ \A e \in 0 .. d - 1 : Taken(s, Wrap(s.next_key + e))))

KeepsPid(s, pid) == pid # Unknown /\ ~Taken(s, pid)

\* new_group: the key, and the session in which it exists, unreferenced.
NewKey(s, pid) == IF KeepsPid(s, pid) THEN pid ELSE FreeKey(s)
WithGroup(s, pid) ==
  [s EXCEPT !.references = Put(@, NewKey(s, pid), 0),
            !.next_key = IF KeepsPid(s, pid) THEN @ ELSE Wrap(FreeKey(s) + 1)]

Retain(s, g) == [s EXCEPT !.references[g] = @ + 1]

Release(s, g) ==
  IF s.references[g] = 1
    THEN [s EXCEPT !.references = Without(@, {g}), !.retired = @ \cup {g}]
    ELSE [s EXCEPT !.references[g] = @ - 1]

Remove(s, tid) ==
  IF tid \in DOMAIN s.threads
    THEN Release([s EXCEPT !.threads = Without(@, {tid})], s.threads[tid].maps)
    ELSE s

Insert(s, tid, pid, g) ==
  Retain([s EXCEPT !.threads = Put(@, tid, [pid |-> pid, maps |-> g])], g)

\* A thread that starts a group of its own.
Solo(s, pid, tid) == Insert(WithGroup(s, pid), tid, pid, NewKey(s, pid))

\* The thread stays as it is.  Mutant: also required to have the record's pid.
SettledSamePid(s, pid, tid) ==
  tid \in DOMAIN s.threads /\ (s.threads[tid].pid = pid \/ pid = Unknown)
Settled(s, pid, tid) ==
  tid \in DOMAIN s.threads /\ (s.threads[tid].pid # Unknown \/ pid = Unknown)

\* find_or_create(pid, pid) for a known pid: a leader whose pid was unknown is
\* promoted in its group.
WithLeader(s, pid) ==
  IF Settled(s, pid, pid) THEN s
  ELSE IF pid \in DOMAIN s.threads THEN [s EXCEPT !.threads[pid].pid = pid]
  ELSE Solo(s, pid, pid)

\* find_or_create: a thread whose pid becomes known joins its leader's group.
WithThread(s, pid, tid) ==
  IF Settled(s, pid, tid) THEN s
  ELSE IF pid = tid /\ pid # Unknown THEN WithLeader(s, pid)
  ELSE IF pid = Unknown THEN Solo(s, pid, tid)
  ELSE LET led == WithLeader(Remove(s, tid), pid)
       IN Insert(led, tid, pid, led.threads[pid].maps)

Group(s, tid) == s.threads[tid].maps

-----------------------------------------------------------------------------
(* SessionState. *)

\* release_retired_map_groups.  Mutant: the unwinder state is forgotten.
PurgeMapsOnly(s) == [s EXCEPT !.maps = Without(@, s.retired), !.retired = {}]
Purge(s) ==
  IF s.retired = {} THEN s
  ELSE [s EXCEPT !.maps = Without(@, s.retired), !.unwind = Without(@, s.retired), !.retired = {}]

MapsForThread(s, pid, tid) == Purge(WithThread(s, pid, tid))

\* remove_thread.
RemoveThread(s, tid) ==
  LET r == Remove(s, tid) IN Purge([r EXCEPT !.comms = Without(@, {tid})])

\* clear_mapping_dependent_unwind_memo.
ClearMemo(s, g) == IF g \in DOMAIN s.unwind THEN [s EXCEPT !.unwind[g] = None] ELSE s

ApplyComm(s, pid, tid, name) ==
  [MapsForThread(s, pid, tid) EXCEPT !.comms = Put(@, tid, name)]

\* The three MMAP records; one without a pid goes to the kernel's bucket.
ApplyMmap(s, pid, tid, image) ==
  LET known == IF pid = Unknown THEN s ELSE MapsForThread(s, pid, tid)
      g == IF pid = Unknown THEN Unknown ELSE Group(known, tid)
  IN [ClearMemo(known, g) EXCEPT !.maps = Put(@, g, image)]

\* clone_pid_mappings(parent, child) replaces the child's bucket.
CloneMappings(s, from, to) ==
  IF from = to THEN s
  ELSE IF from \in DOMAIN s.maps
    THEN [s EXCEPT !.maps = Put(@, to, s.maps[from])]
    ELSE [s EXCEPT !.maps = Without(@, {to})]

\* inherit_fork_comm; the child of a thread with the same id keeps its name.
InheritComm(s, f, name) ==
  IF name # {} THEN [s EXCEPT !.comms = Put(@, f.tid, CHOOSE n \in name : TRUE)] ELSE s
CommOf(s, tid) == IF tid \in DOMAIN s.comms THEN {s.comms[tid]} ELSE {}

WrongParent(s, f) ==
  f.ptid \in DOMAIN s.threads /\ s.threads[f.ptid].pid \notin {Unknown, f.ppid}

\* apply_fork_record: the parent's group is held while the child id's old thread
\* goes and the new one comes.
ApplyFork(s, f) ==
  LET parented == MapsForThread(IF WrongParent(s, f) THEN RemoveThread(s, f.ptid) ELSE s,
                                f.ppid, f.ptid)
      parent   == Group(parented, f.ptid)
      name     == CommOf(parented, f.ptid)
      born     == MapsForThread(RemoveThread(Retain(parented, parent), f.tid), f.pid, f.tid)
      named    == InheritComm(born, f, name)
      cloned   == IF f.pid # f.ppid /\ f.clone_maps
                    THEN CloneMappings(named, parent, Group(born, f.tid)) ELSE named
  IN Purge(Release(cloned, parent))

ApplyExit(s, tid) == IF KeepExited THEN s ELSE RemoveThread(s, tid)

\* prepare_parsed_sample_for_fold: the thread's group, and perhaps an unwind in
\* it.  Reporting a module clears the memo, or_insert_with keeps an entry.
MemoAfter(s, g) ==
  IF g \in DOMAIN s.maps
    THEN {None, s.maps[g],
          IF g \in DOMAIN s.unwind /\ s.unwind[g] # None THEN s.unwind[g] ELSE s.maps[g]}
    ELSE {IF g \in DOMAIN s.unwind THEN s.unwind[g] ELSE None}

-----------------------------------------------------------------------------
(* Records.  The kernel's FORK is a new thread of the parent's process or a    *)
(* new process led by the new thread.                                          *)

Forks == {f \in [pid : Ids, tid : Ids, ppid : Pids, ptid : Tids, clone_maps : BOOLEAN] :
            \/ f.pid = f.ppid /\ ~f.clone_maps
            \/ f.pid # f.ppid /\ f.tid = f.pid}

Becomes(s) == session' = s /\ child' = Unknown

Comm == \E pid \in Pids, tid \in Tids, name \in Names : Becomes(ApplyComm(session, pid, tid, name))
Mmap == \E pid \in Pids, tid \in Tids, image \in Images : Becomes(ApplyMmap(session, pid, tid, image))
Fork == \E f \in Forks :
          /\ session' = ApplyFork(session, f)
          /\ child' = f.tid
Exit == \E tid \in Tids : Becomes(ApplyExit(session, tid))
Sample == \E pid \in Pids, tid \in Tids : Becomes(MapsForThread(session, pid, tid))
Unwind ==
  \E pid \in Pids, tid \in Tids :
    LET s == MapsForThread(session, pid, tid)
        g == Group(s, tid)
    IN \E memo \in MemoAfter(s, g) : Becomes([s EXCEPT !.unwind = Put(@, g, memo)])

Empty == [x \in {} |-> x]
Init ==
  /\ session = [threads |-> Empty, references |-> Empty, next_key |-> 0, retired |-> {},
                maps |-> Empty, unwind |-> Empty, comms |-> Empty]
  /\ child = Unknown

Next == Comm \/ Mmap \/ Fork \/ Exit \/ Sample \/ Unwind

Spec == Init /\ [][Next]_vars

-----------------------------------------------------------------------------
(* Properties. *)

Members(g) == {t \in DOMAIN session.threads : session.threads[t].maps = g}

\* Every field keeps its type.
TypeOK ==
  /\ DOMAIN session.threads \subseteq Tids
  /\ \A t \in DOMAIN session.threads : session.threads[t] \in Thread
  /\ DOMAIN session.references \subseteq Keys
  /\ session.next_key \in Buckets
  /\ DOMAIN session.maps \subseteq Buckets /\ DOMAIN session.unwind \subseteq Keys
  /\ DOMAIN session.comms \subseteq Tids

\* Reference counts are exact between records: the groups counted are those of
\* the threads, each by its number of threads ("live map group").
CountsExact ==
  /\ session.retired = {}
  /\ DOMAIN session.references = {session.threads[t].maps : t \in DOMAIN session.threads}
  /\ \A g \in DOMAIN session.references : session.references[g] = Cardinality(Members(g))

\* Mappings and unwinder state never outlive their group, so a key that is used
\* again starts with an empty address space.
NothingOutlives ==
  /\ DOMAIN session.maps \subseteq DOMAIN session.references \cup {Unknown}
  /\ DOMAIN session.unwind \subseteq DOMAIN session.references

\* The leaf-only memo is never stale: it was computed from the image that is
\* mapped now, although forking replaces a group's mappings without clearing it.
MemoFresh ==
  \A g \in DOMAIN session.unwind :
    session.unwind[g] # None => g \in DOMAIN session.maps /\ session.unwind[g] = session.maps[g]

\* A name is kept only for a thread that exists: a thread id that is used again
\* does not inherit the name of the thread that had it before.
NamesOwned == DOMAIN session.comms \subseteq DOMAIN session.threads

\* Only FORK moves a thread whose pid is known to another group or process: a
\* late record of another thread, even with a contradicting pid, does not.  A
\* FORK moves its child, and a parent it finds in the wrong process.
StaysPut ==
  \A t \in (DOMAIN session.threads \cap DOMAIN session'.threads) \ {child'} :
    \/ session.threads[t].pid = Unknown
    \/ session'.threads[t] = session.threads[t]
    \/ child' # Unknown /\ session'.threads[t].pid # session.threads[t].pid
NotMoved == [][StaysPut]_vars

\* A new process has a group of its own and no unwinder state, whatever thread
\* had its id before and whatever keys are in use.
ForkIsolates ==
  (child # Unknown /\ session.threads[child].pid = child) =>
    LET g == session.threads[child].maps
    IN Members(g) = {child} /\ g \notin DOMAIN session.unwind

\* What is kept for a group or a thread belongs to it alone: it dies with its
\* owner, which the counts tell, is current, and nothing of it is found by the next
\* owner of a key or id; and the variables keep their types.
GroupsIsolated ==
  TypeOK /\ CountsExact /\ NothingOutlives /\ MemoFresh /\ NamesOwned /\ ForkIsolates
=============================================================================
