-------------------------- MODULE KernelSourceProofs --------------------------
(***************************************************************************)
(* The choice between the kernel's sources is the one KernelSource         *)
(* promises, whatever the modules, machines and stacks                     *)
(* (SourcesAreExact).                                                      *)
(*                                                                         *)
(* The invariant says how far loading is: which preparations are left,     *)
(* that a source is selected only when all are known, that kcore is looked *)
(* for before the core is loaded and replaces the others only while they   *)
(* are untouched, and that a source is completed in a context that knows   *)
(* the modules tried before the core (Good).  A frame order is said not to *)
(* matter when no answer can change any more (Settled): each element of a  *)
(* batch then has the answer it has alone, and leaves a resolver that      *)
(* answers alike, so that the order of the elements is lost.               *)
(***************************************************************************)
EXTENDS KernelSource, FunctionTheorems, WellFoundedInduction, NaturalsInduction, TLAPS

-----------------------------------------------------------------------------

\* A set of numbers has a least one.
LEMMA LeastNumber ==
  ASSUME NEW S \in SUBSET Nat, S # {}
  PROVE  \E n \in S : \A m \in S : n <= m
<1>1. PICK n \in S : \A m \in S : ~ (<<m, n>> \in OpToRel(<, Nat))
  BY NatLessThanWellFounded, WFMin, Zenon
<1>2. \A m \in S : ~ (m < n)
  BY <1>1, Zenon DEF OpToRel
<1> QED
  BY <1>2

\* What a resolver is.
Pins == Sources \cup {"none"}
Answers == Pins \cup {"system", "live_rest", "cached_rest"}
Contexts == [modules : SUBSET Modules, loaded : SUBSET Modules]
Resolvers ==
  [cache : BOOLEAN, kcore : {"unset", "none", "loaded"}, active : BOOLEAN, rejected : BOOLEAN,
   pin : Pins \cup {"unset"}, prepared : SUBSET Sources, ordinary : [Sources -> Contexts \cup {None}],
   core_loaded : BOOLEAN, before : SUBSET Modules, context : Contexts \cup {None}, overdrawn : BOOLEAN]

\* The native source that would be chosen with all of them known.
Chosen ==
  IF world.live # "none" THEN "live" ELSE IF world.cached THEN "cached" ELSE "none"

\* Nothing, or the source that counts, has been completed.
Untouched(r) == \A s \in Sources : r.ordinary[s] = None
Completed(r) == r.pin = Chosen /\ (r.pin # "none" => r.ordinary[r.pin] # None)

\* What loading has done so far.
LoadsOK(r) ==
  /\ ~r.overdrawn
  /\ ~r.active => \A s \in Sources : r.ordinary[s] = None => s \in r.prepared
  /\ r.pin # "unset" => r.core_loaded /\ r.pin = Chosen
  /\ ~r.core_loaded => Untouched(r)

\* kcore is looked for when the cache is set up, before the core is loaded.
KcoreOK(r) ==
  /\ r.cache <=> r.kcore # "unset"
  /\ r.core_loaded => r.cache
  /\ r.kcore = "loaded" => world.elf = "none" /\ world.ranges # None
  /\ r.active => kcore_symbols_ref(r) /\ Untouched(r)
  /\ kcore_symbols_ref(r) /\ ~r.active => ~r.core_loaded

\* Without a kernel ELF the core is loaded by completing a source.
CoreOK(r) ==
  /\ world.elf = "none" /\ r.core_loaded /\ ~r.active => Completed(r)
  /\ world.elf = "none" => \A s \in Sources : r.ordinary[s] # None => r.before \subseteq r.ordinary[s].loaded
  /\ r.context # None /\ ~r.active /\ ~r.core_loaded => r.context.loaded = r.before

\* Between requests a context is one of a core that has been loaded.
Base(r) == r \in Resolvers /\ LoadsOK(r) /\ KcoreOK(r) /\ CoreOK(r)
Good(r) == Base(r) /\ (r.context # None => r.core_loaded \/ r.active)

\* What the constants and the machine are.
Given == KernelSourceAssumption /\ world \in Worlds

\* The inductive invariant.
KernelInv ==
  /\ Given /\ delivered \subseteq Targets /\ preprocessed \subseteq Modules
  /\ Good(resolver)

-----------------------------------------------------------------------------

\* What a world says.
LEMMA WorldIs ==
  ASSUME Given
  PROVE  /\ world.live \in {"none", "empty", "full"} /\ world.cached \in BOOLEAN
         /\ world.elf \in {"none", "unusable", "usable"} /\ world.moved \subseteq Modules
         /\ world.ranges # None => world.ranges \subseteq Targets /\ Core \in world.ranges
         /\ \A m \in Modules : world.object[m] \in {"none", "unavailable", "empty", "symbols"}
         /\ Core \notin Modules /\ Core \in Targets
         /\ Chosen \in Pins
BY DEF Given, KernelSourceAssumption, WorldOK, Chosen, Pins, Sources, Targets

\* What a context says.
LEMMA ContextIs ==
  ASSUME Given, NEW c \in Contexts
  PROVE  c # None /\ c.modules \subseteq Modules /\ c.loaded \subseteq Modules
BY DEF Given, KernelSourceAssumption, Contexts

\* kcore is looked for before the core is loaded.
LEMMA MapsGood ==
  ASSUME Given, NEW r, Base(r), NEW i, i = initialize_kernel_maps(r)
  PROVE  /\ Base(i) /\ (Core \in delivered => i.cache)
         /\ i.core_loaded = r.core_loaded /\ i.context = r.context /\ i.active = r.active
         /\ i.before = r.before /\ i.ordinary = r.ordinary
         /\ r.cache => i = r
<1>1. CASE r.kcore # "unset" \/ Core \notin delivered
  BY <1>1 DEF initialize_kernel_maps, Base, KcoreOK
<1>2. CASE r.kcore = "unset" /\ Core \in delivered
  <2>1. PICK k \in {"loaded", "none"} :
          i = [r EXCEPT !.cache = TRUE, !.kcore = k] /\ (k = "loaded"
              => world.elf = "none" /\ world.ranges # None)
    BY <1>2 DEF initialize_kernel_maps
  <2>2. r \in Resolvers
    BY DEF Base
  <2>3. /\ i \in Resolvers /\ i.cache /\ i.kcore = k /\ i.active = r.active /\ i.rejected = r.rejected
        /\ i.pin = r.pin /\ i.prepared = r.prepared /\ i.ordinary = r.ordinary
        /\ i.core_loaded = r.core_loaded /\ i.before = r.before /\ i.context = r.context
        /\ i.overdrawn = r.overdrawn
    BY <2>1, <2>2 DEF Resolvers
  <2>4. ~r.active /\ ~r.core_loaded /\ ~r.cache
    BY <1>2 DEF Base, KcoreOK, kcore_symbols_ref
  <2>5. LoadsOK(i)
    BY <2>3 DEF Base, LoadsOK, Untouched
  <2>6. KcoreOK(i)
    BY <2>1, <2>3, <2>4 DEF KcoreOK
  <2>7. CoreOK(i)
    BY <2>3, <2>4 DEF Base, CoreOK
  <2> QED
    BY <2>3, <2>4, <2>5, <2>6, <2>7 DEF Base
<1> QED
  BY <1>1, <1>2

\* Only a reference to the core may leave a context that nothing has loaded yet.
LEMMA MappingGood ==
  ASSUME Given, delivered \subseteq Targets, NEW r, Good(r), NEW t \in delivered,
         NEW i, i = initialize_kernel_mapping(r, t)
  PROVE  /\ Base(i) /\ (t # Core => Good(i)) /\ (t = Core => i.cache)
         /\ i.active = r.active /\ i.core_loaded = r.core_loaded
         /\ r.core_loaded => i = r
         /\ r.active => Good(i)
<1> DEFINE s == initialize_kernel_maps(r)
<1>1. /\ Base(s) /\ (Core \in delivered => s.cache)
      /\ s.core_loaded = r.core_loaded /\ s.context = r.context /\ s.active = r.active
      /\ s.before = r.before /\ s.ordinary = r.ordinary /\ (r.cache => s = r)
  BY MapsGood DEF Good
<1>2. Good(s)
  BY <1>1 DEF Good
<1>3. r.core_loaded => r.cache
  BY DEF Good, Base, KcoreOK
<1> HIDE DEF s
<1>4. CASE t # Core \/ s.core_loaded \/ s.context # None
  <2>1. i = s
    BY <1>4 DEF initialize_kernel_mapping, s
  <2> QED
    BY <1>1, <1>2, <1>3, <2>1 DEF Good
<1>5. CASE t = Core /\ ~s.core_loaded /\ s.context = None
  <2> DEFINE c == [modules |-> delivered \cap Modules, loaded |-> s.before]
  <2>1. i = [s EXCEPT !.context = c]
    BY <1>5 DEF initialize_kernel_mapping, s
  <2>2. s \in Resolvers
    BY <1>1 DEF Base
  <2>3. c \in Contexts /\ c.loaded = s.before
    BY <2>2 DEF Contexts, Resolvers
  <2> HIDE DEF c
  <2>4. /\ i \in Resolvers /\ i.cache = s.cache /\ i.kcore = s.kcore /\ i.active = s.active
        /\ i.rejected = s.rejected
        /\ i.pin = s.pin /\ i.prepared = s.prepared /\ i.ordinary = s.ordinary
        /\ i.core_loaded = s.core_loaded /\ i.before = s.before /\ i.context = c
        /\ i.overdrawn = s.overdrawn
    BY <2>1, <2>2, <2>3 DEF Resolvers
  <2>5. LoadsOK(i)
    BY <1>1, <2>4 DEF Base, LoadsOK, Untouched
  <2>6. KcoreOK(i)
    BY <1>1, <2>4 DEF Base, KcoreOK, Untouched, kcore_symbols_ref
  <2>7. CoreOK(i)
    BY <1>1, <2>3, <2>4 DEF Base, CoreOK, Completed
  <2> QED
    BY <1>1, <1>3, <1>5, <2>4, <2>5, <2>6, <2>7 DEF Base, Good
<1> QED
  BY <1>4, <1>5

\* A new resolver differs from an old one in what it says.
LEMMA ActivateGood ==
  ASSUME Given, NEW r, Base(r), kcore_symbols_ref(r), NEW a, a = activate_kcore(r)
  PROVE  /\ Good(a) /\ a.active /\ a.kcore = r.kcore /\ a.cache = r.cache
         /\ a.core_loaded = r.core_loaded /\ a.before = r.before /\ a.context = r.context
         /\ r.active => a = r
<1>1. r \in Resolvers
  BY DEF Base
<1>2. /\ a \in Resolvers /\ a.active /\ a.kcore = r.kcore /\ a.cache = r.cache /\ a.rejected = r.rejected
      /\ a.pin = r.pin /\ a.ordinary = r.ordinary /\ a.core_loaded = r.core_loaded /\ a.before = r.before
      /\ a.context = r.context /\ a.overdrawn = r.overdrawn
      /\ a.prepared = IF r.active THEN r.prepared ELSE r.prepared \ {"live"}
  BY <1>1 DEF activate_kcore, Resolvers
<1>3. Untouched(r)
  BY DEF Base, KcoreOK, LoadsOK
<1>4. LoadsOK(a)
  BY <1>2, <1>3 DEF Base, LoadsOK, Untouched
<1>5. KcoreOK(a)
  BY <1>2, <1>3 DEF Base, KcoreOK, Untouched, kcore_symbols_ref
<1>6. CoreOK(a)
  BY <1>2, <1>3 DEF Base, CoreOK, Completed, Untouched
<1>7. r.active => a = r
  BY <1>1 DEF activate_kcore, Resolvers
<1> QED
  BY <1>2, <1>4, <1>5, <1>6, <1>7 DEF Base, Good

\* A source is completed once, when the core is used.
LEMMA OrdinaryIs ==
  ASSUME Given, NEW r \in Resolvers, r.pin \in Sources, NEW c \in Contexts,
         NEW o, o = ordinary(r, c), r.ordinary[r.pin] = None => r.pin \in r.prepared
  PROVE  /\ o \in Resolvers /\ o.ordinary[r.pin] # None
         /\ o.cache = r.cache /\ o.kcore = r.kcore /\ o.active = r.active /\ o.rejected = r.rejected
         /\ o.pin = r.pin /\ o.core_loaded = r.core_loaded /\ o.before = r.before
         /\ o.context = r.context /\ o.overdrawn = r.overdrawn
         /\ \A s \in Sources : s # r.pin => o.ordinary[s] = r.ordinary[s]
         /\ o.ordinary[r.pin] = IF r.ordinary[r.pin] # None THEN r.ordinary[r.pin] ELSE c
         /\ r.prepared \ {r.pin} \subseteq o.prepared
         /\ r.ordinary[r.pin] # None => o = r
<1>0. c # None
  BY ContextIs
<1>1. CASE r.ordinary[r.pin] # None
  BY <1>1 DEF ordinary
<1>2. CASE r.ordinary[r.pin] = None
  <2>1. o = [r EXCEPT !.ordinary[r.pin] = c, !.prepared = r.prepared \ {r.pin},
                      !.overdrawn = r.overdrawn \/ r.pin \notin r.prepared]
    BY <1>2 DEF ordinary
  <2>2. r.ordinary \in [Sources -> Contexts \cup {None}] /\ r.overdrawn \in BOOLEAN
    BY DEF Resolvers
  <2>3. (r.overdrawn \/ r.pin \notin r.prepared) = r.overdrawn
    BY <1>2, <2>2
  <2>4. o = [r EXCEPT !.ordinary = [r.ordinary EXCEPT ![r.pin] = c], !.prepared = r.prepared \ {r.pin}]
    BY <2>1, <2>3 DEF Resolvers
  <2> DEFINE f == [r.ordinary EXCEPT ![r.pin] = c]
  <2>5. /\ f \in [Sources -> Contexts \cup {None}] /\ f[r.pin] = c
        /\ \A s \in Sources : s # r.pin => f[s] = r.ordinary[s]
    BY <2>2
  <2> HIDE DEF f
  <2>6. o = [r EXCEPT !.ordinary = f, !.prepared = r.prepared \ {r.pin}]
    BY <2>4 DEF f
  <2>7. /\ o \in Resolvers /\ o.ordinary = f /\ o.prepared = r.prepared \ {r.pin}
        /\ o.cache = r.cache /\ o.kcore = r.kcore /\ o.active = r.active /\ o.rejected = r.rejected
        /\ o.pin = r.pin /\ o.core_loaded = r.core_loaded /\ o.before = r.before
        /\ o.context = r.context /\ o.overdrawn = r.overdrawn
    BY <2>5, <2>6 DEF Resolvers
  <2> QED
    BY <1>0, <1>2, <2>5, <2>7
<1> QED
  BY <1>1, <1>2

\* Loading a native source leaves the rest of the resolver alone.
Flags(r, s) ==
  /\ s.cache = r.cache /\ s.kcore = r.kcore /\ s.active = r.active /\ s.rejected = r.rejected
  /\ s.before = r.before /\ s.context = r.context

\* A source is chosen when all of them are known.
LEMMA SelectedIs ==
  ASSUME Given, NEW r \in Resolvers, r.cache, r.pin # "unset" => r.pin = Chosen,
         NEW s, s = selected_native_source(r)
  PROVE  /\ s \in Resolvers /\ s.pin = Chosen /\ Flags(r, s)
         /\ s.core_loaded = r.core_loaded /\ s.overdrawn = r.overdrawn
         /\ s.prepared = r.prepared /\ s.ordinary = r.ordinary
         /\ r.pin # "unset" => s = r
<1>1. CASE r.pin # "unset"
  BY <1>1 DEF selected_native_source, Flags
<1>2. CASE r.pin = "unset"
  <2>1. s = [r EXCEPT !.pin = Chosen]
    BY <1>2 DEF selected_native_source, Chosen, cached_native_source
  <2>2. Chosen \in Pins
    BY WorldIs
  <2> QED
    BY <1>2, <2>1, <2>2 DEF Resolvers, Flags
<1> QED
  BY <1>1, <1>2

\* The source that was selected has been completed.
Finished(r) == r.pin # "unset" /\ (r.pin # "none" => r.ordinary[r.pin] # None)

\* Completing selects the source that counts, and completes it.
LEMMA CompleteIs ==
  ASSUME Given, NEW r \in Resolvers, r.cache, ~KcoreActive(r), r.pin # "unset" => r.pin = Chosen,
         \A s \in Sources : r.ordinary[s] = None => s \in r.prepared,
         NEW c, c = complete_native_source(r)
  PROVE  /\ c \in Resolvers /\ c.pin = Chosen /\ Flags(r, c)
         /\ c.core_loaded = r.core_loaded /\ c.overdrawn = r.overdrawn
         /\ Completed(c)
         /\ \A s \in Sources :
              /\ c.ordinary[s] = None => s \in c.prepared
              /\ c.ordinary[s] # r.ordinary[s] =>
                   /\ s = Chosen /\ r.ordinary[s] = None
                   /\ c.ordinary[s].loaded = IF r.context # None THEN r.context.loaded ELSE r.before
         /\ Finished(r) => c = r
<1> DEFINE s == selected_native_source(r)
           x == IF s.context # None THEN s.context ELSE [modules |-> Modules, loaded |-> s.before]
<1>1. /\ s \in Resolvers /\ s.pin = Chosen /\ Flags(r, s)
      /\ s.core_loaded = r.core_loaded /\ s.overdrawn = r.overdrawn
      /\ s.prepared = r.prepared /\ s.ordinary = r.ordinary
      /\ r.pin # "unset" => s = r
  BY SelectedIs
<1>2. c = IF s.pin = "none" THEN s ELSE ordinary(s, x)
  BY DEF complete_native_source
<1>3. x \in Contexts /\ x.loaded = IF r.context # None THEN r.context.loaded ELSE r.before
  <2>1. s.context \in Contexts \cup {None} /\ s.before \subseteq Modules /\ s.context = r.context
            /\ s.before = r.before
    BY <1>1 DEF Resolvers, Flags
  <2> HIDE DEF s
  <2> QED
    BY <2>1 DEF Contexts
<1>4. Chosen \in Pins
  BY WorldIs
<1> HIDE DEF s, x
<1>5. CASE s.pin = "none"
  <2>1. c = s /\ "none" \notin Sources
    BY <1>2, <1>5 DEF Sources
  <2> QED
    BY <1>1, <1>5, <2>1 DEF Completed, Finished
<1>6. CASE s.pin # "none"
  <2>1. s.pin \in Sources /\ c = ordinary(s, x) /\ (s.ordinary[s.pin] = None => s.pin \in s.prepared)
    BY <1>1, <1>2, <1>4, <1>6 DEF Pins
  <2>2. /\ c \in Resolvers /\ c.ordinary[s.pin] # None
        /\ c.cache = s.cache /\ c.kcore = s.kcore /\ c.active = s.active /\ c.rejected = s.rejected
        /\ c.pin = s.pin /\ c.core_loaded = s.core_loaded /\ c.before = s.before
        /\ c.context = s.context /\ c.overdrawn = s.overdrawn
        /\ \A q \in Sources : q # s.pin => c.ordinary[q] = s.ordinary[q]
        /\ c.ordinary[s.pin] = IF s.ordinary[s.pin] # None THEN s.ordinary[s.pin] ELSE x
        /\ s.prepared \ {s.pin} \subseteq c.prepared
        /\ s.ordinary[s.pin] # None => c = s
    BY <1>1, <1>3, <2>1, OrdinaryIs
  <2>3. Flags(r, c) /\ Completed(c)
    BY <1>1, <2>2 DEF Flags, Completed
  <2>4. ASSUME NEW q \in Sources
        PROVE  /\ c.ordinary[q] = None => q \in c.prepared
               /\ c.ordinary[q] # r.ordinary[q] =>
                   /\ q = Chosen /\ r.ordinary[q] = None
                   /\ c.ordinary[q].loaded = IF r.context # None THEN r.context.loaded ELSE r.before
    BY <1>1, <1>3, <2>2
  <2>5. Finished(r) => c = r
    BY <1>1, <1>6, <2>2 DEF Finished
  <2> QED
    BY <1>1, <2>2, <2>3, <2>4, <2>5
<1> QED
  BY <1>5, <1>6

\* Loading the core is a flag.
LEMMA LoadIs ==
  ASSUME NEW r \in Resolvers, NEW l, l = [r EXCEPT !.core_loaded = TRUE]
  PROVE  /\ l \in Resolvers /\ Flags(r, l) /\ l.core_loaded /\ l.pin = r.pin /\ l.prepared = r.prepared
         /\ l.ordinary = r.ordinary /\ l.overdrawn = r.overdrawn /\ (r.core_loaded => l = r)
BY DEF Resolvers, Flags

\* A source that was completed for the core.
LEMMA LoadedGood ==
  ASSUME Given, NEW r, Base(r), r.cache, ~kcore_symbols_ref(r), NEW c \in Resolvers,
         c.core_loaded, c.pin = Chosen, Flags(r, c), Completed(c), c.overdrawn = r.overdrawn,
         \A s \in Sources :
              /\ c.ordinary[s] = None => s \in c.prepared
              /\ c.ordinary[s] # r.ordinary[s] =>
                   /\ s = Chosen /\ r.ordinary[s] = None
                   /\ c.ordinary[s].loaded = IF r.context # None THEN r.context.loaded ELSE r.before
  PROVE  Good(c)
<1>1. ~r.active /\ ~c.active /\ ~kcore_symbols_ref(c)
  BY DEF Base, KcoreOK, Flags, kcore_symbols_ref
<1>2. LoadsOK(c)
  BY DEF Base, LoadsOK
<1>3. KcoreOK(c)
  BY <1>1 DEF Base, KcoreOK, Flags
<1>4. ASSUME world.elf = "none", NEW s \in Sources, c.ordinary[s] # None
      PROVE  c.before \subseteq c.ordinary[s].loaded
  <2>1. c.before = r.before
    BY DEF Flags
  <2>2. CASE c.ordinary[s] = r.ordinary[s]
    BY <1>4, <2>1, <2>2 DEF Base, CoreOK
  <2>3. CASE c.ordinary[s] # r.ordinary[s]
    <3>1. s = Chosen /\ r.ordinary[s] = None
      BY <2>3
    <3>2. ~r.core_loaded
      BY <1>1, <1>4, <3>1 DEF Base, CoreOK, Completed, Sources
    <3>3. r.context # None => r.context.loaded = r.before
      BY <1>1, <3>2 DEF Base, CoreOK
    <3> QED
      BY <2>1, <2>3, <3>3
  <2> QED
    BY <2>2, <2>3
<1>5. CoreOK(c)
  BY <1>4 DEF CoreOK
<1> QED
  BY <1>2, <1>3, <1>5 DEF Good, Base

\* The core is answered by the source that counts, or the System.map in its place.
LEMMA CoreSourceGood ==
  ASSUME Given, NEW r, Base(r), r.cache, ~kcore_symbols_ref(r),
         NEW b, b = ResolveCoreSource(r)
  PROVE  /\ Good(b.resolver) /\ Completed(b.resolver) /\ b.resolver.core_loaded /\ Flags(r, b.resolver)
         /\ b.answer = IF Chosen = "none" \/ (Chosen = "live" /\ world.live = "empty")
                       THEN IF world.system THEN "system" ELSE "none" ELSE Chosen
         /\ r.core_loaded /\ Finished(r) => b.resolver = r
<1> DEFINE l == [r EXCEPT !.core_loaded = TRUE]
           c == complete_native_source(l)
<1>1. b.resolver = c /\ b.answer = IF c.pin = "none" \/ (c.pin = "live" /\ world.live = "empty")
                       THEN IF world.system THEN "system" ELSE "none" ELSE c.pin
  BY DEF ResolveCoreSource, By
<1>2. r \in Resolvers /\ (r.pin # "unset" => r.pin = Chosen) /\ ~r.active /\ ~r.overdrawn
      /\ \A s \in Sources : r.ordinary[s] = None => s \in r.prepared
  BY DEF Base, LoadsOK, KcoreOK
<1>3. /\ l \in Resolvers /\ Flags(r, l) /\ l.core_loaded /\ l.pin = r.pin /\ l.prepared = r.prepared
      /\ l.ordinary = r.ordinary /\ l.overdrawn = r.overdrawn /\ (r.core_loaded => l = r)
  BY <1>2, LoadIs
<1> HIDE DEF l
<1>4. ~KcoreActive(l) /\ l.cache
  BY <1>2, <1>3 DEF KcoreActive, Flags
<1>5. /\ c \in Resolvers /\ c.pin = Chosen /\ Flags(l, c)
      /\ c.core_loaded = l.core_loaded /\ c.overdrawn = l.overdrawn
      /\ Completed(c)
      /\ \A s \in Sources :
           /\ c.ordinary[s] = None => s \in c.prepared
           /\ c.ordinary[s] # l.ordinary[s] =>
                /\ s = Chosen /\ l.ordinary[s] = None
                /\ c.ordinary[s].loaded = IF l.context # None THEN l.context.loaded ELSE l.before
      /\ Finished(l) => c = l
  BY <1>2, <1>3, <1>4, CompleteIs
<1> HIDE DEF c
<1>6. Flags(r, c) /\ l.context = r.context /\ l.before = r.before
  BY <1>3, <1>5 DEF Flags
<1>7. Good(c)
  <2>1. ASSUME NEW s \in Sources
        PROVE  /\ c.ordinary[s] = None => s \in c.prepared
               /\ c.ordinary[s] # r.ordinary[s] =>
                    /\ s = Chosen /\ r.ordinary[s] = None
                    /\ c.ordinary[s].loaded = IF r.context # None THEN r.context.loaded ELSE r.before
    BY <1>3, <1>5, <1>6
  <2>2. c \in Resolvers /\ c.core_loaded /\ c.pin = Chosen /\ Completed(c) /\ c.overdrawn = r.overdrawn
    BY <1>3, <1>5
  <2> QED
    BY <1>6, <2>1, <2>2, LoadedGood
<1> QED
  BY <1>1, <1>3, <1>5, <1>6, <1>7

\* A module is looked for in the source of the core.
LEMMA ModuleSourceGood ==
  ASSUME Given, NEW r, Good(r), ~KcoreActive(r), NEW m \in Modules,
         NEW b, b = ResolveModuleSource(r, m)
  PROVE  /\ Good(b.resolver) /\ Flags(r, b.resolver) /\ b.resolver.core_loaded = r.core_loaded
         /\ ~r.core_loaded => b.resolver = r /\ b.answer = "none"
         /\ r.core_loaded =>
              /\ Completed(b.resolver)
              /\ \A s \in Sources : b.resolver.ordinary[s] # r.ordinary[s] =>
                   s = Chosen /\ r.ordinary[s] = None /\ b.resolver.ordinary[s] = NoContext
              /\ b.answer = IF Chosen = "none" THEN "none"
                            ELSE IF r.ordinary[Chosen] = None THEN Chosen
                            ELSE Rows(r.ordinary[Chosen], m, Chosen)
         /\ Finished(r) => b.resolver = r
<1> DEFINE s == selected_native_source(r)
           c == ordinary(s, NoContext)
<1>0. b = IF ~r.core_loaded THEN By(r, "none")
          ELSE IF s.pin = "none" THEN By(s, "none")
          ELSE By(c, Rows(c.ordinary[c.pin], m, s.pin))
  BY DEF ResolveModuleSource
<1>1. CASE ~r.core_loaded
  BY <1>0, <1>1 DEF By, Flags
<1>2. CASE r.core_loaded
  <2>1. /\ r \in Resolvers /\ (r.pin # "unset" => r.pin = Chosen) /\ ~r.active /\ ~r.overdrawn
        /\ \A q \in Sources : r.ordinary[q] = None => q \in r.prepared
        /\ r.cache /\ ~kcore_symbols_ref(r) /\ Base(r)
    BY <1>2 DEF Good, Base, LoadsOK, KcoreOK, KcoreActive
  <2>2. /\ s \in Resolvers /\ s.pin = Chosen /\ Flags(r, s)
        /\ s.core_loaded = r.core_loaded /\ s.overdrawn = r.overdrawn
        /\ s.prepared = r.prepared /\ s.ordinary = r.ordinary
        /\ r.pin # "unset" => s = r
    BY <2>1, SelectedIs
  <2> HIDE DEF s
  <2>3. Chosen \in Pins
    BY WorldIs
  <2>4. CASE Chosen = "none"
    <3>1. b.resolver = s /\ b.answer = "none"
      BY <1>0, <1>2, <2>2, <2>4 DEF By
    <3>2. Completed(s) /\ (Finished(r) => s = r)
      BY <2>2, <2>4 DEF Completed, Finished
    <3>3. Good(s)
      BY <1>2, <2>1, <2>2, <3>2, LoadedGood
    <3> QED
      BY <1>2, <2>2, <2>4, <3>1, <3>2, <3>3
  <2>5. CASE Chosen # "none"
    <3>1. s.pin \in Sources /\ (s.ordinary[s.pin] = None => s.pin \in s.prepared)
      BY <2>1, <2>2, <2>3, <2>5 DEF Pins
    <3>2. NoContext \in Contexts /\ NoContext.modules = Modules /\ NoContext.loaded = {} /\ NoContext # None
      BY ContextIs DEF NoContext, Contexts
    <3>3. /\ c \in Resolvers /\ c.ordinary[s.pin] # None
          /\ c.cache = s.cache /\ c.kcore = s.kcore /\ c.active = s.active /\ c.rejected = s.rejected
          /\ c.pin = s.pin /\ c.core_loaded = s.core_loaded /\ c.before = s.before
          /\ c.context = s.context /\ c.overdrawn = s.overdrawn
          /\ \A q \in Sources : q # s.pin => c.ordinary[q] = s.ordinary[q]
          /\ c.ordinary[s.pin] = IF s.ordinary[s.pin] # None THEN s.ordinary[s.pin] ELSE NoContext
          /\ s.prepared \ {s.pin} \subseteq c.prepared
          /\ s.ordinary[s.pin] # None => c = s
      BY <2>2, <3>1, <3>2, OrdinaryIs
    <3> HIDE DEF c
    <3>4. /\ b.resolver = c
          /\ b.answer = Rows(c.ordinary[Chosen], m, Chosen)
      BY <1>0, <1>2, <2>2, <2>5, <3>3 DEF By
    <3>5. Flags(r, c) /\ Completed(c) /\ (Finished(r) => c = r)
      BY <2>2, <2>5, <3>3 DEF Flags, Completed, Finished
    <3>6. Good(c)
      <4>1. LoadsOK(c)
        BY <1>2, <2>1, <2>2, <3>3 DEF LoadsOK
      <4>2. KcoreOK(c)
        BY <1>2, <2>1, <2>2, <3>3, <3>5 DEF KcoreOK, Base, Flags, kcore_symbols_ref
      <4>3. ASSUME world.elf = "none", NEW q \in Sources, c.ordinary[q] # None
            PROVE  c.before \subseteq c.ordinary[q].loaded
        <5>1. Completed(r) /\ r.ordinary[r.pin] # None /\ r.pin = Chosen
          BY <1>2, <2>1, <2>5, <4>3 DEF Base, CoreOK, Completed
        <5>2. c.ordinary[q] = r.ordinary[q] /\ c.before = r.before
          BY <2>2, <3>3, <3>5, <5>1 DEF Flags
        <5> QED
          BY <2>1, <4>3, <5>2 DEF Base, CoreOK
      <4>4. CoreOK(c)
        BY <1>2, <2>2, <3>3, <3>5, <4>3 DEF CoreOK
      <4> QED
        BY <1>2, <2>2, <3>3, <4>1, <4>2, <4>4 DEF Good, Base
    <3>7. b.answer = IF r.ordinary[Chosen] = None THEN Chosen ELSE Rows(r.ordinary[Chosen], m, Chosen)
      <4>1. Rows(NoContext, m, Chosen) = Chosen
        BY <3>2 DEF Rows
      <4> QED
        BY <2>2, <3>3, <3>4, <4>1
    <3>8. \A q \in Sources : c.ordinary[q] # r.ordinary[q]
              => q = Chosen /\ r.ordinary[q] = None /\ c.ordinary[q] = NoContext
      BY <2>2, <3>3
    <3> QED
      BY <1>2, <2>2, <2>5, <3>3, <3>4, <3>5, <3>6, <3>7, <3>8
  <2> QED
    BY <2>4, <2>5
<1> QED
  BY <1>1, <1>2

\* A module tried before the core is noted.
LEMMA RecordGood ==
  ASSUME Given, NEW r, Good(r), NEW m \in Modules, NEW s, s = record_ordinary_module_load(r, m)
  PROVE  /\ Good(s) /\ s.kcore = r.kcore /\ s.rejected = r.rejected /\ s.active = r.active
         /\ s.cache = r.cache /\ s.core_loaded = r.core_loaded
         /\ r.core_loaded => s = r
<1>1. CASE r.core_loaded
  BY <1>1 DEF record_ordinary_module_load
<1>2. CASE ~r.core_loaded
  <2>1. r \in Resolvers /\ Untouched(r)
    BY <1>2 DEF Good, Base, LoadsOK
  <2>2. /\ s \in Resolvers /\ s.before = r.before \cup {m} /\ s.kcore = r.kcore /\ s.rejected = r.rejected
        /\ s.active = r.active /\ s.cache = r.cache /\ s.core_loaded = r.core_loaded /\ s.pin = r.pin
        /\ s.prepared = r.prepared /\ s.ordinary = r.ordinary /\ s.context = r.context
        /\ s.overdrawn = r.overdrawn
    BY <1>2, <2>1 DEF record_ordinary_module_load, Resolvers
  <2>3. LoadsOK(s)
    BY <1>2, <2>1, <2>2 DEF Good, Base, LoadsOK, Untouched
  <2>4. KcoreOK(s)
    BY <1>2, <2>1, <2>2 DEF Good, Base, KcoreOK, Untouched, kcore_symbols_ref
  <2>5. CoreOK(s)
    BY <1>2, <2>1, <2>2 DEF Good, Base, CoreOK, Untouched
  <2> QED
    BY <1>2, <2>2, <2>3, <2>4, <2>5 DEF Good, Base
<1> QED
  BY <1>1, <1>2

\* Sections elsewhere reject a kcore that has not been used.
LEMMA ValidateGood ==
  ASSUME Given, NEW r, Good(r), ~r.active, NEW m \in Modules, NEW s, s = validate_module_maps(r, m)
  PROVE  Good(s) /\ s.kcore = r.kcore /\ ~s.active
<1>1. r \in Resolvers
  BY DEF Good, Base
<1>2. PICK x \in BOOLEAN : s = [r EXCEPT !.rejected = x] /\ (r.rejected => x)
  <2>1. s = r \/ s = [r EXCEPT !.rejected = TRUE]
    BY DEF validate_module_maps
  <2>2. r = [r EXCEPT !.rejected = r.rejected] /\ r.rejected \in BOOLEAN
    BY <1>1 DEF Resolvers
  <2> QED
    BY <2>1, <2>2
<1>3. /\ s \in Resolvers /\ s.before = r.before /\ s.kcore = r.kcore /\ s.rejected = x
      /\ s.active = r.active /\ s.cache = r.cache /\ s.core_loaded = r.core_loaded /\ s.pin = r.pin
      /\ s.prepared = r.prepared /\ s.ordinary = r.ordinary /\ s.context = r.context
      /\ s.overdrawn = r.overdrawn
  BY <1>1, <1>2 DEF Resolvers
<1>4. LoadsOK(s)
  BY <1>3 DEF Good, Base, LoadsOK, Untouched
<1>5. KcoreOK(s)
  BY <1>2, <1>3 DEF Good, Base, KcoreOK, kcore_symbols_ref
<1>6. CoreOK(s)
  BY <1>3 DEF Good, Base, CoreOK, Completed
<1> QED
  BY <1>3, <1>4, <1>5, <1>6 DEF Good, Base

\* An object that has been read accepts kcore or rejects it.
LEMMA FinishObjectGood ==
  ASSUME Given, NEW r, Good(r), ~r.active, NEW m \in Modules,
         NEW s, s = finish_module_object_load(r, m)
  PROVE  Good(s)
<1> DEFINE v == validate_module_maps(r, m)
<1>1. Good(v) /\ v.kcore = r.kcore /\ ~v.active
  BY ValidateGood
<1> HIDE DEF v
<1>2. CASE ~kcore_symbols_ref(r)
  BY <1>2 DEF finish_module_object_load
<1>3. CASE kcore_symbols_ref(r) /\ v.rejected
  BY <1>1, <1>3 DEF finish_module_object_load, v
<1>4. CASE kcore_symbols_ref(r) /\ ~v.rejected
  <2>1. s = activate_kcore(v)
    BY <1>4 DEF finish_module_object_load, v
  <2>2. kcore_symbols_ref(v)
    BY <1>1, <1>4 DEF kcore_symbols_ref
  <2> QED
    BY <1>1, <2>1, <2>2, ActivateGood DEF Good
<1> QED
  BY <1>2, <1>3, <1>4

\* The core is loaded once kcore is in use, or with an ELF.
LEMMA LoadGood ==
  ASSUME Given, NEW r, Base(r), r.cache,
         r.active \/ (~kcore_symbols_ref(r) /\ world.elf # "none"),
         NEW s, s = [r EXCEPT !.core_loaded = TRUE]
  PROVE  Good(s) /\ s.core_loaded /\ s.cache
<1>1. /\ s \in Resolvers /\ Flags(r, s) /\ s.core_loaded /\ s.pin = r.pin /\ s.prepared = r.prepared
      /\ s.ordinary = r.ordinary /\ s.overdrawn = r.overdrawn
  BY LoadIs DEF Base
<1>2. LoadsOK(s)
  BY <1>1 DEF Base, LoadsOK, Untouched, Flags
<1>3. KcoreOK(s)
  BY <1>1 DEF Base, KcoreOK, Untouched, Flags, kcore_symbols_ref
<1>4. CoreOK(s)
  BY <1>1 DEF Base, CoreOK, KcoreOK, Flags
<1> QED
  BY <1>1, <1>2, <1>3, <1>4 DEF Good, Base, Flags

\* A completed source is a used core.
LEMMA CompleteLoads ==
  ASSUME Given, NEW r, Base(r), r.cache, ~kcore_symbols_ref(r),
         NEW s, s = [complete_native_source(r) EXCEPT !.core_loaded = TRUE]
  PROVE  Good(s) /\ s.core_loaded /\ s.cache /\ ~kcore_symbols_ref(s)
<1> DEFINE c == complete_native_source(r)
<1>1. r \in Resolvers /\ (r.pin # "unset" => r.pin = Chosen) /\ ~r.active /\ ~r.overdrawn
      /\ \A q \in Sources : r.ordinary[q] = None => q \in r.prepared
  BY DEF Base, LoadsOK, KcoreOK
<1>2. ~KcoreActive(r)
  BY <1>1 DEF KcoreActive
<1>3. /\ c \in Resolvers /\ c.pin = Chosen /\ Flags(r, c)
      /\ c.core_loaded = r.core_loaded /\ c.overdrawn = r.overdrawn
      /\ Completed(c)
      /\ \A q \in Sources :
           /\ c.ordinary[q] = None => q \in c.prepared
           /\ c.ordinary[q] # r.ordinary[q] =>
                /\ q = Chosen /\ r.ordinary[q] = None
                /\ c.ordinary[q].loaded = IF r.context # None THEN r.context.loaded ELSE r.before
  BY <1>1, <1>2, CompleteIs
<1>4. s = [c EXCEPT !.core_loaded = TRUE]
  OBVIOUS
<1> HIDE DEF c
<1>5. /\ s \in Resolvers /\ Flags(c, s) /\ s.core_loaded /\ s.pin = c.pin /\ s.prepared = c.prepared
      /\ s.ordinary = c.ordinary /\ s.overdrawn = c.overdrawn
  <2>1. c \in Resolvers
    BY <1>3
  <2> QED
    BY <1>4, <2>1, LoadIs
<1>6. Flags(r, s) /\ Completed(s)
  BY <1>3, <1>5 DEF Flags, Completed
<1>7. ASSUME NEW q \in Sources
      PROVE  /\ s.ordinary[q] = None => q \in s.prepared
             /\ s.ordinary[q] # r.ordinary[q] =>
                  /\ q = Chosen /\ r.ordinary[q] = None
                  /\ s.ordinary[q].loaded = IF r.context # None THEN r.context.loaded ELSE r.before
  BY <1>3, <1>5
<1>8. s.core_loaded /\ s.pin = Chosen /\ s.overdrawn = r.overdrawn /\ s \in Resolvers
  BY <1>3, <1>5
<1>9. Good(s)
  BY <1>6, <1>7, <1>8, LoadedGood
<1> QED
  BY <1>6, <1>8, <1>9 DEF Flags, kcore_symbols_ref

\* A sampled instruction leaves a context only of a core that is loaded.
LEMMA PreprocessGood ==
  ASSUME Given, NEW t \in Targets, NEW r, Base(r),
         t # Core => Good(r), t = Core => r.cache,
         NEW s, s = preprocess_sample_ip(r, t)
  PROVE  Good(s) /\ (t = Core => s.core_loaded /\ s.cache)
<1>1. CASE t # Core
  <2> DEFINE n == record_ordinary_module_load(r, t)
  <2>0. t \in Modules
    BY <1>1 DEF Targets
  <2>1. Good(n)
    BY <1>1, <2>0, RecordGood
  <2>2. s = IF kcore_symbols_ref(n) /\ ~n.active THEN validate_module_maps(n, t) ELSE n
    BY <1>1 DEF preprocess_sample_ip
  <2> HIDE DEF n
  <2>3. CASE kcore_symbols_ref(n) /\ ~n.active
    BY <1>1, <2>0, <2>1, <2>2, <2>3, ValidateGood
  <2> QED
    BY <1>1, <2>1, <2>2, <2>3
<1>2. CASE t = Core
  <2>1. CASE kcore_symbols_ref(r)
    <3> DEFINE a == activate_kcore(r)
    <3>1. s = [a EXCEPT !.core_loaded = TRUE]
      BY <1>2, <2>1 DEF preprocess_sample_ip
    <3>2. Good(a) /\ a.active /\ a.cache = r.cache
      BY <2>1, ActivateGood
    <3> HIDE DEF a
    <3> QED
      BY <1>2, <3>1, <3>2, LoadGood DEF Good
  <2>2. CASE ~kcore_symbols_ref(r) /\ world.elf = "none"
    <3>1. s = [complete_native_source(r) EXCEPT !.core_loaded = TRUE]
      BY <1>2, <2>2 DEF preprocess_sample_ip, kernel_elf
    <3> QED
      BY <1>2, <2>2, <3>1, CompleteLoads
  <2>3. CASE ~kcore_symbols_ref(r) /\ world.elf # "none"
    <3>1. s = [r EXCEPT !.core_loaded = TRUE]
      BY <1>2, <2>3 DEF preprocess_sample_ip, kernel_elf
    <3> QED
      BY <1>2, <2>3, <3>1, LoadGood
  <2> QED
    BY <2>1, <2>2, <2>3
<1> QED
  BY <1>1, <1>2

\* So it does where the sample has no callchain.
LEMMA PreprocessCursorGood ==
  ASSUME Given, NEW t \in Targets, NEW r, Base(r),
         t # Core => Good(r), t = Core => r.cache,
         NEW p, p = preprocess_sample_ip_with_cursor(r, t)
  PROVE  Good(p)
<1> DEFINE s == preprocess_sample_ip(r, t)
           c == complete_native_source(s)
<1>1. Good(s) /\ (t = Core => s.core_loaded /\ s.cache)
  BY PreprocessGood
<1>2. \/ p = s
      \/ t = Core /\ ~kcore_symbols_ref(s) /\ (p = c \/ p = resolve_kernel_source(c, t).resolver)
  BY DEF preprocess_sample_ip_with_cursor
<1> HIDE DEF s
<1>3. CASE t = Core /\ ~kcore_symbols_ref(s)
  <2>1. s \in Resolvers /\ s.core_loaded /\ s.cache /\ Base(s)
    BY <1>1, <1>3 DEF Good, Base
  <2>2. [s EXCEPT !.core_loaded = TRUE] = s
    BY <2>1, LoadIs
  <2>3. c = ResolveCoreSource(s).resolver
    BY <2>2 DEF ResolveCoreSource, By
  <2>4. Good(c) /\ Flags(s, c)
    BY <1>3, <2>1, <2>3, CoreSourceGood
  <2> HIDE DEF c
  <2>5. ~kcore_symbols_ref(c) /\ c.cache /\ ~KcoreActive(c)
    BY <1>3, <2>1, <2>4 DEF Flags, kcore_symbols_ref, KcoreActive
  <2>6. resolve_kernel_source(c, t) = ResolveCoreSource(c)
    BY <1>3, <2>5 DEF resolve_kernel_source
  <2>7. Good(ResolveCoreSource(c).resolver)
    BY <2>4, <2>5, CoreSourceGood DEF Good
  <2> QED
    BY <1>1, <1>2, <2>4, <2>6, <2>7
<1> QED
  BY <1>1, <1>2, <1>3

\* One request, alone.
LEMMA KernelSourceGood ==
  ASSUME Given, NEW t \in Targets, NEW r, Base(r), ~kcore_symbols_ref(r) \/ ~r.active,
         t # Core => Good(r), t = Core => r.cache /\ ~kcore_symbols_ref(r)
  PROVE  Good(resolve_kernel_source(r, t).resolver)
<1>1. ~KcoreActive(r)
  BY DEF KcoreActive
<1>2. CASE t = Core
  BY <1>1, <1>2, CoreSourceGood DEF resolve_kernel_source
<1>3. CASE t # Core
  BY <1>1, <1>3, ModuleSourceGood DEF resolve_kernel_source, Targets
<1> QED
  BY <1>2, <1>3

\* A request leaves no context of a core that is not loaded.
LEMMA RouteGood ==
  ASSUME Given, NEW t \in Targets, NEW r, Base(r),
         t # Core => Good(r), t = Core => r.cache, r.active => Good(r),
         NEW b, b = Route(r, t)
  PROVE  /\ Good(b.resolver)
         /\ b.answer = "old" => t # Core /\ ~b.resolver.active
         /\ b.answer = "module" => t # Core /\ world.object[t] \in {"unavailable", "symbols"}
<1>1. CASE kcore_symbols_ref(r) /\ (t \in world.ranges \/ r.active)
  <2>1. CASE t # Core /\ ~r.active /\ world.object[t] # "none"
    <3>1. t \in Modules /\ Good(r)
      BY <2>1 DEF Targets
    <3>2. CASE world.object[t] = "empty"
      <4>1. b = By(finish_module_object_load(r, t), "replaced")
        BY <1>1, <2>1, <3>2 DEF Route
      <4> QED
        BY <2>1, <3>1, <4>1, FinishObjectGood DEF By
    <3>3. CASE world.object[t] # "empty"
      <4>1. b = Later(r, "old")
        BY <1>1, <2>1, <3>3 DEF Route
      <4> QED
        BY <2>1, <3>1, <4>1 DEF Later
    <3> QED
      BY <3>2, <3>3
  <2>2. CASE ~(t # Core /\ ~r.active /\ world.object[t] # "none") /\ t \notin world.ranges
    <3>1. b = By(r, "unmapped")
      BY <1>1, <2>2 DEF Route
    <3> QED
      BY <1>1, <2>2, <3>1 DEF By
  <2>3. CASE ~(t # Core /\ ~r.active /\ world.object[t] # "none") /\ t \in world.ranges
    <3>1. b = By(activate_kcore(r), IF r.active \/ t = Core THEN "kcore" ELSE "replaced")
      BY <1>1, <2>3 DEF Route
    <3> QED
      BY <1>1, <3>1, ActivateGood DEF By
  <2> QED
    BY <2>1, <2>2, <2>3
<1>2. CASE ~(kcore_symbols_ref(r) /\ (t \in world.ranges \/ r.active)) /\ t # Core
  <2> DEFINE s == record_ordinary_module_load(r, t)
  <2>1. t \in Modules
    BY <1>2 DEF Targets
  <2>2. /\ Good(s) /\ s.kcore = r.kcore /\ s.rejected = r.rejected /\ s.active = r.active
    BY <1>2, <2>1, RecordGood
  <2>3. ~kcore_symbols_ref(s) \/ ~s.active
    BY <1>2, <2>2 DEF kcore_symbols_ref
  <2>4. b = CASE world.object[t] = "none" -> resolve_kernel_source(s, t)
              [] world.object[t] = "empty" -> By(s, "none")
              [] OTHER -> Later(s, "module")
    BY <1>2 DEF Route
  <2> HIDE DEF s
  <2>5. CASE world.object[t] = "none"
    <3>1. b = ResolveModuleSource(s, t) /\ ~KcoreActive(s)
      BY <1>2, <2>3, <2>4, <2>5 DEF resolve_kernel_source, KcoreActive
    <3>2. Good(b.resolver)
      BY <2>1, <2>2, <3>1, ModuleSourceGood
    <3>3. b.answer \in Answers
      BY <2>1, <2>2, <3>1, ModuleSourceGood, WorldIs DEF Answers, Pins, Rows, Rest
    <3> QED
      BY <3>2, <3>3 DEF Answers, Pins, Sources
  <2>6. CASE world.object[t] = "empty"
    BY <2>2, <2>4, <2>6 DEF By
  <2>7. CASE world.object[t] \notin {"none", "empty"}
    <3>1. b = Later(s, "module")
      BY <2>4, <2>7
    <3> QED
      BY <1>2, <2>1, <2>2, <2>7, <3>1, WorldIs DEF Later
  <2> QED
    BY <2>5, <2>6, <2>7
<1>3. CASE ~(kcore_symbols_ref(r) /\ (t \in world.ranges \/ r.active)) /\ t = Core
  <2>1. ~kcore_symbols_ref(r) /\ ~r.active /\ ~KcoreActive(r)
    BY <1>3, WorldIs DEF Base, KcoreOK, kcore_symbols_ref, KcoreActive
  <2>2. CASE world.elf = "usable"
    <3>1. b = By([r EXCEPT !.core_loaded = TRUE], "elf")
      BY <1>3, <2>2 DEF Route, kernel_elf
    <3> QED
      BY <1>3, <2>1, <2>2, <3>1, LoadGood DEF By
  <2>3. CASE world.elf # "usable"
    <3>1. b = ResolveCoreSource(r)
      BY <1>3, <2>1, <2>3 DEF Route, kernel_elf, resolve_kernel_source
    <3>2. Good(b.resolver) /\ b.answer \in Answers
      BY <1>3, <2>1, <3>1, CoreSourceGood, WorldIs DEF Answers, Pins
    <3> QED
      BY <3>2 DEF Answers, Pins, Sources
  <2> QED
    BY <2>2, <2>3
<1> QED
  BY <1>1, <1>2, <1>3

\* Nor does reading its object afterwards.
LEMMA FrameGood ==
  ASSUME Given, NEW t \in Targets, NEW r, Good(r), NEW which,
         which = "old" => t # Core /\ ~r.active,
         which = "module" => t # Core
  PROVE  Good(finish_module_frame(r, t, which).resolver)
<1>1. CASE which = "old"
  <2>1. t \in Modules
    BY <1>1 DEF Targets
  <2> QED
    BY <1>1, <2>1, FinishObjectGood DEF finish_module_frame, By
<1>2. CASE which = "module" /\ world.object[t] = "symbols"
  BY <1>2 DEF finish_module_frame, By
<1>3. CASE which = "module" /\ world.object[t] # "symbols"
  <2>1. finish_module_frame(r, t, which) = resolve_kernel_source(r, t)
    BY <1>3 DEF finish_module_frame
  <2>2. CASE KcoreActive(r)
    BY <2>1, <2>2 DEF resolve_kernel_source, By
  <2>3. CASE ~KcoreActive(r)
    <3>1. t \in Modules /\ finish_module_frame(r, t, which) = ResolveModuleSource(r, t)
      BY <1>3, <2>1, <2>3 DEF resolve_kernel_source, Targets
    <3> QED
      BY <2>3, <3>1, ModuleSourceGood
  <2> QED
    BY <2>2, <2>3
<1>4. CASE which \notin {"old", "module"}
  BY <1>4 DEF finish_module_frame, By
<1> QED
  BY <1>1, <1>2, <1>3, <1>4

\* Nor does a frame of the script path.
LEMMA CursorGood ==
  ASSUME Given, delivered \subseteq Targets, NEW t \in delivered, NEW r, Good(r)
  PROVE  Good(Cursor(r, t).resolver)
<1> DEFINE i == initialize_kernel_mapping(r, t)
           b == Route(i, t)
<1>1. t \in Targets
  OBVIOUS
<1>2. Base(i) /\ (t # Core => Good(i)) /\ (t = Core => i.cache) /\ (i.active => Good(i))
  BY MappingGood
<1>3. Cursor(r, t) = finish_module_frame(b.resolver, t, b.answer)
  BY DEF Cursor
<1> HIDE DEF i
<1>4. /\ Good(b.resolver)
      /\ b.answer = "old" => t # Core /\ ~b.resolver.active
      /\ b.answer = "module" => t # Core
  BY <1>1, <1>2, RouteGood
<1> HIDE DEF b
<1> QED
  BY <1>1, <1>3, <1>4, FrameGood

-----------------------------------------------------------------------------
\* The passes over a stack.

\* The passes by kind: an operator cannot be a parameter of a lemma.
StepOf(kind, s, t, a) ==
  IF kind = "route" THEN Route(s, t)
  ELSE IF kind = "finish" THEN finish_module_frame(s, t, a)
  ELSE IF kind = "cursor" THEN Cursor(s, t)
  ELSE By(initialize_kernel_mapping(s, t), a)

\* A pass over so many elements.
Stepped(kind, r, stack, answers, len, f) ==
  f = [i \in 0 .. len |-> IF i = 0 THEN By(r, "none")
                          ELSE StepOf(kind, f[i - 1].resolver, stack[i], answers[i])]

\* A pass of any kind is defined.
LEMMA StepsExist ==
  ASSUME NEW kind, NEW r, NEW stack, NEW answers, NEW len \in Nat
  PROVE  \E f : Stepped(kind, r, stack, answers, len, f)
<1> DEFINE S(s, i) == StepOf(kind, s, stack[i], answers[i])
           P(n) == \E f : f = [i \in 0 .. n |-> IF i = 0 THEN By(r, "none") ELSE S(f[i - 1].resolver, i)]
           Bad == {n \in Nat : ~ P(n)}
<1> HIDE DEF S
<1>1. P(0)
  <2> DEFINE f == [i \in 0 .. 0 |-> By(r, "none")]
  <2>1. f = [i \in 0 .. 0 |-> IF i = 0 THEN By(r, "none") ELSE S(f[i - 1].resolver, i)]
    OBVIOUS
  <2> QED
    BY <2>1
<1>2. ASSUME NEW n \in Nat, P(n)
      PROVE  P(n + 1)
  <2>1. PICK f : f = [i \in 0 .. n |-> IF i = 0 THEN By(r, "none") ELSE S(f[i - 1].resolver, i)]
    BY <1>2
  <2> DEFINE g == [i \in 0 .. n + 1 |-> IF i = n + 1 THEN S(f[n].resolver, n + 1) ELSE f[i]]
  <2>2. \A i \in 0 .. n : g[i] = f[i]
    OBVIOUS
  <2>3. ASSUME NEW i \in 0 .. n + 1
        PROVE  g[i] = IF i = 0 THEN By(r, "none") ELSE S(g[i - 1].resolver, i)
    <3>1. CASE i = 0
      BY <2>1, <2>2, <3>1
    <3>2. CASE i = n + 1
      <4>1. i - 1 = n /\ n \in 0 .. n /\ i # 0
        BY <3>2
      <4>2. g[i] = S(f[n].resolver, n + 1)
        BY <3>2
      <4>3. g[i - 1] = f[n]
        BY <2>2, <4>1
      <4> HIDE DEF g
      <4> QED
        BY <3>2, <4>1, <4>2, <4>3
    <3>3. CASE i \in 1 .. n
      <4>1. i - 1 \in 0 .. n /\ i \in 0 .. n /\ i # 0
        BY <3>3
      <4>2. f[i] = S(f[i - 1].resolver, i)
        BY <2>1, <4>1
      <4>3. g[i - 1] = f[i - 1] /\ g[i] = f[i]
        BY <2>2, <4>1
      <4> HIDE DEF g
      <4> QED
        BY <4>1, <4>2, <4>3
    <3> QED
      BY <3>1, <3>2, <3>3
  <2>4. g = [i \in 0 .. n + 1 |-> IF i = 0 THEN By(r, "none") ELSE S(g[i - 1].resolver, i)]
    BY <2>3
  <2> QED
    BY <2>4
<1> HIDE DEF P
<1>3. Bad = {}
  <2> SUFFICES ASSUME Bad # {} PROVE FALSE
    OBVIOUS
  <2>1. PICK n \in Bad : \A k \in Bad : n <= k
    BY LeastNumber
  <2>2. n # 0
    BY <1>1, <2>1
  <2>3. n - 1 \in Nat /\ n - 1 \notin Bad
    BY <2>1, <2>2
  <2>4. P((n - 1) + 1)
    BY <1>2, <2>3
  <2>5. (n - 1) + 1 = n
    BY <2>1
  <2> QED
    BY <2>1, <2>4, <2>5
<1>4. P(len)
  BY <1>3
<1> QED
  BY <1>4 DEF P, S, Stepped

\* The first pass routes each request.
\* The first pass routes each request.
LEMMA RoutePass ==
  ASSUME NEW r, NEW stack, Len(stack) \in Nat, NEW f, f = Routes(r, stack)
  PROVE  /\ f[0] = By(r, "none")
         /\ \A i \in 1 .. Len(stack) : f[i] = Route(f[i - 1].resolver, stack[i])
<1> DEFINE n == Len(stack)
<1>0. n \in Nat
  OBVIOUS
<1> HIDE DEF n
<1>1. \E g : Stepped("route", r, stack, stack, n, g)
  BY <1>0, StepsExist
<1>2. PICK g : g = [i \in 0 .. n |-> IF i = 0 THEN By(r, "none")
                                   ELSE Route(g[i - 1].resolver, stack[i])]
  BY <1>1 DEF Stepped, StepOf
<1>3. f = [i \in 0 .. n |-> IF i = 0 THEN By(r, "none") ELSE Route(f[i - 1].resolver, stack[i])]
  BY <1>2 DEF Steps, Routes, n
<1>4. \A i \in 1 .. n : i \in 0 .. n /\ i # 0
  BY <1>0
<1>5. f[0] = By(r, "none")
  BY <1>0, <1>3
<1>6. \A i \in 1 .. n : f[i] = Route(f[i - 1].resolver, stack[i])
  BY <1>3, <1>4
<1> QED
  BY <1>5, <1>6 DEF n

\* The second reads the objects that were put off.
LEMMA FramePass ==
  ASSUME NEW r, NEW stack, NEW answers, Len(stack) \in Nat, NEW f, f = Frames(r, stack, answers)
  PROVE  /\ f[0] = By(r, "none")
         /\ \A i \in 1 .. Len(stack) : f[i] = finish_module_frame(f[i - 1].resolver, stack[i], answers[i])
<1> DEFINE n == Len(stack)
<1>0. n \in Nat
  OBVIOUS
<1> HIDE DEF n
<1>1. \E g : Stepped("finish", r, stack, answers, n, g)
  BY <1>0, StepsExist
<1>2. PICK g : g = [i \in 0 .. n |-> IF i = 0 THEN By(r, "none")
                                   ELSE finish_module_frame(g[i - 1].resolver, stack[i], answers[i])]
  BY <1>1 DEF Stepped, StepOf
<1>3. f = [i \in 0 .. n |-> IF i = 0 THEN By(r, "none")
          ELSE finish_module_frame(f[i - 1].resolver, stack[i], answers[i])]
  BY <1>2 DEF Steps, Frames, n
<1>4. \A i \in 1 .. n : i \in 0 .. n /\ i # 0
  BY <1>0
<1>5. f[0] = By(r, "none")
  BY <1>0, <1>3
<1>6. \A i \in 1 .. n : f[i] = finish_module_frame(f[i - 1].resolver, stack[i], answers[i])
  BY <1>3, <1>4
<1> QED
  BY <1>5, <1>6 DEF n

\* The script path makes one request after the other.
LEMMA CursorPass ==
  ASSUME NEW r, NEW stack, Len(stack) \in Nat, NEW f, f = Cursors(r, stack)
  PROVE  /\ f[0] = By(r, "none")
         /\ \A i \in 1 .. Len(stack) : f[i] = Cursor(f[i - 1].resolver, stack[i])
<1> DEFINE n == Len(stack)
<1>0. n \in Nat
  OBVIOUS
<1> HIDE DEF n
<1>1. \E g : Stepped("cursor", r, stack, stack, n, g)
  BY <1>0, StepsExist
<1>2. PICK g : g = [i \in 0 .. n |-> IF i = 0 THEN By(r, "none")
                                   ELSE Cursor(g[i - 1].resolver, stack[i])]
  BY <1>1 DEF Stepped, StepOf
<1>3. f = [i \in 0 .. n |-> IF i = 0 THEN By(r, "none") ELSE Cursor(f[i - 1].resolver, stack[i])]
  BY <1>2 DEF Steps, Cursors, n
<1>4. \A i \in 1 .. n : i \in 0 .. n /\ i # 0
  BY <1>0
<1>5. f[0] = By(r, "none")
  BY <1>0, <1>3
<1>6. \A i \in 1 .. n : f[i] = Cursor(f[i - 1].resolver, stack[i])
  BY <1>3, <1>4
<1> QED
  BY <1>5, <1>6 DEF n

\* The folded path makes the references first.
LEMMA ReferencePass ==
  ASSUME NEW r, NEW stack, Len(stack) \in Nat, NEW f, f = References(r, stack)
  PROVE  /\ f[0] = By(r, "none")
         /\ \A i \in 1 .. Len(stack) :
              f[i] = By(initialize_kernel_mapping(f[i - 1].resolver, stack[i]), stack[i])
<1> DEFINE n == Len(stack)
<1>0. n \in Nat
  OBVIOUS
<1> HIDE DEF n
<1>1. \E g : Stepped("reference", r, stack, stack, n, g)
  BY <1>0, StepsExist
<1>2. PICK g : g = [i \in 0 .. n |-> IF i = 0 THEN By(r, "none")
                                   ELSE By(initialize_kernel_mapping(g[i - 1].resolver, stack[i]), stack[i])]
  BY <1>1 DEF Stepped, StepOf
<1>3. f = [i \in 0 .. n |-> IF i = 0 THEN By(r, "none")
          ELSE By(initialize_kernel_mapping(f[i - 1].resolver, stack[i]), stack[i])]
  BY <1>2 DEF Steps, References, n
<1>4. \A i \in 1 .. n : i \in 0 .. n /\ i # 0
  BY <1>0
<1>5. f[0] = By(r, "none")
  BY <1>0, <1>3
<1>6. \A i \in 1 .. n : f[i] = By(initialize_kernel_mapping(f[i - 1].resolver, stack[i]), stack[i])
  BY <1>3, <1>4
<1> QED
  BY <1>5, <1>6 DEF n


-----------------------------------------------------------------------------
\* Stacks.

\* A stack, and the same from the root.
LEMMA StackIs ==
  ASSUME Given, delivered \subseteq Targets, NEW stack \in Stacks
  PROVE  /\ Len(stack) \in Nat /\ stack = [i \in 1 .. Len(stack) |-> stack[i]]
         /\ \A i \in 1 .. Len(stack) : stack[i] \in delivered /\ stack[i] \in Targets
         /\ Len(Reverse(stack)) = Len(stack)
         /\ \A i \in 1 .. Len(stack) : /\ Len(stack) - i + 1 \in 1 .. Len(stack)
                                       /\ Reverse(stack)[i] = stack[Len(stack) - i + 1]
<1>1. MaxStack \in Nat
  BY DEF Given, KernelSourceAssumption
<1>2. PICK n \in 1 .. MaxStack : stack \in [1 .. n -> delivered]
  BY DEF Stacks
<1>3. n \in Nat /\ Len(stack) = n /\ stack \in Seq(delivered)
  BY <1>1, <1>2
<1>4. Reverse(stack) = [i \in 1 .. n |-> stack[n - i + 1]]
  BY <1>3 DEF Reverse
<1>5. Reverse(stack) \in Seq(delivered) /\ Len(Reverse(stack)) = n
  <2>1. Reverse(stack) \in [1 .. n -> delivered]
    BY <1>2, <1>3, <1>4
  <2> HIDE DEF Reverse
  <2> QED
    BY <1>3, <2>1
<1> QED
  BY <1>2, <1>3, <1>4, <1>5

\* What holds first and is kept by every step holds of the last.
LEMMA AllAlong ==
  ASSUME NEW n \in Nat, NEW F, 0 \in F, \A i \in 1 .. n : i - 1 \in F => i \in F
  PROVE  \A i \in 0 .. n : i \in F
<1> DEFINE Bad == {i \in 0 .. n : i \notin F}
<1> SUFFICES ASSUME Bad # {} PROVE FALSE
  OBVIOUS
<1>1. PICK i \in Bad : \A k \in Bad : i <= k
  <2>1. Bad \in SUBSET Nat
    OBVIOUS
  <2> HIDE DEF Bad
  <2> QED
    BY <2>1, LeastNumber
<1>2. i \in 1 .. n /\ i - 1 \in 0 .. n /\ ~(i <= i - 1)
  BY <1>1
<1>3. i - 1 \notin Bad
  BY <1>1, <1>2
<1> QED
  BY <1>1, <1>2, <1>3

\* Frame by frame, the invariant is kept.
LEMMA InOrderGood ==
  ASSUME Given, delivered \subseteq Targets, NEW stack \in Stacks, NEW r, Good(r)
  PROVE  Good(InOrder(r, stack).resolver)
<1> DEFINE f == Cursors(r, stack)
           n == Len(stack)
           F == {i \in 0 .. n : Good(f[i].resolver)}
<1>1. n \in Nat /\ \A i \in 1 .. n : stack[i] \in delivered
  BY StackIs
<1>2. f[0] = By(r, "none") /\ \A i \in 1 .. n : f[i] = Cursor(f[i - 1].resolver, stack[i])
  BY <1>1, CursorPass
<1>3. InOrder(r, stack).resolver = f[n].resolver
  BY DEF InOrder, Outcome
<1> HIDE DEF f, n
<1>4. 0 \in F
  BY <1>1, <1>2 DEF By
<1>5. ASSUME NEW i \in 1 .. n, i - 1 \in F
      PROVE  i \in F
  BY <1>1, <1>2, <1>5, CursorGood
<1> HIDE DEF F
<1>6. n \in F
  BY <1>1, <1>4, <1>5, AllAlong
<1> QED
  BY <1>3, <1>6 DEF F

-----------------------------------------------------------------------------
\* Once the order does not matter.

\* kcore is accepted, or the core is loaded and kcore will not be.
Settled(r) == Good(r) /\ (r.active \/ (r.core_loaded /\ ~kcore_symbols_ref(r)))

\* What a request is answered by.
CoreAnswer ==
  IF world.elf = "usable" THEN "elf"
  ELSE IF Chosen = "none" \/ (Chosen = "live" /\ world.live = "empty")
       THEN IF world.system THEN "system" ELSE "none"
  ELSE Chosen
SourceAnswer(r, m) ==
  IF Chosen = "none" THEN "none"
  ELSE IF r.ordinary[Chosen] = None THEN Chosen ELSE Rows(r.ordinary[Chosen], m, Chosen)
ModuleAnswer(r, m) ==
  IF world.object[m] = "symbols" THEN "object"
  ELSE IF world.object[m] = "empty" THEN "none" ELSE SourceAnswer(r, m)
Answer(r, t) ==
  IF r.active THEN KcoreFrames(t) ELSE IF t = Core THEN CoreAnswer ELSE ModuleAnswer(r, t)

\* Resolvers that answer alike.
Kept(r, s) ==
  /\ Settled(s) /\ s.active = r.active
  /\ world.elf # "unusable" => \A t \in Targets : Answer(s, t) = Answer(r, t)

\* To answer alike is transitive.
LEMMA KeptTwice ==
  ASSUME NEW r, NEW s, NEW u, Kept(r, s), Kept(s, u)
  PROVE  Kept(r, u)
BY DEF Kept

\* The native sources answer alike.
LEMMA ResolveKept ==
  ASSUME Given, NEW t \in Targets, NEW r, Settled(r), ~r.active,
         t = Core => world.elf # "usable",
         NEW b, b = resolve_kernel_source(r, t)
  PROVE  /\ Kept(r, b.resolver) /\ b.answer \in Answers
         /\ b.answer = IF t = Core THEN CoreAnswer ELSE SourceAnswer(r, t)
<1>1. /\ Good(r) /\ Base(r) /\ r.core_loaded /\ ~kcore_symbols_ref(r) /\ r.cache /\ ~KcoreActive(r)
      /\ world.elf = "none" => Completed(r)
  BY DEF Settled, Good, Base, KcoreOK, CoreOK, KcoreActive
<1>2. world.elf = "none" => Finished(r)
  BY <1>1, WorldIs DEF Completed, Finished, Pins, Sources
<1>3. CASE t = Core
  <2>1. b = ResolveCoreSource(r)
    BY <1>1, <1>3 DEF resolve_kernel_source
  <2>2. /\ Good(b.resolver) /\ b.resolver.core_loaded /\ Flags(r, b.resolver)
        /\ b.answer = IF Chosen = "none" \/ (Chosen = "live" /\ world.live = "empty")
                      THEN IF world.system THEN "system" ELSE "none" ELSE Chosen
        /\ Finished(r) => b.resolver = r
    BY <1>1, <2>1, CoreSourceGood
  <2>3. Settled(b.resolver) /\ b.resolver.active = r.active
    BY <1>1, <2>2 DEF Settled, Flags, kcore_symbols_ref
  <2>4. world.elf # "unusable" => b.resolver = r
    BY <1>2, <1>3, <2>2, WorldIs
  <2>5. b.answer = CoreAnswer /\ b.answer \in Answers
    BY <1>3, <2>2, WorldIs DEF CoreAnswer, Answers, Pins
  <2> QED
    BY <1>3, <2>3, <2>4, <2>5 DEF Kept
<1>4. CASE t # Core
  <2>1. t \in Modules /\ b = ResolveModuleSource(r, t)
    BY <1>1, <1>4 DEF resolve_kernel_source, Targets
  <2>2. /\ Good(b.resolver) /\ Flags(r, b.resolver) /\ b.resolver.core_loaded
        /\ Completed(b.resolver)
        /\ \A s \in Sources : b.resolver.ordinary[s] # r.ordinary[s] =>
             s = Chosen /\ r.ordinary[s] = None /\ b.resolver.ordinary[s] = NoContext
        /\ b.answer = SourceAnswer(r, t)
        /\ Finished(r) => b.resolver = r
    BY <1>1, <2>1, ModuleSourceGood DEF SourceAnswer
  <2>3. Settled(b.resolver) /\ b.resolver.active = r.active
    BY <1>1, <2>2 DEF Settled, Flags, kcore_symbols_ref
  <2>4. ASSUME NEW m \in Modules
        PROVE  SourceAnswer(b.resolver, m) = SourceAnswer(r, m)
    <3>1. CASE Chosen = "none"
      BY <3>1 DEF SourceAnswer
    <3>2. CASE Chosen # "none"
      <4>1. Chosen \in Sources /\ b.resolver.ordinary[Chosen] # None
        BY <2>2, <3>2, WorldIs DEF Completed, Pins
      <4>2. CASE b.resolver.ordinary[Chosen] = r.ordinary[Chosen]
        BY <4>2 DEF SourceAnswer
      <4>3. CASE b.resolver.ordinary[Chosen] # r.ordinary[Chosen]
        <5>1. r.ordinary[Chosen] = None /\ b.resolver.ordinary[Chosen] = NoContext
          BY <2>2, <4>1, <4>3
        <5>2. NoContext.modules = Modules /\ NoContext.loaded = {}
          BY DEF NoContext
        <5> QED
          BY <3>2, <5>1, <5>2 DEF SourceAnswer, Rows
      <4> QED
        BY <4>2, <4>3
    <3> QED
      BY <3>1, <3>2
  <2>5. \A u \in Targets : Answer(b.resolver, u) = Answer(r, u)
    BY <2>3, <2>4 DEF Answer, ModuleAnswer, Targets
  <2>6. b.answer \in Answers
    BY <2>2, WorldIs DEF SourceAnswer, Answers, Pins, Rows, Rest
  <2> QED
    BY <1>4, <2>2, <2>3, <2>5, <2>6 DEF Kept
<1> QED
  BY <1>3, <1>4

\* A request has its answer, or waits for its object, and changes none.
LEMMA RouteKept ==
  ASSUME Given, NEW t \in Targets, NEW r, Settled(r), NEW b, b = Route(r, t)
  PROVE  /\ Kept(r, b.resolver) /\ b.answer # "old"
         /\ b.answer = "module" => ~r.active /\ t # Core /\ world.object[t] \in {"unavailable", "symbols"}
         /\ b.answer # "module" /\ world.elf # "unusable" => b.answer = Answer(r, t)
<1>0. Kept(r, r) /\ Good(r) /\ Base(r)
  BY DEF Kept, Settled, Good
<1>1. CASE r.active
  <2>1. kcore_symbols_ref(r)
    BY <1>0, <1>1 DEF Base, KcoreOK
  <2>2. b = IF t \notin world.ranges THEN By(r, "unmapped") ELSE By(activate_kcore(r), "kcore")
    BY <1>1, <2>1 DEF Route
  <2>3. activate_kcore(r) = r
    BY <1>0, <1>1, <2>1, ActivateGood
  <2>4. b.resolver = r /\ b.answer = KcoreFrames(t) /\ b.answer \in {"unmapped", "kcore"}
    BY <2>2, <2>3 DEF By, KcoreFrames
  <2> QED
    BY <1>0, <1>1, <2>4 DEF Answer
<1>2. CASE ~r.active
  <2>1. r.core_loaded /\ ~kcore_symbols_ref(r) /\ r.cache
    BY <1>0, <1>2 DEF Settled, Base, KcoreOK
  <2>2. CASE t # Core
    <3>1. t \in Modules
      BY <2>2 DEF Targets
    <3>2. record_ordinary_module_load(r, t) = r
      BY <2>1 DEF record_ordinary_module_load
    <3>3. b = CASE world.object[t] = "none" -> resolve_kernel_source(r, t)
                [] world.object[t] = "empty" -> By(r, "none")
                [] OTHER -> Later(r, "module")
      BY <2>1, <2>2, <3>2 DEF Route
    <3>4. CASE world.object[t] = "none"
      <4>1. b = resolve_kernel_source(r, t)
        BY <3>3, <3>4
      <4>2. /\ Kept(r, b.resolver) /\ b.answer \in Answers /\ b.answer = SourceAnswer(r, t)
        BY <1>2, <2>2, <4>1, ResolveKept
      <4> QED
        BY <1>2, <2>2, <3>4, <4>2 DEF Answers, Pins, Sources, Answer, ModuleAnswer
    <3>5. CASE world.object[t] = "empty"
      <4>1. b.resolver = r /\ b.answer = "none"
        BY <3>3, <3>5 DEF By
      <4> QED
        BY <1>0, <1>2, <2>2, <3>5, <4>1 DEF Answer, ModuleAnswer
    <3>6. CASE world.object[t] \notin {"none", "empty"}
      <4>1. b.resolver = r /\ b.answer = "module"
        BY <3>3, <3>6 DEF Later
      <4> QED
        BY <1>0, <1>2, <2>2, <3>1, <3>6, <4>1, WorldIs
    <3> QED
      BY <3>4, <3>5, <3>6
  <2>3. CASE t = Core /\ world.elf = "usable"
    <3>1. b.resolver = [r EXCEPT !.core_loaded = TRUE] /\ b.answer = "elf"
      BY <2>1, <2>3 DEF Route, kernel_elf, By
    <3>2. b.resolver = r
      BY <1>0, <2>1, <3>1, LoadIs DEF Base
    <3> QED
      BY <1>0, <1>2, <2>3, <3>1, <3>2 DEF Answer, CoreAnswer
  <2>4. CASE t = Core /\ world.elf # "usable"
    <3>1. b = resolve_kernel_source(r, t)
      BY <2>1, <2>4 DEF Route, kernel_elf
    <3>2. /\ Kept(r, b.resolver) /\ b.answer \in Answers /\ b.answer = CoreAnswer
      BY <1>2, <2>4, <3>1, ResolveKept
    <3> QED
      BY <1>2, <2>4, <3>2 DEF Answers, Pins, Sources, Answer
  <2> QED
    BY <2>2, <2>3, <2>4
<1> QED
  BY <1>1, <1>2

\* A request that waited for its object has its answer.
LEMMA FrameKept ==
  ASSUME Given, NEW t \in Targets, NEW r, Settled(r), NEW which, which # "old",
         which = "module" => ~r.active /\ t # Core /\ world.object[t] \in {"unavailable", "symbols"},
         NEW b, b = finish_module_frame(r, t, which)
  PROVE  /\ Kept(r, b.resolver)
         /\ b.answer = IF which = "module" THEN Answer(r, t) ELSE which
<1>0. Kept(r, r)
  BY DEF Kept
<1>1. CASE which = "module" /\ world.object[t] = "symbols"
  <2>1. b.resolver = r /\ b.answer = "object"
    BY <1>1 DEF finish_module_frame, By
  <2> QED
    BY <1>0, <1>1, <2>1 DEF Answer, ModuleAnswer
<1>2. CASE which = "module" /\ world.object[t] # "symbols"
  <2>1. b = resolve_kernel_source(r, t)
    BY <1>2 DEF finish_module_frame
  <2>2. Kept(r, b.resolver) /\ b.answer = SourceAnswer(r, t)
    BY <1>2, <2>1, ResolveKept
  <2> QED
    BY <1>2, <2>2 DEF Answer, ModuleAnswer
<1>3. CASE which # "module"
  <2>1. b.resolver = r /\ b.answer = which
    BY <1>3 DEF finish_module_frame, By
  <2> QED
    BY <1>0, <1>3, <2>1
<1> QED
  BY <1>1, <1>2, <1>3

\* A reference changes no answer.
LEMMA MappingKept ==
  ASSUME Given, delivered \subseteq Targets, NEW t \in delivered, NEW r, Settled(r),
         NEW i, i = initialize_kernel_mapping(r, t)
  PROVE  Kept(r, i)
<1>1. Good(r)
  BY DEF Settled
<1>2. i.active = r.active /\ (r.core_loaded => i = r) /\ (r.active => Good(i))
  BY <1>1, MappingGood
<1>3. CASE r.active
  BY <1>2, <1>3 DEF Kept, Settled, Answer
<1>4. CASE ~r.active
  BY <1>2, <1>4 DEF Kept, Settled
<1> QED
  BY <1>3, <1>4

\* A frame of the script path has its answer and changes none.
LEMMA CursorKept ==
  ASSUME Given, delivered \subseteq Targets, NEW t \in delivered, NEW r, Settled(r),
         NEW b, b = Cursor(r, t)
  PROVE  Kept(r, b.resolver) /\ (world.elf # "unusable" => b.answer = Answer(r, t))
<1> DEFINE i == initialize_kernel_mapping(r, t)
           q == Route(i, t)
<1>0. t \in Targets /\ b = finish_module_frame(q.resolver, t, q.answer)
  BY DEF Cursor
<1>1. Kept(r, i)
  BY MappingKept
<1> HIDE DEF i
<1>2. /\ Kept(i, q.resolver) /\ q.answer # "old"
      /\ q.answer = "module" => ~i.active /\ t # Core /\ world.object[t] \in {"unavailable", "symbols"}
      /\ q.answer # "module" /\ world.elf # "unusable" => q.answer = Answer(i, t)
  BY <1>0, <1>1, RouteKept DEF Kept
<1> HIDE DEF q
<1>3. /\ Kept(q.resolver, b.resolver)
      /\ b.answer = IF q.answer = "module" THEN Answer(q.resolver, t) ELSE q.answer
  BY <1>0, <1>2, FrameKept DEF Kept
<1>4. Kept(r, b.resolver)
  BY <1>1, <1>2, <1>3, KeptTwice
<1>5. world.elf # "unusable" => Answer(q.resolver, t) = Answer(r, t) /\ Answer(i, t) = Answer(r, t)
  BY <1>0, <1>1, <1>2 DEF Kept
<1> QED
  BY <1>2, <1>3, <1>4, <1>5

\* The requests of a batch, before the objects are read.
LEMMA RoutesKept ==
  ASSUME Given, NEW r, Settled(r), NEW stack, Len(stack) \in Nat,
         \A i \in 1 .. Len(stack) : stack[i] \in Targets,
         NEW o, o = Outcome(Routes(r, stack), stack)
  PROVE  /\ Kept(r, o.resolver)
         /\ \A i \in 1 .. Len(stack) :
              /\ o.answers[i] # "old"
              /\ o.answers[i] = "module" =>
                   ~r.active /\ stack[i] # Core /\ world.object[stack[i]] \in {"unavailable", "symbols"}
              /\ o.answers[i] # "module" /\ world.elf # "unusable" => o.answers[i] = Answer(r, stack[i])
<1> DEFINE f == Routes(r, stack)
           n == Len(stack)
           F == {i \in 0 .. n : Kept(r, f[i].resolver)}
<1>1. n \in Nat /\ \A i \in 1 .. n : stack[i] \in Targets
  OBVIOUS
<1>2. f[0] = By(r, "none") /\ \A i \in 1 .. n : f[i] = Route(f[i - 1].resolver, stack[i])
  BY RoutePass
<1>3. o.resolver = f[n].resolver /\ \A i \in 1 .. n : o.answers[i] = f[i].answer
  BY DEF Outcome
<1> HIDE DEF f, n
<1>4. 0 \in F
  BY <1>1, <1>2 DEF By, Kept
<1>5. ASSUME NEW i \in 1 .. n, Kept(r, f[i - 1].resolver)
      PROVE  /\ Kept(r, f[i].resolver) /\ f[i].answer # "old"
             /\ f[i].answer = "module" =>
                  ~r.active /\ stack[i] # Core /\ world.object[stack[i]] \in {"unavailable", "symbols"}
             /\ f[i].answer # "module" /\ world.elf # "unusable" => f[i].answer = Answer(r, stack[i])
  <2> DEFINE q == f[i - 1].resolver
             t == stack[i]
  <2>1. f[i] = Route(q, t) /\ t \in Targets /\ Kept(r, q)
    BY <1>1, <1>2, <1>5
  <2> HIDE DEF q, t
  <2>2. /\ Kept(q, f[i].resolver) /\ f[i].answer # "old"
        /\ f[i].answer = "module" => ~q.active /\ t # Core /\ world.object[t] \in {"unavailable", "symbols"}
        /\ f[i].answer # "module" /\ world.elf # "unusable" => f[i].answer = Answer(q, t)
    BY <2>1, RouteKept DEF Kept
  <2>3. Kept(r, f[i].resolver)
    BY <2>1, <2>2, KeptTwice
  <2>4. q.active = r.active /\ (world.elf # "unusable" => Answer(q, t) = Answer(r, t))
    BY <2>1 DEF Kept
  <2> QED
    BY <2>2, <2>3, <2>4 DEF t
<1>6. \A i \in 1 .. n : i - 1 \in F => i \in F
  BY <1>1, <1>5
<1> HIDE DEF F
<1>7. \A i \in 0 .. n : i \in F
  BY <1>1, <1>4, <1>6, AllAlong
<1>8. Kept(r, f[n].resolver) /\ \A i \in 1 .. n : Kept(r, f[i - 1].resolver)
  <2>1. n \in 0 .. n /\ \A i \in 1 .. n : i - 1 \in 0 .. n
    BY <1>1
  <2> QED
    BY <1>7, <2>1 DEF F
<1> QED
  BY <1>3, <1>5, <1>8 DEF n

\* The requests of a batch, when they are.
LEMMA FramesKept ==
  ASSUME Given, NEW r, Settled(r), NEW stack, Len(stack) \in Nat, NEW which,
         \A i \in 1 .. Len(stack) :
              /\ stack[i] \in Targets /\ which[i] # "old"
              /\ which[i] = "module" =>
                   ~r.active /\ stack[i] # Core /\ world.object[stack[i]] \in {"unavailable", "symbols"}
              /\ which[i] # "module" /\ world.elf # "unusable" => which[i] = Answer(r, stack[i]),
         NEW o, o = Outcome(Frames(r, stack, which), stack)
  PROVE  /\ Kept(r, o.resolver)
         /\ world.elf # "unusable" => o.answers = [i \in 1 .. Len(stack) |-> Answer(r, stack[i])]
<1> DEFINE f == Frames(r, stack, which)
           n == Len(stack)
           F == {i \in 0 .. n : Kept(r, f[i].resolver)}
<1>1. /\ n \in Nat
      /\ \A i \in 1 .. n :
              /\ stack[i] \in Targets /\ which[i] # "old"
              /\ which[i] = "module" =>
                   ~r.active /\ stack[i] # Core /\ world.object[stack[i]] \in {"unavailable", "symbols"}
              /\ which[i] # "module" /\ world.elf # "unusable" => which[i] = Answer(r, stack[i])
  OBVIOUS
<1>2. f[0] = By(r, "none") /\ \A i \in 1 .. n :
          f[i] = finish_module_frame(f[i - 1].resolver, stack[i], which[i])
  BY FramePass
<1>3. o.resolver = f[n].resolver /\ o.answers = [i \in 1 .. n |-> f[i].answer]
  BY DEF Outcome
<1> HIDE DEF f, n
<1>4. 0 \in F
  BY <1>1, <1>2 DEF By, Kept
<1>5. ASSUME NEW i \in 1 .. n, Kept(r, f[i - 1].resolver)
      PROVE  Kept(r, f[i].resolver) /\ (world.elf # "unusable" => f[i].answer = Answer(r, stack[i]))
  <2> DEFINE q == f[i - 1].resolver
             t == stack[i]
             w == which[i]
  <2>1. /\ f[i] = finish_module_frame(q, t, w) /\ t \in Targets /\ Kept(r, q) /\ w # "old"
        /\ w = "module" => ~r.active /\ t # Core /\ world.object[t] \in {"unavailable", "symbols"}
        /\ w # "module" /\ world.elf # "unusable" => w = Answer(r, t)
    BY <1>1, <1>2, <1>5
  <2> HIDE DEF q, t, w
  <2>2. /\ Kept(q, f[i].resolver) /\ f[i].answer = IF w = "module" THEN Answer(q, t) ELSE w
    BY <2>1, FrameKept DEF Kept
  <2>3. Kept(r, f[i].resolver)
    BY <2>1, <2>2, KeptTwice
  <2>4. world.elf # "unusable" => Answer(q, t) = Answer(r, t)
    BY <2>1 DEF Kept
  <2> QED
    BY <2>1, <2>2, <2>3, <2>4 DEF t
<1>6. \A i \in 1 .. n : i - 1 \in F => i \in F
  BY <1>1, <1>5
<1> HIDE DEF F
<1>7. \A i \in 0 .. n : i \in F
  BY <1>1, <1>4, <1>6, AllAlong
<1>8. Kept(r, f[n].resolver) /\ \A i \in 1 .. n : Kept(r, f[i - 1].resolver)
  <2>1. n \in 0 .. n /\ \A i \in 1 .. n : i - 1 \in 0 .. n
    BY <1>1
  <2> QED
    BY <1>7, <2>1 DEF F
<1>9. world.elf # "unusable" => o.answers = [i \in 1 .. n |-> Answer(r, stack[i])]
  BY <1>3, <1>5, <1>8
<1> QED
  BY <1>3, <1>8, <1>9 DEF n

\* A batch is answered like its requests.
LEMMA BatchKept ==
  ASSUME Given, NEW r, Settled(r), NEW stack, Len(stack) \in Nat,
         \A i \in 1 .. Len(stack) : stack[i] \in Targets,
         NEW b, b = RoutedBatch(r, stack)
  PROVE  /\ Kept(r, b.resolver)
         /\ world.elf # "unusable" => b.answers = [i \in 1 .. Len(stack) |-> Answer(r, stack[i])]
         /\ b = [resolver |-> b.resolver, answers |-> b.answers]
<1> DEFINE o == Outcome(Routes(r, stack), stack)
           p == Outcome(Frames(o.resolver, stack, o.answers), stack)
<1>1. /\ Kept(r, o.resolver)
      /\ \A i \in 1 .. Len(stack) :
           /\ o.answers[i] # "old"
           /\ o.answers[i] = "module" =>
                ~r.active /\ stack[i] # Core /\ world.object[stack[i]] \in {"unavailable", "symbols"}
           /\ o.answers[i] # "module" /\ world.elf # "unusable" => o.answers[i] = Answer(r, stack[i])
  BY RoutesKept
<1>2. b = p
  BY DEF RoutedBatch
<1> HIDE DEF o
<1>3. \A i \in 1 .. Len(stack) :
           /\ stack[i] \in Targets /\ o.answers[i] # "old"
           /\ o.answers[i] = "module" =>
                ~o.resolver.active /\ stack[i] # Core /\ world.object[stack[i]] \in {"unavailable", "symbols"}
           /\ o.answers[i] # "module" /\ world.elf # "unusable" => o.answers[i] = Answer(o.resolver, stack[i])
  BY <1>1 DEF Kept
<1>4. Settled(o.resolver)
  BY <1>1 DEF Kept
<1>5. /\ Kept(o.resolver, p.resolver)
      /\ world.elf # "unusable" => p.answers = [i \in 1 .. Len(stack) |-> Answer(o.resolver, stack[i])]
  BY <1>3, <1>4, FramesKept
<1>6. p = [resolver |-> p.resolver, answers |-> p.answers]
  BY DEF Outcome
<1> HIDE DEF p
<1>7. Kept(r, p.resolver)
  BY <1>1, <1>5, KeptTwice
<1>8. world.elf # "unusable" => \A i \in 1 .. Len(stack) : Answer(o.resolver, stack[i]) = Answer(r, stack[i])
  BY <1>1 DEF Kept
<1>9. world.elf # "unusable" => p.answers = [i \in 1 .. Len(stack) |-> Answer(r, stack[i])]
  BY <1>5, <1>8
<1> QED
  BY <1>2, <1>6, <1>7, <1>9

\* The script path gives every frame its answer.
LEMMA InOrderKept ==
  ASSUME Given, delivered \subseteq Targets, NEW r, Settled(r), NEW stack \in Stacks,
         NEW o, o = InOrder(r, stack)
  PROVE  world.elf # "unusable" => o.answers = [i \in 1 .. Len(stack) |-> Answer(r, stack[i])]
<1> DEFINE f == Cursors(r, stack)
           n == Len(stack)
           F == {i \in 0 .. n : Kept(r, f[i].resolver)}
<1>1. n \in Nat /\ \A i \in 1 .. n : stack[i] \in delivered /\ stack[i] \in Targets
  BY StackIs
<1>2. f[0] = By(r, "none") /\ \A i \in 1 .. n : f[i] = Cursor(f[i - 1].resolver, stack[i])
  BY <1>1, CursorPass
<1>3. o.answers = [i \in 1 .. n |-> f[i].answer]
  BY DEF Outcome, InOrder
<1> HIDE DEF f, n
<1>4. 0 \in F
  BY <1>1, <1>2 DEF By, Kept
<1>5. ASSUME NEW i \in 1 .. n, Kept(r, f[i - 1].resolver)
      PROVE  Kept(r, f[i].resolver) /\ (world.elf # "unusable" => f[i].answer = Answer(r, stack[i]))
  <2> DEFINE q == f[i - 1].resolver
             t == stack[i]
  <2>1. f[i] = Cursor(q, t) /\ t \in delivered /\ t \in Targets /\ Kept(r, q)
    BY <1>1, <1>2, <1>5
  <2> HIDE DEF q, t
  <2>2. /\ Kept(q, f[i].resolver) /\ (world.elf # "unusable" => f[i].answer = Answer(q, t))
    BY <2>1, CursorKept DEF Kept
  <2>3. Kept(r, f[i].resolver)
    BY <2>1, <2>2, KeptTwice
  <2>4. world.elf # "unusable" => Answer(q, t) = Answer(r, t)
    BY <2>1 DEF Kept
  <2> QED
    BY <2>2, <2>3, <2>4 DEF t
<1>6. \A i \in 1 .. n : i - 1 \in F => i \in F
  BY <1>1, <1>5
<1> HIDE DEF F
<1>7. \A i \in 0 .. n : i \in F
  BY <1>1, <1>4, <1>6, AllAlong
<1>8. \A i \in 1 .. n : Kept(r, f[i - 1].resolver)
  <2>1. \A i \in 1 .. n : i - 1 \in 0 .. n
    BY <1>1
  <2> QED
    BY <1>7, <2>1 DEF F
<1> QED
  BY <1>3, <1>5, <1>8 DEF n

\* The references of a batch change no answer.
LEMMA ReferencesKept ==
  ASSUME Given, delivered \subseteq Targets, NEW r, Settled(r), NEW stack, Len(stack) \in Nat,
         \A i \in 1 .. Len(stack) : stack[i] \in delivered
  PROVE  Kept(r, Outcome(References(r, stack), stack).resolver)
<1> DEFINE f == References(r, stack)
           n == Len(stack)
           F == {i \in 0 .. n : Kept(r, f[i].resolver)}
<1>1. n \in Nat /\ \A i \in 1 .. n : stack[i] \in delivered
  OBVIOUS
<1>2. f[0] = By(r, "none") /\ \A i \in 1 .. n :
          f[i] = By(initialize_kernel_mapping(f[i - 1].resolver, stack[i]), stack[i])
  BY ReferencePass
<1>3. Outcome(References(r, stack), stack).resolver = f[n].resolver
  BY DEF Outcome
<1> HIDE DEF f, n
<1>4. 0 \in F
  BY <1>1, <1>2 DEF By, Kept
<1>5. ASSUME NEW i \in 1 .. n, Kept(r, f[i - 1].resolver)
      PROVE  Kept(r, f[i].resolver)
  <2>1. f[i] = By(initialize_kernel_mapping(f[i - 1].resolver, stack[i]), stack[i]) /\ stack[i] \in delivered
    BY <1>1, <1>2
  <2>2. f[i].resolver = initialize_kernel_mapping(f[i - 1].resolver, stack[i])
    BY <2>1 DEF By
  <2>3. Kept(f[i - 1].resolver, f[i].resolver)
    BY <1>5, <2>1, <2>2, MappingKept DEF Kept
  <2> QED
    BY <1>5, <2>3, KeptTwice
<1>6. \A i \in 1 .. n : i - 1 \in F => i \in F
  BY <1>1, <1>5
<1> HIDE DEF F
<1>7. \A i \in 0 .. n : i \in F
  BY <1>1, <1>4, <1>6, AllAlong
<1>8. Kept(r, f[n].resolver)
  <2>1. n \in 0 .. n
    BY <1>1
  <2> QED
    BY <1>7, <2>1 DEF F
<1> QED
  BY <1>3, <1>8

\* The folded path gives every frame its answer, although it begins at the root.
LEMMA PrefetchedKept ==
  ASSUME Given, delivered \subseteq Targets, NEW r, Settled(r), NEW stack \in Stacks,
         NEW o, o = Prefetched(r, stack)
  PROVE  /\ Settled(o.resolver)
         /\ world.elf # "unusable" => o.answers = [i \in 1 .. Len(stack) |-> Answer(r, stack[i])]
<1> DEFINE n == Len(stack)
           root == Reverse(stack)
           m == Outcome(References(r, root), root).resolver
           b == RoutedBatch(m, root)
<1>1. /\ n \in Nat /\ Len(root) = n
      /\ \A i \in 1 .. n : stack[i] \in delivered /\ stack[i] \in Targets
      /\ \A i \in 1 .. n : n - i + 1 \in 1 .. n /\ root[i] = stack[n - i + 1]
  BY StackIs
<1>2. o = [b EXCEPT !.answers = Reverse(b.answers)]
  BY DEF Prefetched
<1> HIDE DEF root, n
<1>3. \A i \in 1 .. n : root[i] \in delivered /\ root[i] \in Targets
  BY <1>1
<1>4. Kept(r, m)
  BY <1>1, <1>3, ReferencesKept
<1> HIDE DEF m
<1>5. /\ Kept(m, b.resolver)
      /\ world.elf # "unusable" => b.answers = [i \in 1 .. n |-> Answer(m, root[i])]
      /\ b = [resolver |-> b.resolver, answers |-> b.answers]
  <2> DEFINE c == RoutedBatch(m, root)
  <2>1. Settled(m) /\ Len(root) \in Nat /\ \A i \in 1 .. Len(root) : root[i] \in Targets
    BY <1>1, <1>3, <1>4 DEF Kept
  <2>2. /\ Kept(m, c.resolver)
        /\ world.elf # "unusable" => c.answers = [i \in 1 .. Len(root) |-> Answer(m, root[i])]
        /\ c = [resolver |-> c.resolver, answers |-> c.answers]
    BY <2>1, BatchKept
  <2> QED
    BY <1>1, <2>2
<1> HIDE DEF b
<1>6. o.resolver = b.resolver /\ o.answers = Reverse(b.answers)
  BY <1>2, <1>5
<1>7. ASSUME world.elf # "unusable"
      PROVE  o.answers = [i \in 1 .. n |-> Answer(r, stack[i])]
  <2> DEFINE a == b.answers
  <2>1. a = [i \in 1 .. n |-> Answer(m, root[i])]
    BY <1>5, <1>7
  <2>2. Len(a) = n
    BY <1>1, <2>1
  <2>3. \A i \in 1 .. n : n - i + 1 \in 1 .. n /\ n - (n - i + 1) + 1 = i
    BY <1>1
  <2>4. \A i \in 1 .. n : root[n - i + 1] = stack[i]
    BY <1>1, <2>3
  <2>5. \A i \in 1 .. n : a[n - i + 1] = Answer(r, stack[i])
    <3>1. ASSUME NEW i \in 1 .. n PROVE a[n - i + 1] = Answer(r, stack[i])
      <4>1. a[n - i + 1] = Answer(m, root[n - i + 1])
        BY <2>1, <2>3
      <4>2. Answer(m, stack[i]) = Answer(r, stack[i])
        BY <1>1, <1>4, <1>7 DEF Kept
      <4> QED
        BY <2>4, <4>1, <4>2
    <3> QED
      BY <3>1
  <2> HIDE DEF a
  <2>6. Reverse(a) = [i \in 1 .. n |-> a[n - i + 1]]
    BY <2>2 DEF Reverse
  <2> QED
    BY <1>6, <2>5, <2>6 DEF a
<1> QED
  BY <1>5, <1>6, <1>7 DEF Kept, n

\* The order is said not to matter when no answer can change any more.
LEMMA OrderSettles ==
  ASSUME NEW r, Good(r), ~requires_kernel_cursor_order(r)
  PROVE  Settled(r)
BY DEF requires_kernel_cursor_order, Settled

\* The folded path keeps the invariant.
LEMMA RenderedGood ==
  ASSUME Given, delivered \subseteq Targets, NEW stack \in Stacks, NEW r, Good(r)
  PROVE  Good(Rendered(r, stack).resolver)
<1>1. CASE requires_kernel_cursor_order(r)
  BY <1>1, InOrderGood DEF Rendered
<1>2. CASE ~requires_kernel_cursor_order(r)
  <2>1. Settled(r) /\ Rendered(r, stack) = Prefetched(r, stack)
    BY <1>2, OrderSettles DEF Rendered
  <2> QED
    BY <2>1, PrefetchedKept DEF Settled
<1> QED
  BY <1>1, <1>2

-----------------------------------------------------------------------------
\* Steps.

\* A fresh resolver satisfies the invariant.
LEMMA InitKernel ==
  ASSUME KernelSourceAssumption, Init
  PROVE  KernelInv
<1>1. Given /\ delivered = {} /\ resolver = Fresh /\ preprocessed = {}
  BY DEF Init, Given
<1>2. /\ Fresh \in Resolvers /\ ~Fresh.overdrawn /\ Fresh.prepared = Sources /\ ~Fresh.active /\ ~Fresh.cache
      /\ Fresh.pin = "unset" /\ ~Fresh.core_loaded /\ Fresh.kcore = "unset" /\ Fresh.context = None
      /\ \A s \in Sources : Fresh.ordinary[s] = None
  BY DEF Fresh, Resolvers, Sources
<1> HIDE DEF Fresh
<1>3. LoadsOK(Fresh) /\ KcoreOK(Fresh) /\ CoreOK(Fresh)
  BY <1>2 DEF LoadsOK, KcoreOK, CoreOK, Untouched, kcore_symbols_ref
<1> QED
  BY <1>1, <1>2, <1>3 DEF KernelInv, Good, Base

\* What is good of a resolver depends on the world only.
LEMMA GoodLater ==
  ASSUME Good(resolver'), world' = world
  PROVE  Good(resolver)'
BY DEF Good, Base, LoadsOK, KcoreOK, CoreOK, Completed, Chosen, Untouched, kcore_symbols_ref

\* The instruction of a sample keeps the invariant.
LEMMA SampleIpKeeps ==
  ASSUME KernelInv, NEW t \in Targets, NEW callchain \in BOOLEAN, SampleIp(t, callchain)
  PROVE  KernelInv'
<1> DEFINE r == initialize_kernel_mapping(resolver, t)
<1>1. /\ Given /\ delivered \subseteq Targets /\ Good(resolver) /\ t \in delivered
      /\ world' = world /\ delivered' = delivered
      /\ resolver' = IF t \in preprocessed THEN r ELSE IF callchain THEN preprocess_sample_ip(r, t)
                     ELSE preprocess_sample_ip_with_cursor(r, t)
      /\ preprocessed \subseteq Modules
  BY DEF KernelInv, SampleIp, PreprocessOnce
<1>2. Base(r) /\ (t # Core => Good(r)) /\ (t = Core => r.cache)
  BY <1>1, MappingGood
<1> HIDE DEF r
<1>3. Good(preprocess_sample_ip(r, t)) /\ Good(preprocess_sample_ip_with_cursor(r, t))
  BY <1>1, <1>2, PreprocessGood, PreprocessCursorGood
<1>4. t \in preprocessed => t # Core
  BY <1>1 DEF Given, KernelSourceAssumption
<1>5. Good(resolver')
  BY <1>1, <1>2, <1>3, <1>4
<1>6. preprocessed' \subseteq Modules
  BY <1>1 DEF SampleIp, Targets
<1> QED
  BY <1>1, <1>5, <1>6, GoodLater DEF KernelInv, Given

\* So does every step.
LEMMA KernelNextKeeps ==
  ASSUME KernelInv, [Next]_vars
  PROVE  KernelInv'
<1>0. Given /\ delivered \subseteq Targets /\ Good(resolver) /\ preprocessed \subseteq Modules
  BY DEF KernelInv
<1>1. ASSUME NEW t \in Targets, Deliver(t) PROVE KernelInv'
  <2>1. world' = world /\ resolver' = resolver /\ delivered' = delivered \cup {t}
            /\ preprocessed' = preprocessed
    BY <1>1 DEF Deliver
  <2> QED
    BY <1>0, <2>1, GoodLater DEF KernelInv, Given
<1>2. ASSUME NEW t \in Targets, NEW callchain \in BOOLEAN, SampleIp(t, callchain) PROVE KernelInv'
  BY <1>2, SampleIpKeeps
<1>3. ASSUME NEW stack \in Stacks, ScriptFrames(stack) PROVE KernelInv'
  <2>1. world' = world /\ resolver' = InOrder(resolver, stack).resolver /\ delivered' = delivered
            /\ preprocessed' = preprocessed
    BY <1>3 DEF ScriptFrames
  <2>2. Good(resolver')
    BY <1>0, <2>1, InOrderGood
  <2> QED
    BY <1>0, <2>1, <2>2, GoodLater DEF KernelInv, Given
<1>4. ASSUME NEW stack \in Stacks, FoldedFrames(stack) PROVE KernelInv'
  <2>1. world' = world /\ resolver' = Rendered(resolver, stack).resolver /\ delivered' = delivered
            /\ preprocessed' = preprocessed
    BY <1>4 DEF FoldedFrames
  <2>2. Good(resolver')
    BY <1>0, <2>1, RenderedGood
  <2> QED
    BY <1>0, <2>1, <2>2, GoodLater DEF KernelInv, Given
<1>5. CASE UNCHANGED vars
  <2>1. world' = world /\ resolver' = resolver /\ delivered' = delivered /\ preprocessed' = preprocessed
    BY <1>5 DEF vars
  <2> QED
    BY <1>0, <2>1, GoodLater DEF KernelInv, Given
<1> QED
  BY <1>1, <1>2, <1>3, <1>4, <1>5 DEF Next

\* The invariant is strong enough.
LEMMA KernelInvIs ==
  ASSUME KernelInv
  PROVE  SourcesExact
<1>1. Given /\ delivered \subseteq Targets /\ Good(resolver) /\ Base(resolver) /\ resolver \in Resolvers
  BY DEF KernelInv, Good, Base
<1>2. CompletedOnce
  BY <1>1 DEF CompletedOnce, Base, LoadsOK, Chosen
<1>3. KcoreReplaces
  <2>1. resolver.ordinary \in [Sources -> Contexts \cup {None}]
    BY <1>1 DEF Resolvers
  <2> QED
    BY <1>1, <2>1 DEF KcoreReplaces, Base, KcoreOK, kcore_symbols_ref, Untouched
<1>4. ASSUME world.elf = "none", NEW m \in resolver.before
      PROVE  resolve_kernel_source(resolver, m).answer \notin Sources
  <2> DEFINE b == resolve_kernel_source(resolver, m)
  <2>0. m \in Modules /\ m \in Targets /\ m # Core
    BY <1>1, <1>4 DEF Resolvers, Targets, Given, KernelSourceAssumption
  <2>1. CASE KcoreActive(resolver)
    <3>1. b.answer = KcoreFrames(m)
      BY <2>1 DEF resolve_kernel_source, By
    <3> QED
      BY <3>1 DEF KcoreFrames, Sources
  <2>2. CASE ~KcoreActive(resolver) /\ ~resolver.core_loaded
    <3>1. b.answer = "none"
      BY <2>0, <2>2 DEF resolve_kernel_source, ResolveModuleSource, By
    <3> QED
      BY <3>1 DEF Sources
  <2>3. CASE ~KcoreActive(resolver) /\ resolver.core_loaded
    <3>1. ~resolver.active
      BY <1>1, <2>3 DEF Base, KcoreOK, KcoreActive
    <3>2. b = ResolveModuleSource(resolver, m)
      BY <2>0, <2>3 DEF resolve_kernel_source
    <3>3. b.answer = IF Chosen = "none" THEN "none"
                     ELSE IF resolver.ordinary[Chosen] = None THEN Chosen
                     ELSE Rows(resolver.ordinary[Chosen], m, Chosen)
      BY <1>1, <2>0, <2>3, <3>1, <3>2, ModuleSourceGood
    <3>4. Chosen # "none" => resolver.ordinary[Chosen] # None /\ m \in resolver.ordinary[Chosen].loaded
      BY <1>1, <1>4, <2>3, <3>1, WorldIs DEF Base, CoreOK, Completed, Pins
    <3> QED
      BY <3>3, <3>4 DEF Rows, Rest, Sources
  <2> QED
    BY <2>1, <2>2, <2>3
<1>5. ASSUME world.elf # "unusable", NEW stack \in Stacks
      PROVE  Rendered(resolver, stack).answers = InOrder(resolver, stack).answers
  <2>1. CASE requires_kernel_cursor_order(resolver)
    BY <2>1 DEF Rendered
  <2>2. CASE ~requires_kernel_cursor_order(resolver)
    <3>1. Settled(resolver) /\ Rendered(resolver, stack) = Prefetched(resolver, stack)
      BY <1>1, <2>2, OrderSettles DEF Rendered
    <3>2. Prefetched(resolver, stack).answers = [i \in 1 .. Len(stack) |-> Answer(resolver, stack[i])]
      BY <1>1, <1>5, <3>1, PrefetchedKept
    <3>3. InOrder(resolver, stack).answers = [i \in 1 .. Len(stack) |-> Answer(resolver, stack[i])]
      BY <1>1, <1>5, <3>1, InOrderKept
    <3> QED
      BY <3>1, <3>2, <3>3
  <2> QED
    BY <2>1, <2>2
<1>6. world.elf # "unusable" => BatchIsOrdered
  BY <1>5 DEF BatchIsOrdered
<1> QED
  BY <1>2, <1>3, <1>4, <1>6 DEF SourcesExact, FailedStaysFailed

\* Whatever the machine and the recording hold, whichever maps are delivered and
\* samples resolved: a native source is completed once, from its preparation, and is
\* the one perf would take; kcore replaces the others only before they answered;
\* without a kernel ELF a module tried before the core is never answered from all of
\* its rows; and once the order of frames is said not to matter, a batch from the root
\* gives what the frames give one by one from the leaf (PerfSymbolResolver of
\* src/symbols.rs).
THEOREM SourcesAreExact ==
  ASSUME KernelSourceAssumption
  PROVE  Spec => []SourcesExact
<1>1. Init => KernelInv
  BY InitKernel
<1>2. KernelInv /\ [Next]_vars => KernelInv'
  BY KernelNextKeeps
<1>3. KernelInv => SourcesExact
  BY KernelInvIs
<1> QED
  BY <1>1, <1>2, <1>3, PTL DEF Spec

=============================================================================
