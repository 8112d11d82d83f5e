-------------------------- MODULE CancellationScopes --------------------------
(***************************************************************************)
(* The cancellation scopes of src/process/cancellation.rs and the          *)
(* finalization scopes of src/process.rs, as the threads of the program    *)
(* enter and drop them around commands.                                    *)
(*                                                                         *)
(* Every entry point, every command and every exchange enters a scope.     *)
(* The outermost one of a thread makes the thread's State and registers    *)
(* one handler per signal; nested ones share the State through the         *)
(* thread-local CURRENT, a weak reference.  Scopes are local variables:    *)
(* a thread drops them in reverse order.  The threads of the benchmark     *)
(* command have none of the main thread's scopes.                          *)
(*                                                                         *)
(* The registry of signal-hook changes its list of handlers only between   *)
(* two signals: a thread that registers or unregisters waits for a         *)
(* handler that is running.                                                *)
(***************************************************************************)
EXTENDS Integers, Sequences, FiniteSets

CONSTANTS
  Threads,     \* the threads that run commands
  Main,        \* the one that runs the program
  MaxNested,   \* bound on the scopes a thread holds
  MaxSignals,  \* bound on the signals the user sends
  MaxStates    \* bound on the outermost scopes entered

ScopesAssumption ==
  /\ Main \in Threads
  /\ MaxNested \in Nat \ {0} /\ MaxSignals \in Nat /\ MaxStates \in Nat \ {0}

Causes == {"INT", "TERM"}
States == 1 .. MaxStates

VARIABLES
  first, signals,  \* of each State
  registered,      \* the handlers: <<State, signal>>
  current,         \* CURRENT of each thread: a State, or 0
  scopes,          \* of each thread, the innermost last: the State and the handlers of each
  entering,        \* of each thread: the signals that enter() has still to register
  finalizing,      \* FINALIZING of each thread
  made,            \* the States made so far
  running,         \* the handlers that a signal has still to run, each with its part
  sent,            \* signals sent
  early, heard     \* history, of each State: the signals that reached it before it
                   \* had a first one, and the number of all that did

vars == <<first, signals, registered, current, scopes, entering, finalizing, made,
          running, sent, early, heard>>

Last(s) == s[Len(s)]
Front(s) == SubSeq(s, 1, Len(s) - 1)
NotSignalled == UNCHANGED <<first, signals, running, sent, early, heard>>

\* Scopes and registered handlers hold a State.
Upgraded(t) ==
  IF \/ \E i \in DOMAIN scopes[t] : scopes[t][i].state = current[t]
     \/ \E h \in registered : h[1] = current[t]
  THEN current[t] ELSE 0

-----------------------------------------------------------------------------
\* CancellationScope::enter where CURRENT still refers to a State.
EnterNested(t) ==
  /\ entering[t] = <<>> /\ Len(scopes[t]) < MaxNested
  /\ Upgraded(t) # 0
  /\ scopes' = [scopes EXCEPT ![t] = Append(@, [state |-> Upgraded(t), handlers |-> {}])]
  /\ UNCHANGED <<registered, current, entering, finalizing, made>> /\ NotSignalled

\* A scope with a State of its own.  Another thread starts only inside the
\* scope of the main thread.
EnterOutermost(t) ==
  /\ entering[t] = <<>> /\ Upgraded(t) = 0 /\ made < MaxStates
  /\ t # Main => scopes[Main] # <<>> /\ entering[Main] = <<>>
  /\ made' = made + 1
  /\ scopes' = [scopes EXCEPT ![t] = Append(@, [state |-> made', handlers |-> {}])]
  /\ entering' = [entering EXCEPT ![t] = <<"INT", "TERM">>]
  /\ UNCHANGED <<registered, current, finalizing>> /\ NotSignalled

\* signal_hook::low_level::register; CURRENT is set after the last one.
Register(t) ==
  /\ entering[t] # <<>> /\ running = {}
  /\ LET handler == <<Last(scopes[t]).state, Head(entering[t])>> IN
       /\ registered' = registered \cup {handler}
       /\ scopes' = [scopes EXCEPT ![t][Len(scopes[t])].handlers = @ \cup {handler}]
  /\ entering' = [entering EXCEPT ![t] = Tail(@)]
  /\ current' = IF Len(entering[t]) = 1
                THEN [current EXCEPT ![t] = Last(scopes[t]).state] ELSE current
  /\ UNCHANGED <<finalizing, made>> /\ NotSignalled

\* A registration fails: the scope is dropped, with the handlers it has.
RegisterFails(t) ==
  /\ entering[t] # <<>> /\ running = {}
  /\ registered' = registered \ Last(scopes[t]).handlers
  /\ scopes' = [scopes EXCEPT ![t] = Front(@)]
  /\ entering' = [entering EXCEPT ![t] = <<>>]
  /\ UNCHANGED <<current, finalizing, made>> /\ NotSignalled

\* Mutant: a nested scope unregisters the handlers of the State it shares.
DropShared(t) ==
  /\ entering[t] = <<>> /\ scopes[t] # <<>> /\ running = {}
  /\ registered' = registered \ ({Last(scopes[t]).state} \X Causes)
  /\ scopes' = [scopes EXCEPT ![t] = Front(@)]
  /\ UNCHANGED <<current, entering, finalizing, made>> /\ NotSignalled

\* CancellationScope::drop.  The threads started inside a scope of the main
\* thread have ended when it is dropped, and so have the finalization scopes.
Drop(t) ==
  /\ entering[t] = <<>> /\ scopes[t] # <<>>
  /\ Last(scopes[t]).handlers # {} => running = {}
  /\ Len(scopes[t]) = 1 => finalizing[t] = 0
  /\ t = Main /\ Len(scopes[t]) = 1 => \A u \in Threads \ {Main} : scopes[u] = <<>>
  /\ registered' = registered \ Last(scopes[t]).handlers
  /\ scopes' = [scopes EXCEPT ![t] = Front(@)]
  /\ UNCHANGED <<current, entering, finalizing, made>> /\ NotSignalled

\* FinalizationScope::enter and drop, inside a cancellation scope.
Finalize(t) ==
  /\ entering[t] = <<>> /\ scopes[t] # <<>>
  /\ \/ finalizing[t] < 2 /\ finalizing' = [finalizing EXCEPT ![t] = @ + 1]
     \/ finalizing[t] > 0 /\ finalizing' = [finalizing EXCEPT ![t] = @ - 1]
  /\ UNCHANGED <<registered, current, scopes, entering, made>> /\ NotSignalled

-----------------------------------------------------------------------------
\* A signal runs the handlers registered for it.  INT may interrupt TERM, but the
\* same signal only if there is another thread to run its handler.
Signal(s) ==
  /\ sent < MaxSignals
  /\ \A t \in Threads \ {Main} : scopes[t] = <<>> => \A r \in running : r[1][2] # s
  /\ LET reached == {h \in registered : h[2] = s}
         hit == {h[1] : h \in reached}
     IN /\ reached # {}
        /\ running' = running \cup {<<h, "cause", sent>> : h \in reached}
        /\ early' = [k \in States |->
                       early[k] \cup IF k \in hit /\ first[k] = "none" THEN {s} ELSE {}]
        /\ heard' = [k \in States |-> heard[k] + IF k \in hit THEN 1 ELSE 0]
  /\ sent' = sent + 1
  /\ UNCHANGED <<first, signals, registered, current, scopes, entering, finalizing, made>>

\* The handler: keep the first cause, then count the signal.
Handler(r) ==
  /\ r \in running
  /\ LET k == r[1][1] IN
       \/ /\ r[2] = "cause"
          /\ first' = [first EXCEPT ![k] = IF @ = "none" THEN r[1][2] ELSE @]
          /\ running' = (running \ {r}) \cup {<<r[1], "count", r[3]>>}
          /\ UNCHANGED signals
       \/ /\ r[2] = "count"
          /\ signals' = [signals EXCEPT ![k] = @ + 1]
          /\ running' = running \ {r}
          /\ UNCHANGED first
  /\ UNCHANGED <<registered, current, scopes, entering, finalizing, made,
                 sent, early, heard>>

Init ==
  /\ first = [k \in States |-> "none"] /\ signals = [k \in States |-> 0]
  /\ registered = {} /\ running = {} /\ made = 0 /\ sent = 0
  /\ current = [t \in Threads |-> 0] /\ scopes = [t \in Threads |-> <<>>]
  /\ entering = [t \in Threads |-> <<>>] /\ finalizing = [t \in Threads |-> 0]
  /\ early = [k \in States |-> {}] /\ heard = [k \in States |-> 0]

Next ==
  \/ \E t \in Threads : EnterNested(t) \/ EnterOutermost(t) \/ Register(t)
                        \/ RegisterFails(t) \/ Drop(t) \/ Finalize(t)
  \/ \E s \in Causes : Signal(s)
  \/ \E r \in running : Handler(r)

Spec == Init /\ [][Next]_vars

-----------------------------------------------------------------------------
\* cancellation::signal() and repeated() of a thread.
CancellationSignal(t) == IF Upgraded(t) = 0 THEN "none" ELSE first[Upgraded(t)]
Repeated(t) == Upgraded(t) # 0 /\ signals[Upgraded(t)] > 1

\* check_cancellation, for each purpose of a command.
MayLaunch(t, purpose) ==
  \/ CancellationSignal(t) = "none"
  \/ /\ ~Repeated(t)
     /\ \/ purpose = "Finalization"
        \/ purpose = "Preparation" /\ finalizing[t] # 0

TypeOK ==
  /\ first \in [States -> Causes \cup {"none"}] /\ signals \in [States -> Nat]
  /\ registered \subseteq States \X Causes
  /\ current \in [Threads -> States \cup {0}]
  /\ finalizing \in [Threads -> Nat] /\ made \in 0 .. MaxStates

\* CancellationScope::enter and its handlers: what any scope of a thread reads is
\* the first of the signals sent since the outermost one was entered, and their
\* number; a handler is registered exactly for the outermost scopes held; and a
\* thread that entered no scope, or none since its last was dropped, reads nothing.
Settled(k) == \A r \in running : r[1][1] # k

Heard ==
  /\ \A t \in Threads :
       LET k == scopes[t][1].state IN
       IF scopes[t] = <<>> THEN CancellationSignal(t) = "none" /\ ~Repeated(t)
       ELSE /\ \A i \in DOMAIN scopes[t] : scopes[t][i].state = k
            /\ entering[t] = <<>> => CancellationSignal(t) = first[k]
            /\ first[k] \in early[k] \cup {"none"}
            /\ Settled(k) => (first[k] = "none" <=> heard[k] = 0) /\ signals[k] = heard[k]
  /\ registered = UNION {UNION {scopes[t][i].handlers : i \in DOMAIN scopes[t]} : t \in Threads}
  /\ \A t \in Threads : entering[t] = <<>> /\ scopes[t] # <<>> =>
       {scopes[t][1].state} \X Causes \subseteq registered

\* A thread that has been cancelled launches no recording, and after a second
\* signal nothing at all: the count never shows a repetition without a cause.
Stays ==
  \A t \in Threads :
    /\ Repeated(t) => \A p \in {"Preparation", "Recording", "Finalization"} : ~MayLaunch(t, p)
    /\ CancellationSignal(t) # "none" => ~MayLaunch(t, "Recording")

ScopesExact == TypeOK /\ Heard /\ Stays
=============================================================================
