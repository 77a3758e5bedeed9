--------------------------- MODULE StadApplication ---------------------------
(***************************************************************************)
(* Stad.Service/StadApplication.cs: the current sources and registry, and  *)
(* the event that tells views to read them again, with the handlers of     *)
(* AssemblySourceDescripter and DataSourceDescripter.  Any thread may call *)
(* a setter at any time: the class is static, locks its event and says     *)
(* that threads must be considered.  Views are created by the thread UI,   *)
(* and no other thread may touch what they show (WPF throws).              *)
(*                                                                         *)
(* The objects set for a property are numbered from 1; 0 is null, and a    *)
(* view that has never been refreshed shows nothing, 0 as well.            *)
(***************************************************************************)
EXTENDS Integers, Sequences

CONSTANTS
  Threads,
  UI,            \* the thread that creates the views
  Views,
  Listens,       \* Listens[v]: the property view v shows
  MaxSets        \* bound: how often each property is set

Properties == {"DataSource", "AssemblySource", "StadRegistry"}

None == "none"

ASSUME ThreadsAssumption == UI \in Threads /\ None \notin Threads
ASSUME ListensAssumption == Listens \in [Views -> Properties]
ASSUME MaxSetsAssumption == MaxSets \in [Properties -> Nat]

VARIABLES
  current,       \* the static properties
  handlers,      \* _stadEventRaw: the views that have added their handler
  eventLock,     \* the thread inside lock (_eventLock), or None
  pc,            \* pc[t]: "idle", "assigned" (RaiseEvent is next), "invoking"
  type,          \* type[t]: the property whose change t announces, or None
  mine,          \* mine[t]: the object t sets
  todo,          \* todo[t]: the handlers Invoke of t has still to call
  held,          \* held[t]: what the running handler has read
  reading,       \* reading[t]: the running handler has read and not yet shown
  outcome,       \* outcome[t]: how t's last call ended
  shown,         \* shown[v]: what view v shows
  since,         \* history: since[v] is what v's property was when v subscribed
  setBy          \* history: the thread that set each property last, or None

locals == <<type, mine, todo, held, reading, outcome>>
vars == <<current, handlers, eventLock, pc, locals, shown, since, setBy>>

Subscribed == {handlers[i] : i \in DOMAIN handlers}

Init ==
  /\ current = [p \in Properties |-> 0]
  /\ handlers = << >>
  /\ eventLock = None
  /\ pc = [t \in Threads |-> "idle"]
  /\ type = [t \in Threads |-> None]
  /\ mine = [t \in Threads |-> 0]
  /\ todo = [t \in Threads |-> << >>]
  /\ held = [t \in Threads |-> 0]
  /\ reading = [t \in Threads |-> FALSE]
  /\ outcome = [t \in Threads |-> None]
  /\ shown = [v \in Views |-> 0]
  /\ since = [v \in Views |-> 0]
  /\ setBy = [p \in Properties |-> None]

\* StadEvent += OnStadEvent in the constructor of a view, on the UI thread.
Subscribe(v) ==
  /\ pc[UI] = "idle"
  /\ v \notin Subscribed
  /\ handlers' = Append(handlers, v)
  /\ since' = [since EXCEPT ![v] = current[Listens[v]]]
  /\ UNCHANGED <<current, eventLock, pc, locals, shown, setBy>>

\* SetDataSource, SetAssemblySource, SetStadRegistry up to RaiseEvent, given a
\* new object that is available: the property is assigned outside the lock.
Set(t, p) ==
  /\ pc[t] = "idle"
  /\ current[p] < MaxSets[p]
  /\ current' = [current EXCEPT ![p] = @ + 1]
  /\ mine' = [mine EXCEPT ![t] = current[p] + 1]
  /\ type' = [type EXCEPT ![t] = p]
  /\ setBy' = [setBy EXCEPT ![p] = t]
  /\ pc' = [pc EXCEPT ![t] = "assigned"]
  /\ UNCHANGED <<handlers, eventLock, todo, held, reading, outcome, shown, since>>

\* AssertAvailable throws for a source that is not available, before anything
\* is assigned; a registry is not checked.
SetUnavailable(t, p) ==
  /\ pc[t] = "idle"
  /\ p # "StadRegistry"
  /\ outcome' = [outcome EXCEPT ![t] = "threw"]
  /\ UNCHANGED <<current, handlers, eventLock, pc, type, mine, todo, held,
                 reading, shown, since, setBy>>

\* The setter of t ends, and its locals with it.
EndCall(t, how) ==
  /\ pc' = [pc EXCEPT ![t] = "idle"]
  /\ type' = [type EXCEPT ![t] = None]
  /\ mine' = [mine EXCEPT ![t] = 0]
  /\ todo' = [todo EXCEPT ![t] = << >>]
  /\ held' = [held EXCEPT ![t] = 0]
  /\ reading' = [reading EXCEPT ![t] = FALSE]
  /\ outcome' = [outcome EXCEPT ![t] = how]
  /\ UNCHANGED <<current, handlers, shown, since, setBy>>

-----------------------------------------------------------------------------
(* Mistakes a change of RaiseEvent could make.                             *)

\* No lock around Invoke.
MutantNoLock(t) ==
  /\ pc[t] = "assigned"
  /\ eventLock' = t
  /\ pc' = [pc EXCEPT ![t] = "invoking"]
  /\ todo' = [todo EXCEPT ![t] = handlers]
  /\ UNCHANGED <<current, handlers, type, mine, held, reading, outcome, shown,
                 since, setBy>>

\* The handler added last is not called.
MutantSkipLast(t) ==
  /\ pc[t] = "assigned"
  /\ eventLock = None
  /\ eventLock' = t
  /\ pc' = [pc EXCEPT ![t] = "invoking"]
  /\ todo' = [todo EXCEPT ![t] =
               IF handlers = << >> THEN handlers
               ELSE SubSeq(handlers, 1, Len(handlers) - 1)]
  /\ UNCHANGED <<current, handlers, type, mine, held, reading, outcome, shown,
                 since, setBy>>

\* An exception of a handler leaves the lock taken: Enter and Exit, no finally.
MutantKeepLock(t) ==
  /\ pc[t] = "invoking"
  /\ t # UI
  /\ reading[t]
  /\ UNCHANGED eventLock
  /\ EndCall(t, "threw")

\* A handler that throws is swallowed, and the next one is called.
MutantSwallow(t) ==
  /\ pc[t] = "invoking"
  /\ t # UI
  /\ reading[t]
  /\ todo' = [todo EXCEPT ![t] = Tail(@)]
  /\ reading' = [reading EXCEPT ![t] = FALSE]
  /\ UNCHANGED <<current, handlers, eventLock, pc, type, mine, held, outcome,
                 shown, since, setBy>>

\* The lock records the event it was taken for.
MutantUnlockWrongly(t) ==
  /\ pc[t] = "invoking"
  /\ todo[t] = << >>
  /\ eventLock' = type[t]
  /\ EndCall(t, "returned")

-----------------------------------------------------------------------------
\* RaiseEvent takes the lock; Invoke calls the handlers of this moment.
Lock(t) ==
  /\ pc[t] = "assigned"
  /\ eventLock = None
  /\ eventLock' = t
  /\ pc' = [pc EXCEPT ![t] = "invoking"]
  /\ todo' = [todo EXCEPT ![t] = handlers]
  /\ UNCHANGED <<current, handlers, type, mine, held, reading, outcome, shown,
                 since, setBy>>

\* OnStadEvent of a view that does not show the property returns at once.
Ignore(t) ==
  /\ pc[t] = "invoking"
  /\ todo[t] # << >>
  /\ Listens[Head(todo[t])] # type[t]
  /\ todo' = [todo EXCEPT ![t] = Tail(@)]
  /\ UNCHANGED <<current, handlers, eventLock, pc, type, mine, held, reading,
                 outcome, shown, since, setBy>>

\* OnStadEvent of another view reads the property ...
Read(t) ==
  /\ pc[t] = "invoking"
  /\ todo[t] # << >>
  /\ ~reading[t]
  /\ Listens[Head(todo[t])] = type[t]
  /\ held' = [held EXCEPT ![t] = current[type[t]]]
  /\ reading' = [reading EXCEPT ![t] = TRUE]
  /\ UNCHANGED <<current, handlers, eventLock, pc, type, mine, todo, outcome,
                 shown, since, setBy>>

\* ... then, on the UI thread, clears what it shows and shows what it has read.
Show(t) ==
  /\ pc[t] = "invoking"
  /\ t = UI
  /\ todo[t] # << >>
  /\ reading[t]
  /\ shown' = [shown EXCEPT ![Head(todo[t])] = held[t]]
  /\ reading' = [reading EXCEPT ![t] = FALSE]
  /\ held' = [held EXCEPT ![t] = 0]
  /\ todo' = [todo EXCEPT ![t] = Tail(@)]
  /\ UNCHANGED <<current, handlers, eventLock, pc, type, mine, outcome, since, setBy>>

\* Children.Clear throws on any other thread: the handlers after this one are
\* not called, the lock is released, and the setter throws to its caller.
Fail(t) ==
  /\ pc[t] = "invoking"
  /\ t # UI
  /\ reading[t]
  /\ eventLock' = None
  /\ EndCall(t, "threw")

Unlock(t) ==
  /\ pc[t] = "invoking"
  /\ todo[t] = << >>
  /\ eventLock' = None
  /\ EndCall(t, "returned")

Raise(t) == Lock(t) \/ Ignore(t) \/ Read(t) \/ Show(t) \/ Fail(t) \/ Unlock(t)

Next ==
  \/ \E v \in Views : Subscribe(v)
  \/ \E t \in Threads, p \in Properties : Set(t, p) \/ SetUnavailable(t, p)
  \/ \E t \in Threads : Raise(t)

Spec == Init /\ [][Next]_vars

\* A thread inside a setter runs on, and one that waits for the lock gets it.
FairSpec == Spec /\ \A t \in Threads : WF_vars(Raise(t)) /\ SF_vars(Lock(t))

-----------------------------------------------------------------------------
(* Properties.                                                             *)

\* The type invariant.
TypeOK ==
  /\ current \in [Properties -> Nat]
  /\ handlers \in Seq(Views)
  /\ eventLock \in Threads \cup {None}
  /\ pc \in [Threads -> {"idle", "assigned", "invoking"}]
  /\ type \in [Threads -> Properties \cup {None}]
  /\ mine \in [Threads -> Nat]
  /\ todo \in [Threads -> Seq(Views)]
  /\ held \in [Threads -> Nat]
  /\ reading \in [Threads -> BOOLEAN]
  /\ outcome \in [Threads -> {"returned", "threw", None}]
  /\ shown \in [Views -> Nat]
  /\ since \in [Views -> Nat]
  /\ setBy \in [Properties -> Threads \cup {None}]

\* _eventLock (lines 34-37): handlers never run on two threads at a time, and
\* the lock is free when no handler runs, however calls end.
HandlersSerialized ==
  \A t \in Threads : pc[t] = "invoking" <=> eventLock = t

\* The UI thread is still going to refresh v, with what is current now.
RefreshPending(v) ==
  /\ type[UI] = Listens[v]
  /\ \/ pc[UI] = "assigned"
     \/ /\ pc[UI] = "invoking"
        /\ \E i \in DOMAIN todo[UI] :
             /\ todo[UI][i] = v
             /\ i = 1 /\ reading[UI] => held[UI] = current[Listens[v]]

\* The property is assigned outside the lock and read by handlers inside it, so
\* no order of the threads lets a view keep an old value once the UI thread has
\* set a new one: a subscribed view shows the current value, or the UI thread is
\* about to refresh it, or nothing was set since it subscribed, or the last
\* value came from another thread, whose event cannot refresh a view.
ViewsConverge ==
  \A v \in Subscribed :
    \/ shown[v] = current[Listens[v]]
    \/ RefreshPending(v)
    \/ since[v] = current[Listens[v]]
    \/ setBy[Listens[v]] # UI

\* A setter that returns has refreshed the views: those of its property that
\* had subscribed before it assigned show its object or a later one.  A setter
\* whose event could not be shown throws instead (lines 34-37, the handlers).
ReturnMeansShown ==
  [][\A t \in Threads :
       (pc[t] = "invoking" /\ pc'[t] = "idle" /\ outcome'[t] = "returned") =>
         \A v \in Subscribed :
           Listens[v] = type[t] /\ since[v] < mine[t] => shown[v] >= mine[t]]_vars

\* Every call of a setter ends, also while others raise events and throw.
SettersEnd == \A t \in Threads : pc[t] # "idle" ~> pc[t] = "idle"
=============================================================================
