------------------------ MODULE StadApplicationProofs ------------------------
(***************************************************************************)
(* Proofs about StadApplication, for any threads, views and bounds: its    *)
(* types, the lock, the convergence of views and what a return means.      *)
(***************************************************************************)
EXTENDS StadApplication, TLAPS

LEMMA NoneIsNoThread == None \notin Threads /\ UI \in Threads
  BY ThreadsAssumption

\* TypeOK is inductive.
LEMMA TypeInit == Init => TypeOK
  BY ListensAssumption DEF Init, TypeOK, Properties

LEMMA TypeStep == TypeOK /\ [Next]_vars => TypeOK'
<1> SUFFICES ASSUME TypeOK, [Next]_vars PROVE TypeOK'
  OBVIOUS
<1> USE ListensAssumption, ThreadsAssumption DEF TypeOK
<1>1. ASSUME NEW v \in Views, Subscribe(v) PROVE TypeOK'
  BY <1>1 DEF Subscribe, locals
<1>2. ASSUME NEW t \in Threads, NEW p \in Properties, Set(t, p) PROVE TypeOK'
  <2>1. current[p] \in Nat /\ current[p] + 1 \in Nat
    OBVIOUS
  <2>2. current' \in [Properties -> Nat] /\ mine' \in [Threads -> Nat]
    BY <1>2, <2>1 DEF Set
  <2>3. /\ type' \in [Threads -> Properties \cup {None}]
        /\ setBy' \in [Properties -> Threads \cup {None}]
        /\ pc' \in [Threads -> {"idle", "assigned", "invoking"}]
    BY <1>2 DEF Set
  <2> QED
    BY <1>2, <2>2, <2>3 DEF Set
<1>3. ASSUME NEW t \in Threads, NEW p \in Properties, SetUnavailable(t, p) PROVE TypeOK'
  BY <1>3 DEF SetUnavailable
<1>4. ASSUME NEW t \in Threads, Raise(t) PROVE TypeOK'
  <2>1. CASE Lock(t)
    BY <2>1 DEF Lock
  <2>2. CASE Ignore(t)
    <3>1. todo' \in [Threads -> Seq(Views)]
      BY <2>2 DEF Ignore
    <3> QED
      BY <2>2, <3>1 DEF Ignore
  <2>3. CASE Read(t)
    <3>1. type[t] \in Properties
      BY <2>3 DEF Read
    <3> QED
      BY <2>3, <3>1 DEF Read
  <2>4. CASE Show(t)
    BY <2>4 DEF Show
  <2>5. CASE Fail(t)
    BY <2>5 DEF Fail, EndCall
  <2>6. CASE Unlock(t)
    BY <2>6 DEF Unlock, EndCall
  <2> QED
    BY <1>4, <2>1, <2>2, <2>3, <2>4, <2>5, <2>6 DEF Raise
<1>5. CASE UNCHANGED vars
  BY <1>5 DEF vars, locals
<1> QED
  BY <1>1, <1>2, <1>3, <1>4, <1>5 DEF Next

\* What holds of a call while it runs: its property is known and holds its
\* object or a later one, and so does what its handlers have read.
CallOK(t) ==
  /\ pc[t] # "idle" => type[t] \in Properties /\ mine[t] <= current[type[t]]
  /\ reading[t] => /\ pc[t] = "invoking"
                   /\ todo[t] # << >>
                   /\ Listens[Head(todo[t])] = type[t]
                   /\ mine[t] <= held[t]
                   /\ t = UI => \/ held[t] = current[type[t]]
                                \/ setBy[type[t]] # UI

\* A listening view that subscribed before t assigned has been refreshed, or
\* its handler is still to be called.
Served(t) ==
  pc[t] = "invoking" =>
    \A v \in Subscribed :
      Listens[v] = type[t] /\ since[v] < mine[t] =>
        shown[v] >= mine[t] \/ \E i \in DOMAIN todo[t] : todo[t][i] = v

CallInv == \A t \in Threads : CallOK(t)
ServedInv == \A t \in Threads : Served(t)

IInv == TypeOK /\ HandlersSerialized /\ CallInv /\ ServedInv /\ ViewsConverge

LEMMA InvInit == Init => IInv
<1> SUFFICES ASSUME Init PROVE IInv
  OBVIOUS
<1>1. TypeOK
  BY TypeInit
<1>2. HandlersSerialized
  BY NoneIsNoThread DEF Init, HandlersSerialized
<1>3. CallInv /\ ServedInv
  BY DEF Init, CallInv, CallOK, ServedInv, Served
<1>4. ViewsConverge
  BY DEF Init, ViewsConverge, Subscribed
<1> QED
  BY <1>1, <1>2, <1>3, <1>4 DEF IInv

\* What a step of one thread leaves alone of the others.
LEMMA LockStep == TypeOK /\ HandlersSerialized /\ [Next]_vars => HandlersSerialized'
<1> SUFFICES ASSUME TypeOK, HandlersSerialized, [Next]_vars PROVE HandlersSerialized'
  OBVIOUS
<1> USE NoneIsNoThread DEF HandlersSerialized
<1>0. pc \in [Threads -> {"idle", "assigned", "invoking"}]
  BY DEF TypeOK
<1>1. ASSUME NEW v \in Views, Subscribe(v) PROVE HandlersSerialized'
  BY <1>1 DEF Subscribe
<1>2. ASSUME NEW t \in Threads, NEW p \in Properties, Set(t, p) PROVE HandlersSerialized'
  BY <1>0, <1>2 DEF Set
<1>3. ASSUME NEW t \in Threads, NEW p \in Properties, SetUnavailable(t, p)
      PROVE  HandlersSerialized'
  BY <1>3 DEF SetUnavailable
<1>4. ASSUME NEW t \in Threads, Raise(t) PROVE HandlersSerialized'
  <2>1. CASE Lock(t)
    BY <1>0, <2>1 DEF Lock
  <2>2. CASE Ignore(t) \/ Read(t) \/ Show(t)
    BY <2>2 DEF Ignore, Read, Show
  <2>3. CASE Fail(t) \/ Unlock(t)
    BY <1>0, <2>3 DEF Fail, Unlock, EndCall
  <2> QED
    BY <1>4, <2>1, <2>2, <2>3 DEF Raise
<1>5. CASE UNCHANGED vars
  BY <1>5 DEF vars
<1> QED
  BY <1>1, <1>2, <1>3, <1>4, <1>5 DEF Next

LEMMA CallStep == TypeOK /\ CallInv /\ [Next]_vars => CallInv'
<1> SUFFICES ASSUME TypeOK, CallInv, [Next]_vars, NEW u \in Threads
             PROVE  CallOK(u)'
  BY DEF CallInv
<1>0. CallOK(u)
  BY DEF CallInv
<1> USE DEF TypeOK, CallOK
<1>1. ASSUME NEW v \in Views, Subscribe(v) PROVE CallOK(u)'
  BY <1>0, <1>1 DEF Subscribe, locals
<1>2. ASSUME NEW t \in Threads, NEW p \in Properties, Set(t, p) PROVE CallOK(u)'
  <2>1. /\ \A q \in Properties : current[q] <= current'[q]
        /\ UNCHANGED <<todo, held, reading>>
    BY <1>2 DEF Set
  <2>2. CASE u = t
    BY <1>0, <1>2, <2>1, <2>2 DEF Set
  <2>3. CASE u # t
    <3>1. pc'[u] = pc[u] /\ type'[u] = type[u] /\ mine'[u] = mine[u]
      BY <1>2, <2>3 DEF Set
    <3>2. pc[u] # "idle" => current[type[u]] <= current'[type[u]]
      BY <1>0, <2>1
    <3>3. pc[u] # "idle" => current[type[u]] \in Nat /\ current'[type[u]] \in Nat
      BY <1>0, <1>2, TypeStep
    <3>4. ASSUME reading[u], u = UI
          PROVE  held[u] = current'[type[u]] \/ setBy'[type[u]] # UI
      BY <1>0, <1>2, <2>3, <3>4 DEF Set
    <3> QED
      BY <1>0, <2>1, <3>1, <3>2, <3>3, <3>4
  <2> QED
    BY <2>2, <2>3
<1>3. ASSUME NEW t \in Threads, NEW p \in Properties, SetUnavailable(t, p) PROVE CallOK(u)'
  BY <1>0, <1>3 DEF SetUnavailable
<1>4. ASSUME NEW t \in Threads, Raise(t) PROVE CallOK(u)'
  <2>1. CASE Lock(t)
    BY <1>0, <2>1 DEF Lock
  <2>2. CASE Ignore(t)
    BY <1>0, <2>2 DEF Ignore
  <2>3. CASE Read(t)
    BY <1>0, <2>3 DEF Read
  <2>4. CASE Show(t)
    BY <1>0, <2>4 DEF Show
  <2>5. CASE Fail(t) \/ Unlock(t)
    BY <1>0, <2>5 DEF Fail, Unlock, EndCall
  <2> QED
    BY <1>4, <2>1, <2>2, <2>3, <2>4, <2>5 DEF Raise
<1>5. CASE UNCHANGED vars
  BY <1>0, <1>5 DEF vars, locals
<1> QED
  BY <1>1, <1>2, <1>3, <1>4, <1>5 DEF Next

\* Stepping through the handlers: all but the first are still to be called.
LEMMA TailKeeps ==
  \A s \in Seq(Views) : s # << >> =>
    \A i \in DOMAIN s : s[i] # Head(s) =>
      \E j \in DOMAIN Tail(s) : j = i - 1 /\ Tail(s)[j] = s[i]
<1> SUFFICES ASSUME NEW s \in Seq(Views), s # << >>,
                    NEW i \in DOMAIN s, s[i] # Head(s)
             PROVE  \E j \in DOMAIN Tail(s) : j = i - 1 /\ Tail(s)[j] = s[i]
  OBVIOUS
<1>1. i \in 1..Len(s) /\ i # 1
  OBVIOUS
<1>2. i - 1 \in 1..Len(Tail(s)) /\ Tail(s)[i - 1] = s[i]
  BY <1>1
<1> QED
  BY <1>2

LEMMA TailFinds ==
  \A s \in Seq(Views) : \A v :
    s # << >> /\ v # Head(s) /\ (\E i \in DOMAIN s : s[i] = v)
      => \E j \in DOMAIN Tail(s) : Tail(s)[j] = v
  BY TailKeeps

\* A subscription adds one handler.
LEMMA AppendAdds ==
  \A s \in Seq(Views), v \in Views : \A i \in DOMAIN Append(s, v) :
    Append(s, v)[i] = v \/ (i \in DOMAIN s /\ Append(s, v)[i] = s[i])
<1> SUFFICES ASSUME NEW s \in Seq(Views), NEW v \in Views, NEW i \in DOMAIN Append(s, v)
             PROVE  Append(s, v)[i] = v \/ (i \in DOMAIN s /\ Append(s, v)[i] = s[i])
  OBVIOUS
<1>1. i \in 1..(Len(s) + 1)
  OBVIOUS
<1>2. Len(s) \in Nat /\ DOMAIN s = 1..Len(s)
  OBVIOUS
<1>3. CASE i = Len(s) + 1
  BY <1>2, <1>3
<1>4. CASE i \in 1..Len(s)
  BY <1>2, <1>4
<1> QED
  BY <1>1, <1>2, <1>3, <1>4

LEMMA ServedStep == IInv /\ [Next]_vars => ServedInv'
<1> SUFFICES ASSUME IInv, [Next]_vars, NEW u \in Threads PROVE Served(u)'
  BY DEF ServedInv
<1>0. TypeOK /\ HandlersSerialized /\ CallInv /\ CallOK(u) /\ Served(u)
  BY DEF IInv, CallInv, ServedInv
<1> USE <1>0, NoneIsNoThread DEF TypeOK, Served
<1>1. ASSUME NEW v \in Views, Subscribe(v) PROVE Served(u)'
  <2>1. UNCHANGED <<current, pc, type, mine, todo, shown>>
    BY <1>1 DEF Subscribe, locals
  <2>2. \A w \in Subscribed' : w \in Subscribed \/ w = v
    <3>1. handlers' = Append(handlers, v) /\ handlers \in Seq(Views)
      BY <1>1 DEF Subscribe
    <3> QED
      BY <3>1, AppendAdds DEF Subscribed
  <2>3. pc[u] = "invoking" /\ Listens[v] = type[u] => ~(since'[v] < mine[u])
    BY <1>1 DEF Subscribe, CallOK
  <2>4. \A w \in Subscribed : since'[w] = since[w]
    BY <1>1 DEF Subscribe, Subscribed
  <2> QED
    BY <2>1, <2>2, <2>3, <2>4
<1>2. ASSUME NEW t \in Threads, NEW p \in Properties, Set(t, p) PROVE Served(u)'
  BY <1>2 DEF Set, Subscribed
<1>3. ASSUME NEW t \in Threads, NEW p \in Properties, SetUnavailable(t, p) PROVE Served(u)'
  BY <1>3 DEF SetUnavailable, Subscribed
<1>4. ASSUME NEW t \in Threads, Raise(t) PROVE Served(u)'
  <2>0. Subscribed' = Subscribed /\ UNCHANGED since
    <3>1. UNCHANGED <<handlers, since>>
      BY <1>4, Zenon DEF Raise, Lock, Ignore, Read, Show, Fail, Unlock, EndCall
    <3> QED
      BY <3>1 DEF Subscribed
  <2>1. CASE Lock(t)
    <3>1. u # t => UNCHANGED <<pc[u], type[u], mine[u], todo[u], shown>>
      BY <2>1 DEF Lock
    <3>2. u = t => todo'[u] = handlers
      BY <2>1 DEF Lock
    <3> QED
      BY <2>0, <2>1, <3>1, <3>2 DEF Subscribed, Lock
  <2>2. CASE Ignore(t)
    <3>1. UNCHANGED <<pc, type, mine, shown>> /\ todo' = [todo EXCEPT ![t] = Tail(@)]
      BY <2>2 DEF Ignore
    <3>2. ASSUME NEW v \in Subscribed, Listens[v] = type[u],
                 NEW i \in DOMAIN todo[u], todo[u][i] = v
          PROVE  \E j \in DOMAIN todo'[u] : todo'[u][j] = v
      <4>1. CASE u = t
        <5>1. todo[u] \in Seq(Views) /\ todo[u] # << >> /\ v # Head(todo[u])
          BY <2>2, <3>2, <4>1 DEF Ignore
        <5>2. todo'[u] = Tail(todo[u])
          BY <3>1, <4>1
        <5>3. \E j \in DOMAIN Tail(todo[u]) : Tail(todo[u])[j] = todo[u][i]
          BY <3>2, <5>1, TailKeeps
        <5> QED
          BY <3>2, <5>2, <5>3
      <4>2. CASE u # t
        BY <3>1, <3>2, <4>2
      <4> QED
        BY <4>1, <4>2
    <3> QED
      BY <2>0, <3>1, <3>2
  <2>3. CASE Read(t)
    BY <2>0, <2>3 DEF Read
  <2>4. CASE Show(t)
    <3>1. UNCHANGED <<pc, type, mine>> /\ todo' = [todo EXCEPT ![t] = Tail(@)]
      BY <2>4 DEF Show
    <3>2. pc[u] = "invoking" => u = t
      BY <2>4 DEF Show, HandlersSerialized
    <3>3. ASSUME NEW v \in Subscribed, pc[u] = "invoking", v # Head(todo[u]),
                 NEW i \in DOMAIN todo[u], todo[u][i] = v
          PROVE  \E j \in DOMAIN todo'[u] : todo'[u][j] = v
      <4>1. todo[u] \in Seq(Views) /\ todo[u] # << >>
        BY <2>4, <3>2, <3>3 DEF Show
      <4>2. todo'[u] = Tail(todo[u])
        BY <3>1, <3>2, <3>3
      <4>3. \E j \in DOMAIN Tail(todo[u]) : Tail(todo[u])[j] = todo[u][i]
        BY <3>3, <4>1, TailKeeps
      <4> QED
        BY <3>3, <4>2, <4>3
    <3>4. Head(todo[t]) \in Views /\ shown' = [shown EXCEPT ![Head(todo[t])] = held[t]]
      BY <2>4 DEF Show
    <3>5. pc[u] = "invoking" => held[u] >= mine[u]
      BY <2>4, <3>2 DEF Show, CallOK
    <3>6. Subscribed \subseteq Views
      BY DEF Subscribed
    <3> QED
      BY <2>0, <3>1, <3>2, <3>3, <3>4, <3>5, <3>6
  <2>5. CASE Fail(t) \/ Unlock(t)
    <3>1. u = t => pc'[u] = "idle"
      BY <2>5 DEF Fail, Unlock, EndCall
    <3>2. u # t => UNCHANGED <<pc[u], type[u], mine[u], todo[u], shown>>
      BY <2>5 DEF Fail, Unlock, EndCall
    <3> QED
      BY <2>0, <3>1, <3>2
  <2> QED
    BY <1>4, <2>1, <2>2, <2>3, <2>4, <2>5 DEF Raise
<1>5. CASE UNCHANGED vars
  BY <1>5 DEF vars, locals, Subscribed
<1> QED
  BY <1>1, <1>2, <1>3, <1>4, <1>5 DEF Next

LEMMA ConvergeStep == IInv /\ [Next]_vars => ViewsConverge'
<1> DEFINE Fresh(v) ==
      \/ shown[v] = current[Listens[v]]
      \/ RefreshPending(v)
      \/ since[v] = current[Listens[v]]
      \/ setBy[Listens[v]] # UI
<1> SUFFICES ASSUME IInv, [Next]_vars, NEW w \in Subscribed' PROVE Fresh(w)'
  BY DEF ViewsConverge
<1>0. TypeOK /\ HandlersSerialized /\ CallInv /\ (w \in Subscribed => Fresh(w))
  BY DEF IInv, ViewsConverge
<1> USE <1>0, NoneIsNoThread DEF TypeOK, RefreshPending
<1>1. ASSUME NEW v \in Views, Subscribe(v) PROVE Fresh(w)'
  <2>1. UNCHANGED <<current, pc, type, todo, held, reading, shown, setBy>>
    BY <1>1 DEF Subscribe, locals
  <2>2. w \in Subscribed \/ w = v
    <3>1. handlers' = Append(handlers, v) /\ handlers \in Seq(Views)
      BY <1>1 DEF Subscribe
    <3> QED
      BY <3>1, AppendAdds DEF Subscribed
  <2>3. w = v => since'[w] = current[Listens[w]]
    BY <1>1 DEF Subscribe
  <2>4. w # v => since'[w] = since[w]
    BY <1>1 DEF Subscribe
  <2> QED
    BY <2>1, <2>2, <2>3, <2>4
<1>2. ASSUME NEW t \in Threads, NEW p \in Properties, Set(t, p) PROVE Fresh(w)'
  <2>0. w \in Subscribed /\ w \in Views /\ Listens[w] \in Properties
    BY <1>2, ListensAssumption DEF Set, Subscribed
  <2>1. CASE Listens[w] = p
    BY <1>2, <2>0, <2>1 DEF Set
  <2>2. CASE Listens[w] # p
    <3>1. current'[Listens[w]] = current[Listens[w]] /\ setBy'[Listens[w]] = setBy[Listens[w]]
      BY <1>2, <2>0, <2>2 DEF Set
    <3>2. RefreshPending(w) => t # UI
      BY <1>2 DEF Set
    <3>3. RefreshPending(w) => RefreshPending(w)'
      BY <1>2, <3>1, <3>2 DEF Set
    <3> QED
      BY <1>2, <2>0, <3>1, <3>3 DEF Set
  <2> QED
    BY <2>1, <2>2
<1>3. ASSUME NEW t \in Threads, NEW p \in Properties, SetUnavailable(t, p) PROVE Fresh(w)'
  BY <1>3 DEF SetUnavailable, Subscribed
<1>4. ASSUME NEW t \in Threads, Raise(t) PROVE Fresh(w)'
  <2>0. w \in Subscribed /\ UNCHANGED <<current, handlers, since, setBy>>
    <3>1. UNCHANGED <<current, handlers, since, setBy>>
      BY <1>4, Zenon DEF Raise, Lock, Ignore, Read, Show, Fail, Unlock, EndCall
    <3> QED
      BY <3>1 DEF Subscribed
  <2>1. CASE t # UI
    <3>1. UNCHANGED <<pc[UI], type[UI], todo[UI], held[UI], reading[UI], shown>>
      BY <1>4, <2>1 DEF Raise, Lock, Ignore, Read, Show, Fail, Unlock, EndCall
    <3> QED
      BY <2>0, <3>1
  <2>2. CASE t = UI /\ Lock(t)
    <3>1. RefreshPending(w) => RefreshPending(w)'
      <4>1. todo'[UI] = handlers /\ UNCHANGED <<type, held, reading>> /\ pc'[UI] = "invoking"
        BY <2>2 DEF Lock
      <4>2. PICK i \in DOMAIN handlers : handlers[i] = w
        BY <2>0 DEF Subscribed
      <4>3. ~reading[UI]
        BY <2>2 DEF Lock, CallInv, CallOK
      <4> QED
        BY <2>0, <4>1, <4>2, <4>3
    <3> QED
      BY <2>0, <2>2, <3>1 DEF Lock
  <2>3. CASE t = UI /\ Ignore(t)
    <3>1. RefreshPending(w) => RefreshPending(w)'
      <4> SUFFICES ASSUME RefreshPending(w) PROVE RefreshPending(w)'
        OBVIOUS
      <4>1. todo'[UI] = Tail(todo[UI]) /\ UNCHANGED <<pc, type, held, reading>>
        BY <2>3 DEF Ignore
      <4>2. todo[UI] \in Seq(Views) /\ todo[UI] # << >> /\ w # Head(todo[UI])
        BY <2>3 DEF Ignore
      <4>3. \E i \in DOMAIN todo[UI] : todo[UI][i] = w
        BY <2>3 DEF Ignore
      <4>4. \E j \in DOMAIN Tail(todo[UI]) : Tail(todo[UI])[j] = w
        BY <4>2, <4>3, TailFinds
      <4>5. ~reading[UI]
        BY <2>3 DEF Ignore, CallInv, CallOK
      <4>6. pc[UI] = "invoking"
        BY <2>3 DEF Ignore
      <4> QED
        BY <4>1, <4>4, <4>5, <4>6
    <3> QED
      BY <2>0, <2>3, <3>1 DEF Ignore
  <2>4. CASE t = UI /\ Read(t)
    BY <2>0, <2>4 DEF Read
  <2>5. CASE t = UI /\ Show(t)
    <3>1. /\ todo'[UI] = Tail(todo[UI]) /\ ~reading'[UI] /\ UNCHANGED <<pc, type>>
          /\ shown' = [shown EXCEPT ![Head(todo[UI])] = held[UI]]
          /\ pc[UI] = "invoking" /\ todo[UI] \in Seq(Views) /\ todo[UI] # << >>
          /\ reading[UI]
      BY <2>5 DEF Show
    <3>2. CASE w # Head(todo[UI])
      <4>1. RefreshPending(w) => RefreshPending(w)'
        <5> SUFFICES ASSUME RefreshPending(w) PROVE RefreshPending(w)'
          OBVIOUS
        <5>1. /\ todo[UI] \in Seq(Views) /\ todo[UI] # << >> /\ w # Head(todo[UI])
              /\ \E i \in DOMAIN todo[UI] : todo[UI][i] = w
          BY <3>1, <3>2
        <5>2. \E j \in DOMAIN Tail(todo[UI]) : Tail(todo[UI])[j] = w
          <6> HIDE <1>0 DEF TypeOK, RefreshPending \* TailFinds needs no more
          <6> QED
            BY <5>1, TailFinds
        <5> QED
          BY <3>1, <5>2
      <4>2. shown'[w] = shown[w]
        BY <3>1, <3>2
      <4> QED
        BY <2>0, <4>1, <4>2
    <3>3. CASE w = Head(todo[UI])
      \* The handler of w itself ends: w shows what was read.
      <4>1. shown'[w] = held[UI]
        BY <3>1, <3>3
      <4>2. held[UI] = current[Listens[w]] \/ setBy[Listens[w]] # UI
        BY <3>1, <3>3, <1>0 DEF CallInv, CallOK
      <4> QED
        BY <2>0, <4>1, <4>2
    <3> QED
      BY <3>2, <3>3
  <2>6. CASE t = UI /\ Unlock(t)
    <3>1. ~RefreshPending(w)
      BY <2>6 DEF Unlock
    <3> QED
      BY <2>0, <2>6, <3>1 DEF Unlock, EndCall
  <2> QED
    BY <1>4, <2>1, <2>2, <2>3, <2>4, <2>5, <2>6 DEF Raise, Fail
<1>5. CASE UNCHANGED vars
  BY <1>5 DEF vars, locals, Subscribed
<1> QED
  BY <1>1, <1>2, <1>3, <1>4, <1>5 DEF Next

LEMMA InvStep == IInv /\ [Next]_vars => IInv'
  BY TypeStep, LockStep, CallStep, ServedStep, ConvergeStep DEF IInv

THEOREM Invariance == Spec => []IInv
  BY InvInit, InvStep, PTL DEF Spec

\* For any threads, views and numbers of calls: the types are right.
THEOREM TypeCorrect == Spec => []TypeOK
<1>1. IInv => TypeOK
  BY DEF IInv
<1> QED
  BY <1>1, Invariance, PTL

\* Handlers never run on two threads at a time, and no call leaves the lock
\* taken, whether its handlers return or throw.
THEOREM OneThreadInHandlers == Spec => []HandlersSerialized
<1>1. IInv => HandlersSerialized
  BY DEF IInv
<1> QED
  BY <1>1, Invariance, PTL

\* A view keeps an old value only until the UI thread ends the call it is in,
\* or while the last value came from another thread.
THEOREM ViewsCatchUp == Spec => []ViewsConverge
<1>1. IInv => ViewsConverge
  BY DEF IInv
<1> QED
  BY <1>1, Invariance, PTL

\* A setter that returns has refreshed every view that should show its object.
THEOREM ReturnedMeansShown == Spec => ReturnMeansShown
<1> DEFINE Shown(t) ==
      (pc[t] = "invoking" /\ pc'[t] = "idle" /\ outcome'[t] = "returned") =>
        \A v \in Subscribed :
          Listens[v] = type[t] /\ since[v] < mine[t] => shown[v] >= mine[t]
<1>1. IInv /\ [Next]_vars => \A t \in Threads : Shown(t)
  <2> SUFFICES ASSUME IInv, [Next]_vars, NEW t \in Threads,
                      pc[t] = "invoking", pc'[t] = "idle", outcome'[t] = "returned"
               PROVE  todo[t] = << >>
    BY DEF IInv, ServedInv, Served
  <2>0. /\ pc \in [Threads -> {"idle", "assigned", "invoking"}]
        /\ outcome \in [Threads -> {"returned", "threw", None}]
    BY DEF IInv, TypeOK
  <2>1. PICK u \in Threads : Raise(u)
    BY <2>0 DEF Next, Subscribe, Set, SetUnavailable, vars
  <2>2. Fail(u) \/ Unlock(u)
    BY <2>0, <2>1 DEF Raise, Lock, Ignore, Read, Show
  <2>3. u = t
    BY <2>0, <2>2 DEF Fail, Unlock, EndCall
  <2> QED
    BY <2>0, <2>2, <2>3 DEF Fail, Unlock, EndCall
<1>2. IInv /\ [Next]_vars => [\A t \in Threads : Shown(t)]_vars
  BY <1>1
<1> QED
  BY <1>2, Invariance, PTL DEF Spec, ReturnMeansShown
=============================================================================
